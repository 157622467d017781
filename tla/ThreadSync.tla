----------------------------- MODULE ThreadSync -----------------------------
(***************************************************************************)
(* The thread of one chat in a browser tab (web/src/hooks/                 *)
(* use-chat-thread.ts, web/src/lib/chat-queue.ts) against the transcript   *)
(* and the queue of the server that it mirrors (server/src/runtime/        *)
(* chat-queue.ts, server/src/routes/messages.ts).                          *)
(*                                                                         *)
(* Three channels reach the tab and none is ordered against the others:    *)
(* the event stream, which breaks and is opened again; the answers to      *)
(* reads of the whole transcript; and the answers to the tab's own posts   *)
(* and edits.  The server stores a change and tells its listeners in two   *)
(* steps.  Every change carries the number of changes stored so far, which *)
(* the code does not have: it lets the properties say what the tab cannot  *)
(* know, that a read is older than what it replaces.                       *)
(*                                                                         *)
(* Another tab is a source of posts and edits.  What ChatQueue models, the *)
(* queue, the lock of the chat and the turns, is kept here only as far as  *)
(* a listener can see it.                                                  *)
(***************************************************************************)
EXTENDS Integers, Sequences, FiniteSets, SequencesExt, Filter

CONSTANTS PagePosts, OtherPosts,  \* messages this tab, or another one, posts
          PageEdits, OtherEdits,  \* kinds of edits that this tab, or another one, asks for
          MaxEdits, MaxChanges, MaxFaults
                          \* bounds: edits asked for, changes stored, and connections and
                          \* requests that fail

Posts == PagePosts \cup OtherPosts
EditKinds == {"update", "delete", "rewind", "clear", "compact"}
Edits == (PageEdits \X {TRUE}) \cup (OtherEdits \X {FALSE})
NoPost == "no post"

ASSUME ThreadPostsAssumption == PagePosts \cap OtherPosts = {} /\ NoPost \notin Posts
ASSUME ThreadEditsAssumption == PageEdits \cup OtherEdits \subseteq EditKinds
ASSUME ThreadBoundsAssumption ==
  MaxChanges \in Nat \ {0} /\ {MaxEdits, MaxFaults} \subseteq Nat

VARIABLES
  rows,     \* the transcript, rows [id, text]
  stored,   \* the number of changes stored
  waiting,  \* the queue: posts no turn has taken
  batch,    \* posts the turn has taken and not stored
  turn,     \* "idle", "between" two turns, or in a "turn"
  untold,   \* the change that is stored and not published yet, if any
  asked,    \* the number of edits asked for so far
  asks,     \* edits [kind, own, at] that wait for the chat
  link,     \* the stream: "connecting", "open", "backoff", "refetching"
  wire,     \* what was published to this tab and not handled yet
  reads,    \* reads of the transcript under way, with their answers
  replies,  \* answers to the tab's edits on their way
  post,     \* where each post is
  view,     \* `messages` of the tab
  bubbles,  \* `pending` of the tab, rows [id, posting]
  working,  \* `workingRef`
  lost,     \* the last change published while the tab could not hear it
  missed,   \* whether it has applied no read since that has this change
  current,  \* the last change the tab has heard of or read
  loaded,   \* whether it has applied a read
  outOfTurn,\* whether it applied an answer older than what it showed, or a reply with
            \* a new row before the changes that precede it
  faults

serverVars == <<rows, stored, waiting, batch, turn, untold, asked, asks>>
tabVars == <<view, bubbles, working, current, loaded, outOfTurn>>
netVars == <<link, wire, reads, replies, post, lost, missed, faults>>
threadVars == <<serverVars, tabVars, netVars>>

RowIds == 1 .. MaxChanges
Row == [id : RowIds, text : {"first", "edited"}]
Bubble == [id : Posts, posting : BOOLEAN]
Ids(seq) == {seq[i].id : i \in DOMAIN seq}

\* The change stored next, as its event (core/src/types.ts ChatEvent): `of` is
\* queuedId, `ids` what was deleted.
NoRow == [id |-> 1, text |-> "first"]
Message(row, of) == [type |-> "message", row |-> row, ids |-> {}, of |-> of, n |-> stored + 1]
Updated(row) == [type |-> "updated", row |-> row, ids |-> {}, of |-> NoPost, n |-> stored + 1]
Deleted(ids) == [type |-> "deleted", row |-> NoRow, ids |-> ids, of |-> NoPost, n |-> stored + 1]
Changes == [type : {"message", "updated", "deleted"}, row : Row, ids : SUBSET RowIds,
            of : Posts \cup {NoPost}, n : 1 .. MaxChanges]
Statuses == [type : {"status"}, running : BOOLEAN, queued : Seq(Posts)]

ThreadTypeOK ==
  /\ rows \in Seq(Row) /\ stored \in 0 .. MaxChanges
  /\ waiting \in Seq(Posts) /\ batch \in Seq(Posts)
  /\ turn \in {"idle", "between", "turn"}
  /\ Len(untold) <= 1 /\ untold \in Seq([change : Changes, own : BOOLEAN])
  /\ asked \in 0 .. MaxEdits
  /\ asks \subseteq [kind : EditKinds, own : BOOLEAN, at : RowIds]
  /\ link \in {"connecting", "open", "backoff", "refetching"}
  /\ wire \in Seq(Changes \cup Statuses)
  /\ reads \in Seq([kind : {"load", "resync", "gap"}, done : BOOLEAN, rows : Seq(Row),
                    n : 0 .. MaxChanges])
  /\ replies \in Seq(Changes)
  /\ post \in [Posts -> {"out", "sent", "accepted", "answered"}]
  /\ view \in Seq(Row) /\ bubbles \in Seq(Bubble) /\ working \in BOOLEAN
  /\ lost \in 0 .. MaxChanges /\ missed \in BOOLEAN /\ current \in 0 .. MaxChanges
  /\ loaded \in BOOLEAN /\ outOfTurn \in BOOLEAN /\ faults \in 0 .. MaxFaults

NewRead(kind) == [kind |-> kind, done |-> FALSE, rows |-> <<>>, n |-> 0]

ThreadInit ==
  /\ rows = <<NoRow>> /\ stored = 1
  /\ waiting = <<>> /\ batch = <<>> /\ turn = "idle" /\ untold = <<>>
  /\ asked = 0 /\ asks = {}
  /\ link = "connecting" /\ wire = <<>> /\ reads = <<NewRead("load")>> /\ replies = <<>>
  /\ post = [p \in Posts |-> "out"]
  /\ view = <<>> /\ bubbles = <<>> /\ working = FALSE
  /\ lost = 0 /\ missed = TRUE /\ current = 0 /\ loaded = FALSE /\ outOfTurn = FALSE
  /\ faults = 0

-----------------------------------------------------------------------------
(* The server, as far as the listeners of a chat see it.                    *)

PublishStatus(running, queued) ==
  wire' = IF link = "open"
          THEN Append(wire, [type |-> "status", running |-> running, queued |-> queued])
          ELSE wire

\* enqueue: the request of a post arrives.
Enqueue(p) ==
  /\ post[p] = IF p \in PagePosts THEN "sent" ELSE "out"
  /\ post' = [post EXCEPT ![p] = IF p \in PagePosts THEN "accepted" ELSE "answered"]
  /\ waiting' = Append(waiting, p)
  /\ turn' = IF turn = "idle" THEN "between" ELSE turn
  /\ PublishStatus(TRUE, waiting')
  /\ UNCHANGED <<rows, stored, batch, untold, asked, asks, tabVars, link, reads, replies,
                 lost, missed, faults>>

\* A turn takes what waits: all of it when it starts (runBatch), and then the
\* posts with its own profile (steering.take).
TakePosts(k) ==
  /\ waiting # <<>> /\ batch = <<>> /\ untold = <<>>
  /\ \/ turn = "between" /\ k = Len(waiting)
     \/ turn = "turn" /\ k \in DOMAIN waiting
  /\ turn' = "turn"
  /\ batch' = SubSeq(waiting, 1, k)
  /\ waiting' = SubSeq(waiting, k + 1, Len(waiting))
  /\ PublishStatus(TRUE, waiting')
  /\ UNCHANGED <<rows, stored, untold, asked, asks, tabVars, link, reads, replies, post,
                 lost, missed, faults>>

\* One change is stored; its event goes out in a later step.
Store(newRows, change, own) ==
  /\ stored < MaxChanges
  /\ untold = <<>>
  /\ rows' = newRows /\ stored' = stored + 1
  /\ untold' = <<[change |-> change, own |-> own]>>

NewRow == [id |-> stored + 1, text |-> "first"]

StorePost ==
  /\ batch # <<>>
  /\ Store(Append(rows, NewRow), Message(NewRow, Head(batch)), FALSE)
  /\ batch' = Tail(batch)
  /\ UNCHANGED <<waiting, turn, asked, asks, tabVars, netVars>>

StoreReply ==
  /\ turn = "turn" /\ batch = <<>>
  /\ Store(Append(rows, NewRow), Message(NewRow, NoPost), FALSE)
  /\ UNCHANGED <<waiting, batch, turn, asked, asks, tabVars, netVars>>

EndOfTurn ==
  /\ turn = "turn" /\ batch = <<>> /\ untold = <<>>
  /\ turn' = IF waiting = <<>> THEN "idle" ELSE "between"
  /\ IF waiting = <<>> THEN PublishStatus(FALSE, waiting) ELSE UNCHANGED wire
  /\ UNCHANGED <<rows, stored, waiting, batch, untold, asked, asks, tabVars, link, reads,
                 replies, post, lost, missed, faults>>

IndexOf(id) == CHOOSE i \in DOMAIN rows : rows[i].id = id
Doomed(ask) ==
  CASE ask.kind = "delete" -> {ask.at}
    [] ask.kind = "rewind" -> {rows[i].id : i \in IndexOf(ask.at) .. Len(rows)}
    [] ask.kind = "clear" -> Ids(rows)

\* An edit runs under the lock of the chat, which no turn holds then.  One for a
\* row that is gone is refused.
RunEdit(ask) ==
  /\ ask \in asks
  /\ turn # "turn"
  /\ asks' = asks \ {ask}
  /\ CASE ask.kind = "compact" ->
            Store(Append(rows, NewRow), Message(NewRow, NoPost), ask.own)
       [] ask.kind # "compact" /\ ask.kind # "clear" /\ ask.at \notin Ids(rows) ->
            UNCHANGED <<rows, stored, untold>>
       [] ask.kind = "update" /\ ask.at \in Ids(rows) ->
            LET row == [id |-> ask.at, text |-> "edited"] IN
            Store([rows EXCEPT ![IndexOf(ask.at)] = row], Updated(row), ask.own)
       [] OTHER ->
            Store(Without(rows, Doomed(ask)), Deleted(Doomed(ask)), ask.own)
  /\ UNCHANGED <<waiting, batch, turn, asked, tabVars, netVars>>

\* publish, flush and broadcast; the answer to the tab's own edit follows.
Publish ==
  /\ untold # <<>>
  /\ LET change == untold[1].change IN
     /\ wire' = IF link = "open" THEN Append(wire, change) ELSE wire
     /\ lost' = IF link = "open" THEN lost ELSE change.n
     /\ missed' = (link # "open" \/ missed)
     /\ replies' = IF untold[1].own THEN Append(replies, change) ELSE replies
  /\ untold' = <<>>
  /\ UNCHANGED <<rows, stored, waiting, batch, turn, asked, asks, tabVars, link, reads, post,
                 faults>>

\* GET messages.
Answer(i) ==
  /\ ~reads[i].done
  /\ reads' = [reads EXCEPT ![i] = [@ EXCEPT !.done = TRUE, !.rows = rows, !.n = stored]]
  /\ UNCHANGED <<serverVars, tabVars, link, wire, replies, post, lost, missed, faults>>

-----------------------------------------------------------------------------
(* The tab.                                                                 *)

\* A mutant of MergeMessage: whatever arrives is appended.
AlwaysAppend(messages, row) == Append(messages, row)
MergeMessage(messages, row) ==
  IF row.id \in Ids(messages) THEN messages ELSE Append(messages, row)
ReplaceMessage(messages, row) ==
  [i \in DOMAIN messages |-> IF messages[i].id = row.id THEN row ELSE messages[i]]
\* A mutant of RemoveMessages: only one of the messages is removed.
RemoveOne(messages, ids) ==
  IF ids = {} THEN messages
  ELSE Without(messages, {CHOOSE id \in ids : \A other \in ids : other <= id})
RemoveMessages(messages, ids) == Without(messages, ids)
\* A mutant of SettlePending: only a post that was answered is settled.
SettleAccepted(pending, of) ==
  FilterAt(pending, {i \in DOMAIN pending : pending[i].id # of \/ pending[i].posting})
SettlePending(pending, of) == Without(pending, {of})
MarkAccepted(pending, p) ==
  [i \in DOMAIN pending |->
     IF pending[i].id = p THEN [pending[i] EXCEPT !.posting = FALSE] ELSE pending[i]]

\* applyQueueStatus
Unseen(pending, queued) ==
  FilterAt(queued, {i \in DOMAIN queued : queued[i] \notin Ids(pending)})
ApplyQueueStatus(pending, running, queued) ==
  LET new == Unseen(pending, queued)
      all == pending \o [i \in DOMAIN new |-> [id |-> new[i], posting |-> FALSE]]
  IN IF ~running /\ queued = <<>>
     THEN FilterAt(all, {i \in DOMAIN all : all[i].posting}) ELSE all

ApplyChange(change) ==
  CASE change.type = "message" -> MergeMessage(view, change.row)
    [] change.type = "updated" -> ReplaceMessage(view, change.row)
    [] change.type = "deleted" -> RemoveMessages(view, change.ids)

\* handle, for the events that carry a change ...
HandleChange ==
  /\ wire # <<>> /\ Head(wire).type # "status"
  /\ wire' = Tail(wire)
  /\ view' = ApplyChange(Head(wire))
  /\ bubbles' = SettlePending(bubbles, Head(wire).of)
  /\ current' = Max({current, Head(wire).n})
  /\ UNCHANGED <<serverVars, working, loaded, outOfTurn, link, reads, replies, post, lost,
                 missed, faults>>

\* ... and for a status, which reads the transcript again once the work is over.
HandleStatus ==
  /\ wire # <<>> /\ Head(wire).type = "status"
  /\ wire' = Tail(wire)
  /\ bubbles' = ApplyQueueStatus(bubbles, Head(wire).running, Head(wire).queued)
  /\ reads' = IF working /\ ~Head(wire).running THEN Append(reads, NewRead("resync")) ELSE reads
  /\ working' = Head(wire).running
  /\ UNCHANGED <<serverVars, view, current, loaded, outOfTurn, link, replies, post, lost,
                 missed, faults>>

AfterRead(i) == IF reads[i].kind = "gap" THEN "connecting" ELSE link

\* An answer replaces the whole list, whatever was shown meanwhile.
ApplyRead(i) ==
  /\ reads[i].done
  /\ view' = reads[i].rows
  /\ outOfTurn' = (reads[i].n < current)
  /\ current' = Max({current, reads[i].n}) /\ loaded' = TRUE
  /\ missed' = (missed /\ reads[i].n < lost)
  /\ link' = AfterRead(i)
  /\ reads' = RemoveAt(reads, i)
  /\ UNCHANGED <<serverVars, bubbles, working, wire, replies, post, lost, faults>>

ReadFails(i) ==
  /\ faults < MaxFaults /\ faults' = faults + 1
  /\ link' = AfterRead(i)
  /\ reads' = RemoveAt(reads, i)
  /\ UNCHANGED <<serverVars, tabVars, wire, replies, post, lost, missed>>

\* The stream opens: the server sends the status of the chat first (subscribe).
Subscribe ==
  /\ link = "connecting" /\ link' = "open"
  /\ wire' = <<[type |-> "status", running |-> turn # "idle", queued |-> waiting]>>
  /\ UNCHANGED <<serverVars, tabVars, reads, replies, post, lost, missed, faults>>

OnTheWire == {c \in Range(wire) : c.type # "status"}

\* The stream cannot be opened, or breaks: what was on its way is gone.
Break ==
  /\ link \in {"connecting", "open"} /\ faults < MaxFaults
  /\ faults' = faults + 1
  /\ link' = "backoff" /\ wire' = <<>>
  /\ lost' = Max({lost} \cup {c.n : c \in OnTheWire})
  /\ missed' = (OnTheWire # {} \/ missed)
  /\ UNCHANGED <<serverVars, tabVars, reads, replies, post>>

Refetch ==
  /\ link = "backoff" /\ link' = "refetching"
  /\ reads' = Append(reads, NewRead("gap"))
  /\ UNCHANGED <<serverVars, tabVars, wire, replies, post, lost, missed, faults>>

SendPost(p) ==
  /\ p \in PagePosts /\ post[p] = "out"
  /\ post' = [post EXCEPT ![p] = "sent"]
  /\ bubbles' = Append(bubbles, [id |-> p, posting |-> TRUE])
  /\ UNCHANGED <<serverVars, view, working, current, loaded, outOfTurn, link, wire, reads,
                 replies, lost, missed, faults>>

PostAnswered(p) ==
  /\ p \in PagePosts /\ post[p] = "accepted"
  /\ post' = [post EXCEPT ![p] = "answered"]
  /\ bubbles' = MarkAccepted(bubbles, p)
  /\ UNCHANGED <<serverVars, view, working, current, loaded, outOfTurn, link, wire, reads,
                 replies, lost, missed, faults>>

\* The request or its answer is lost, or it is refused: the tab takes it back.
PostFails(p) ==
  /\ p \in PagePosts /\ post[p] \in {"sent", "accepted"} /\ faults < MaxFaults
  /\ faults' = faults + 1
  /\ post' = [post EXCEPT ![p] = "answered"]
  /\ bubbles' = SettlePending(bubbles, p)
  /\ UNCHANGED <<serverVars, view, working, current, loaded, outOfTurn, link, wire, reads,
                 replies, lost, missed>>

\* updateMessage, deleteMessage, resend, clear and compact, of this tab for what
\* it shows and of another one for what is stored.  The chat is idle when asked.
AskEdit(e) ==
  /\ asked < MaxEdits /\ asked' = asked + 1
  /\ turn = "idle"
  /\ \E at \in Ids(IF e[2] THEN view ELSE rows) :
       asks' = asks \cup {[kind |-> e[1], own |-> e[2], at |-> at]}
  /\ UNCHANGED <<rows, stored, waiting, batch, turn, untold, tabVars, netVars>>

ReplyIsOutOfTurn(change) ==
  \/ change.type # "deleted" /\ change.n < current
  \/ change.type = "message" /\ change.n > current + 1

ApplyReply ==
  /\ replies # <<>>
  /\ replies' = Tail(replies)
  /\ view' = ApplyChange(Head(replies))
  /\ outOfTurn' = (outOfTurn \/ ReplyIsOutOfTurn(Head(replies)))
  /\ UNCHANGED <<serverVars, bubbles, working, current, loaded, link, wire, reads, post, lost,
                 missed, faults>>

ThreadNext ==
  \/ \E p \in Posts : Enqueue(p) \/ SendPost(p) \/ PostAnswered(p) \/ PostFails(p)
  \/ \E k \in 1 .. Len(waiting) : TakePosts(k)
  \/ StorePost \/ StoreReply \/ EndOfTurn \/ Publish
  \/ \E ask \in asks : RunEdit(ask)
  \/ \E e \in Edits : AskEdit(e)
  \/ \E i \in DOMAIN reads : Answer(i) \/ ApplyRead(i) \/ ReadFails(i)
  \/ HandleChange \/ HandleStatus \/ ApplyReply
  \/ Subscribe \/ Break \/ Refetch

ThreadSpec == ThreadInit /\ [][ThreadNext]_threadVars

-----------------------------------------------------------------------------
\* Nothing is under way: the chat is idle, the stream is open and drained, and
\* every request has its answer.
Quiet ==
  /\ turn = "idle" /\ untold = <<>> /\ asks = {}
  /\ link = "open" /\ wire = <<>> /\ reads = <<>> /\ replies = <<>>
  /\ \A p \in Posts : post[p] \in {"out", "answered"}

\* When all is quiet the tab shows the transcript as it is, unless the last
\* answer it applied came out of turn, or a change was published while it was not
\* listening and no read since has it.  These are the only ways to a stale
\* thread: events, reads and replies that deliver a change twice, late or in
\* different orders do no harm otherwise (mergeMessage, replaceMessage,
\* removeMessages, resync).
QuietTabIsCurrent == Quiet /\ ~outOfTurn /\ ~missed => view = rows

\* No message is listed twice, in the thread or among the bubbles, whichever of
\* the channels bring it ("Events and a transcript refetch can both deliver it").
NothingIsListedTwice ==
  Cardinality(Ids(view)) = Len(view) /\ Cardinality(Ids(bubbles)) = Len(bubbles)

\* When all is quiet, a tab that missed nothing has no bubble left: every
\* message the server accepted has become a row, every other was taken back.
BubblesSettle == Quiet /\ lost = 0 => bubbles = <<>>

\* The tab tells the truth: in the thread and in its bubbles, whichever of events,
\* reads and replies brought what it shows.
ThreadIsTrue == QuietTabIsCurrent /\ NothingIsListedTwice /\ BubblesSettle

\* "Reconnects with backoff and refetches the transcript after a gap, so nothing
\* sent while disconnected is missed": when all is quiet, a tab whose answers came
\* in turn shows every row.
NothingSentIsMissed == Quiet /\ ~outOfTurn /\ loaded => Ids(rows) \subseteq Ids(view)
=============================================================================
