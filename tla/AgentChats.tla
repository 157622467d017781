----------------------------- MODULE AgentChats -----------------------------
(***************************************************************************)
(* Agents and chats in the database: an agent's own chat, opened by        *)
(* whoever needs it first (server/src/runtime/agent-chat.ts), group chats  *)
(* with other agents as members, and the deletion of both (server/src/     *)
(* routes/chats.ts, server/src/routes/agents.ts, db/src/store.ts,          *)
(* db/sql/guards.sql).                                                     *)
(*                                                                         *)
(* A request is several statements, and nothing keeps those of two         *)
(* requests apart.  A statement with its triggers, foreign keys and        *)
(* indexes is one step.  Agents do not come back once deleted, so a check  *)
(* that an agent exists is left out where the next write repeats it.  One  *)
(* user; which profile a chat is on is not followed.                       *)
(***************************************************************************)
EXTENDS Naturals, FiniteSets, Functions

CONSTANTS
  Agents, Requests,
  Kind, Of, With,  \* of each request: what it asks, of which agent, naming which others
  MaxRequests, MaxChats  \* bounds on requests made and chats ever created

Kinds == {"open", "group", "members", "append", "delete agent", "delete chat"}
ASSUME AgentChatsRequestsAssumption ==
  /\ Kind \in [Requests -> Kinds] /\ Of \in [Requests -> Agents]
  /\ With \in [Requests -> SUBSET Agents]
  /\ \A r \in Requests : Of[r] \notin With[r]
ASSUME AgentChatsBoundsAssumption ==
  MaxRequests \in Nat /\ MaxChats \in Nat /\ MaxChats >= 2  \* Init may have two chats

VARIABLES
  agents,   \* the agents that exist
  chats,    \* by id: [of, members, told], `told` whether it has messages
  created,  \* the number of chats created so far
  request,  \* where each request is: [stage, chat, disturbed]
  raced     \* chats written between the last check of a deletion and the deletion

chatsVars == <<agents, chats, created, request, raced>>

ChatIds == 1 .. MaxChats
NoChat == 0
Chat == [of : Agents, members : SUBSET Agents, told : BOOLEAN]
Ended == {"done", "refused", "failed"}
Asked(r) == request[r].stage # "out"
UnderWay(r) == request[r].stage \notin Ended \cup {"out"}

AgentChatsTypeOK ==
  /\ agents \subseteq Agents
  /\ DOMAIN chats \subseteq ChatIds /\ \A c \in DOMAIN chats : chats[c] \in Chat
  /\ created \in 0 .. MaxChats /\ raced \subseteq ChatIds
  /\ request \in [Requests -> [stage : {"out", "find", "insert", "find again", "count", "clear",
                                        "drop", "check", "delete", "write", "store", "touch"}
                                       \cup Ended,
                               chat : ChatIds \cup {NoChat}, disturbed : BOOLEAN]]

\* At first one agent may have its own chat and a group chat with another.
AgentChatsInit ==
  /\ agents = Agents /\ raced = {}
  /\ request = [r \in Requests |-> [stage |-> "out", chat |-> NoChat, disturbed |-> FALSE]]
  /\ \/ chats = <<>>
     \/ \E a, b \in Agents :
          a # b /\ chats = << [of |-> a, members |-> {}, told |-> TRUE],
                              [of |-> a, members |-> {b}, told |-> TRUE] >>
  /\ created = Cardinality(DOMAIN chats)

Own(a) == {c \in DOMAIN chats : chats[c].of = a /\ chats[c].members = {}}
Naming(a) == {c \in DOMAIN chats : chats[c].of = a \/ a \in chats[c].members}
OwnOrNone(a) == IF Own(a) = {} THEN NoChat ELSE CHOOSE c \in Own(a) : TRUE

To(r, stage, chat) ==
  request' = [request EXCEPT ![r].stage = stage, ![r].chat = chat]
Refuse(r) == To(r, "refused", request[r].chat)
\* ... and every request under way that looks at the same rows is disturbed.
ToDisturbing(r, stage, chat, Others) ==
  request' = [s \in Requests |->
                CASE s = r -> [request[r] EXCEPT !.stage = stage, !.chat = chat]
                  [] s # r /\ s \in Others /\ UnderWay(s) -> [request[s] EXCEPT !.disturbed = TRUE]
                  [] OTHER -> request[s]]

Requesting(kind) == {r \in Requests : Kind[r] = kind}
Openings(a) == {r \in Requesting("open") : Of[r] = a}
Deletions(As) == {r \in Requesting("delete agent") : Of[r] \in As}
UsersOf(c) == {r \in Requests : request[r].chat = c}

\* A request arrives and reads what it is about.
Ask(r) ==
  /\ ~Asked(r) /\ Cardinality({s \in Requests : Asked(s)}) < MaxRequests
  /\ CASE Kind[r] = "open" -> To(r, IF Of[r] \in agents THEN "find" ELSE "refused", NoChat)
       [] Kind[r] = "group" ->
            To(r, IF {Of[r]} \cup With[r] \subseteq agents THEN "insert" ELSE "refused", NoChat)
       [] Kind[r] = "delete agent" ->
            To(r, IF Of[r] \in agents THEN "find" ELSE "refused", NoChat)
       [] Kind[r] = "members" ->
            \E c \in DOMAIN chats :
              /\ chats[c].of = Of[r]
              /\ To(r, IF With[r] \subseteq agents /\ (chats[c].members = {}) = (With[r] = {})
                       THEN "write" ELSE "refused", c)
       [] Kind[r] = "append" -> \E c \in DOMAIN chats : To(r, "store", c)
       [] Kind[r] = "delete chat" -> \E c \in DOMAIN chats : To(r, "clear", c)
  /\ UNCHANGED <<agents, chats, created, raced>>

\* A mutant of Guarded: the trigger looks at the agent of a chat only.
GuardedAgent(chat) == chat.of \in agents
\* chats_same_owner, on every insert and update of a chat.
Guarded(chat) == chat.of \in agents /\ chat.members \subseteq agents

\* What is written while a deletion of one of its agents is past its last check.
Racing(c, chat) ==
  IF \E r \in Deletions(chat.members) : request[r].stage = "delete" THEN raced \cup {c} ELSE raced

\* A mutant of Insertable: no index keeps chats of one agent apart.
InsertableTwice(chat) == Guarded(chat)
\* chats_agent_direct_uidx, besides the trigger.
Insertable(chat) == Guarded(chat) /\ (chat.members = {} => Own(chat.of) = {})

Insert(r, chat) ==
  LET c == created + 1 IN
  /\ created < MaxChats
  /\ chats' = [d \in DOMAIN chats \cup {c} |-> IF d = c THEN chat ELSE chats[d]]
  /\ created' = c
  /\ raced' = Racing(c, chat)
  /\ ToDisturbing(r, "done", c, Deletions({chat.of} \cup chat.members))
  /\ UNCHANGED agents

\* ensureAgentChat: find, create, and find again when the create failed.
OpenFinds(r) ==
  /\ Kind[r] = "open" /\ request[r].stage = "find"
  /\ To(r, IF Own(Of[r]) # {} THEN "done" ELSE "insert", OwnOrNone(Of[r]))
  /\ UNCHANGED <<agents, chats, created, raced>>

\* A mutant of AfterFailedInsert: the race is lost.
RaceIsLost(r) == "failed"
AfterFailedInsert(r) == IF Kind[r] = "open" THEN "find again" ELSE "failed"
InsertChat(r) ==
  LET chat == [of |-> Of[r], members |-> IF Kind[r] = "open" THEN {} ELSE With[r],
               told |-> FALSE]
  IN /\ request[r].stage = "insert"
     /\ \/ Insertable(chat) /\ Insert(r, chat)
        \/ ~Insertable(chat) /\ To(r, AfterFailedInsert(r), NoChat)
                             /\ UNCHANGED <<agents, chats, created, raced>>

OpenFindsAgain(r) ==
  /\ request[r].stage = "find again"
  /\ To(r, IF Own(Of[r]) # {} THEN "done" ELSE "failed", OwnOrNone(Of[r]))
  /\ UNCHANGED <<agents, chats, created, raced>>

\* PATCH with other members.
WriteMembers(r) ==
  LET c == request[r].chat IN
  /\ request[r].stage = "write"
  /\ \/ c \notin DOMAIN chats /\ Refuse(r) /\ UNCHANGED <<chats, raced>>
     \/ /\ c \in DOMAIN chats
        /\ LET chat == [chats[c] EXCEPT !.members = With[r]] IN
           \/ ~Guarded(chat) /\ To(r, "failed", c) /\ UNCHANGED <<chats, raced>>
           \/ /\ Guarded(chat)
              /\ chats' = [chats EXCEPT ![c] = chat] /\ raced' = Racing(c, chat)
              /\ ToDisturbing(r, "done", c, Deletions(With[r]))
  /\ UNCHANGED <<agents, created>>

\* A message is stored, and the chat is touched, which is an update of its row.
StoreMessage(r) ==
  LET c == request[r].chat IN
  /\ request[r].stage = "store"
  /\ \/ c \notin DOMAIN chats /\ To(r, "failed", c) /\ UNCHANGED chats
     \/ /\ c \in DOMAIN chats
        /\ chats' = [chats EXCEPT ![c].told = TRUE] /\ To(r, "touch", c)
  /\ UNCHANGED <<agents, created, raced>>

Touch(r) ==
  LET c == request[r].chat IN
  /\ request[r].stage = "touch"
  /\ To(r, IF c \notin DOMAIN chats THEN "failed" ELSE IF Guarded(chats[c]) THEN "done" ELSE "failed",
        c)
  /\ UNCHANGED <<agents, chats, created, raced>>

\* The deletion of an agent finds its own chat, and counts the chats it is in.
DeleteFinds(r) ==
  /\ Kind[r] = "delete agent" /\ request[r].stage = "find"
  /\ To(r, "count", OwnOrNone(Of[r]))
  /\ UNCHANGED <<agents, chats, created, raced>>

InUse(r) == Cardinality(Naming(Of[r])) > (IF request[r].chat = NoChat THEN 0 ELSE 1)
DeleteCounts(r) ==
  /\ request[r].stage = "count"
  /\ To(r, IF InUse(r) THEN "refused" ELSE IF request[r].chat = NoChat THEN "check" ELSE "clear",
        request[r].chat)
  /\ UNCHANGED <<agents, chats, created, raced>>

\* The messages of a chat, and then the chat, of either deletion.
ClearMessages(r) ==
  LET c == request[r].chat IN
  /\ request[r].stage = "clear"
  /\ chats' = IF c \in DOMAIN chats THEN [chats EXCEPT ![c].told = FALSE] ELSE chats
  /\ To(r, "drop", c)
  /\ UNCHANGED <<agents, created, raced>>

DropChat(r) ==
  LET c == request[r].chat IN
  /\ request[r].stage = "drop"
  /\ chats' = Restrict(chats, DOMAIN chats \ {c})
  /\ ToDisturbing(r, IF Kind[r] = "delete agent" THEN "check" ELSE "done", c,
                  UsersOf(c) \cup (IF c \in DOMAIN chats THEN Openings(chats[c].of) ELSE {}))
  /\ UNCHANGED <<agents, created, raced>>

\* agents.delete looks once more, and then deletes: the foreign key of a chat to
\* its agent stops it, the members of a chat have none.
DeleteChecks(r) ==
  /\ request[r].stage = "check"
  /\ To(r, IF Of[r] \notin agents THEN "done" ELSE IF Naming(Of[r]) # {} THEN "failed" ELSE "delete",
        request[r].chat)
  /\ UNCHANGED <<agents, chats, created, raced>>

Restricted(a) == \E c \in DOMAIN chats : chats[c].of = a
DeleteAgent(r) ==
  /\ request[r].stage = "delete"
  /\ \/ Restricted(Of[r]) /\ To(r, "failed", request[r].chat) /\ UNCHANGED agents
     \/ /\ ~Restricted(Of[r])
        /\ agents' = agents \ {Of[r]}
        /\ ToDisturbing(r, "done", request[r].chat, Openings(Of[r]))
  /\ UNCHANGED <<chats, created, raced>>

AgentChatsNext ==
  \E r \in Requests :
    \/ Ask(r)
    \/ OpenFinds(r) \/ InsertChat(r) \/ OpenFindsAgain(r)
    \/ WriteMembers(r) \/ StoreMessage(r) \/ Touch(r)
    \/ DeleteFinds(r) \/ DeleteCounts(r) \/ ClearMessages(r) \/ DropChat(r)
    \/ DeleteChecks(r) \/ DeleteAgent(r)

AgentChatsSpec == AgentChatsInit /\ [][AgentChatsNext]_chatsVars

-----------------------------------------------------------------------------
\* "Each agent has one chat of its own": whoever opened the chat of an agent, and
\* however the requests overlapped, they hold the same one as long as it exists.
OneChatEach ==
  \A r, s \in Requesting("open") :
    /\ Of[r] = Of[s] /\ request[r].stage = "done" /\ request[s].stage = "done"
    /\ {request[r].chat, request[s].chat} \subseteq DOMAIN chats
    => request[r].chat = request[s].chat

\* A chat names agents that exist.  Only one written between the last check and
\* the deletion of a member names one that does not: "Group chats it owns or
\* answers in block the delete" otherwise.
ChatsNameAgents ==
  \A c \in DOMAIN chats :
    chats[c].of \in agents /\ (c \notin raced => chats[c].members \subseteq agents)

\* A request fails for one reason only.  "A create that loses a race ... returns
\* the winner": an opening fails when the agent or its chat was deleted meanwhile;
\* the deletion of an agent, when a chat that names it was written meanwhile; a
\* message, when its chat was deleted meanwhile or names a deleted member.
RequestsFailForAReason ==
  \A r \in Requests :
    request[r].stage = "failed" =>
      CASE Kind[r] \in {"open", "delete agent"} -> request[r].disturbed
        [] Kind[r] = "append" -> request[r].disturbed \/ request[r].chat \in raced
        [] OTHER -> TRUE

\* Agents and chats stay together, and no race of two requests shows to a user.
ChatsStayTogether == OneChatEach /\ ChatsNameAgents /\ RequestsFailForAReason
=============================================================================
