---------------------------- MODULE McpConnection ----------------------------
(***************************************************************************)
(* One MCP server of the runtime (mcp/src/connection.ts, and what          *)
(* mcp/src/runtime.ts asks of it): the connection that several tool calls  *)
(* share, lose and open again.                                             *)
(*                                                                         *)
(* A step runs from one await to the next.  What is awaited is the opening *)
(* of a client, the list of its tools, a tool call, or the end of a client *)
(* that is being closed, which for a child process can take seconds: other *)
(* handlers run meanwhile, and find `state` and `client` as they are then. *)
(***************************************************************************)
EXTENDS Naturals, FiniteSets

CONSTANTS ToolCalls,      \* the tool calls
          SseFallback, \* an http server that may speak the older transport
          MaxClients  \* bound on clients ever made

ASSUME McpFallbackAssumption == SseFallback \in BOOLEAN
ASSUME McpBoundsAssumption == MaxClients \in Nat \ {0}

VARIABLES
  state,     \* "closed" before the first connection
  client,    \* the current client, 0 for none
  channel,      \* of each client: "new", "opening", "up", "down", and, by us,
             \* "closing" or "closed"
  tools,     \* whether the tools of the server are listed
  opening,   \* connectPromise: [stage, of], of the client it opens
  calls,     \* where each call is: [stage, on, again]
  shut       \* close was called

mcpVars == <<state, client, channel, tools, opening, calls, shut>>

Clients == 1 .. MaxClients
None == 0
Over == [stage |-> "none", of |-> None]
CallAt(stage, on, again) == [stage |-> stage, on |-> on, again |-> again]

McpTypeOK ==
  /\ state \in {"closed", "ready", "error"}
  /\ client \in Clients \cup {None}
  /\ channel \in [Clients -> {"new", "opening", "up", "down", "closing", "closed"}]
  /\ tools \in BOOLEAN /\ shut \in BOOLEAN
  /\ opening \in [stage : {"none", "open", "list", "fallback", "fallback open", "reset"},
                  of : Clients \cup {None}]
  /\ calls \in [ToolCalls -> [stage : {"out", "connect", "call", "reset", "done"},
                          on : Clients \cup {None}, again : BOOLEAN]]

\* The runtime connects every server when it starts.
McpInit ==
  /\ state = "closed" /\ client = 1 /\ tools = FALSE /\ shut = FALSE
  /\ channel = [k \in Clients |-> IF k = 1 THEN "opening" ELSE "new"]
  /\ opening = [stage |-> "open", of |-> 1]
  /\ calls = [c \in ToolCalls |-> CallAt("out", None, FALSE)]

NewClient == CHOOSE k \in Clients : channel[k] = "new" /\ \A j \in 1 .. k - 1 : channel[j] # "new"
HasNewClient == \E k \in Clients : channel[k] = "new"

\* attach, at its start: the new client is the current one before it is open.
Attach(stage, links) ==
  /\ HasNewClient
  /\ client' = NewClient
  /\ channel' = [links EXCEPT ![NewClient] = "opening"]
  /\ opening' = [stage |-> stage, of |-> NewClient]

\* What a client that is closing was asked may still be answered.
Closing == IF client = None THEN channel ELSE [channel EXCEPT ![client] = "closing"]
Closed(k) == [channel EXCEPT ![k] = "closed"]

\* connectOnce ended, and with it the wait of every call for it: each goes on
\* with the client of the connection, or answers with an error.
Waiting == {c \in ToolCalls : calls[c].stage = "connect"}
Connected == opening' = Over
             /\ state' = "ready"
             /\ calls' = [c \in ToolCalls |->
                            CASE c \in Waiting /\ client # None ->
                                   CallAt("call", client, calls[c].again)
                              [] c \in Waiting /\ client = None -> CallAt("done", None, FALSE)
                              [] OTHER -> calls[c]]
\* A mutant of NotConnected: the calls that wait for the attempt are not told.
NotConnectedAlone == opening' = Over /\ UNCHANGED calls
NotConnected == opening' = Over
                /\ calls' = [c \in ToolCalls |->
                               IF c \in Waiting THEN CallAt("done", None, FALSE) ELSE calls[c]]

\* connect, as call c waits for it: one attempt serves every call.
Connect(c, again, links) ==
  /\ calls' = [calls EXCEPT ![c] = CallAt("connect", None, again)]
  /\ IF opening = Over THEN Attach("open", links)
     ELSE client' = client /\ channel' = links /\ UNCHANGED opening

\* The client opened; a server may have no tools to list.  When a call has reset
\* the connection meanwhile there is no client to list the tools of.
Opened ==
  /\ opening.stage \in {"open", "fallback open"}
  /\ channel[opening.of] \in {"opening", "closing"}
  /\ channel' = [channel EXCEPT ![opening.of] = IF @ = "opening" THEN "up" ELSE @]
  /\ \/ /\ client # None
        /\ opening' = [opening EXCEPT !.stage = "list"]
        /\ UNCHANGED <<state, tools, calls>>
     \/ /\ client # None /\ tools' = FALSE /\ Connected
     \/ /\ client = None /\ UNCHANGED tools /\ Connected
  /\ UNCHANGED <<client, shut>>

Listed ==
  /\ opening.stage = "list" /\ channel[opening.of] \in {"up", "closing"}
  /\ tools' = TRUE
  /\ Connected
  /\ UNCHANGED <<client, channel, shut>>

\* A mutant of Reset: the tools stay listed.
ResetKeepingTools == state' = "error" /\ tools' = tools /\ client' = None /\ channel' = Closing
\* failAndReset, up to its wait for the client to close.
Reset == state' = "error" /\ tools' = FALSE /\ client' = None /\ channel' = Closing

OpenFails ==
  /\ opening.stage \in {"open", "fallback open", "list"}
  /\ ~(SseFallback /\ opening.stage = "open")
  /\ Reset
  /\ IF client = None THEN NotConnected
     ELSE opening' = [opening EXCEPT !.stage = "reset"] /\ UNCHANGED calls
  /\ UNCHANGED shut

OpenFailureClosed ==
  /\ opening.stage = "reset"
  /\ state' = "error"
  /\ channel' = Closed(opening.of)
  /\ NotConnected
  /\ UNCHANGED <<client, tools, shut>>

\* openHttp: the older transport is tried once the first client is closed.
FallBack ==
  /\ SseFallback /\ opening.stage = "open"
  /\ client' = None /\ channel' = Closing
  /\ opening' = [opening EXCEPT !.stage = "fallback"]
  /\ UNCHANGED <<state, tools, calls, shut>>

OpenFallback ==
  /\ opening.stage = "fallback"
  /\ Attach("fallback open", Closed(opening.of))
  /\ UNCHANGED <<state, tools, calls, shut>>

\* A mutant of Knows: a tool is asked for whether or not it is listed.
KnowsAny(c) == TRUE
\* McpRuntime.call and then call: the tool is looked up in the lists of tools
\* before the connection is asked, so that without a list it is unknown.
Knows(c) == tools
Started == opening = Over \/ Waiting # {}   \* the first connection was waited for
StartCall(c) ==
  /\ calls[c].stage = "out" /\ Started
  /\ \/ /\ ~Knows(c)
        /\ calls' = [calls EXCEPT ![c] = CallAt("done", None, FALSE)]
        /\ UNCHANGED <<client, channel, opening>>
     \/ /\ Knows(c) /\ state = "ready"
        /\ calls' = [calls EXCEPT ![c] = IF client = None THEN CallAt("done", None, FALSE)
                                         ELSE CallAt("call", client, FALSE)]
        /\ UNCHANGED <<client, channel, opening>>
     \/ Knows(c) /\ state # "ready" /\ Connect(c, FALSE, channel)
  /\ UNCHANGED <<state, tools, shut>>

\* The tool answers; or the call is aborted, times out or fails for a reason that
\* is not the connection; or it was the second attempt.
CallEnds(c) ==
  /\ calls[c].stage = "call"
  /\ calls' = [calls EXCEPT ![c] = CallAt("done", None, FALSE)]
  /\ UNCHANGED <<state, client, channel, tools, opening, shut>>

\* The first attempt of a call fails for the connection: it resets the connection
\* as it is now, and connects again once the client it closed has ended.
CallFails(c) ==
  /\ calls[c].stage = "call" /\ ~calls[c].again
  /\ state' = "error" /\ tools' = FALSE
  /\ IF client # None
     THEN /\ client' = None /\ channel' = Closing
          /\ calls' = [calls EXCEPT ![c] = CallAt("reset", client, FALSE)]
          /\ UNCHANGED opening
     ELSE Connect(c, TRUE, channel)
  /\ UNCHANGED shut

CallFailureClosed(c) ==
  /\ calls[c].stage = "reset"
  /\ state' = "error"
  /\ Connect(c, TRUE, Closed(calls[c].on))
  /\ UNCHANGED <<tools, shut>>

\* The server goes away, or tells that its tools changed.
Down(k) ==
  /\ channel[k] = "up"
  /\ channel' = [channel EXCEPT ![k] = "down"]
  /\ UNCHANGED <<state, client, tools, opening, calls, shut>>

ToolsChanged(k) ==
  /\ channel[k] = "up"
  /\ tools' = TRUE
  /\ UNCHANGED <<state, client, channel, opening, calls, shut>>

\* close, when the server shuts down.
CloseRuntime ==
  /\ Started /\ ~shut /\ shut' = TRUE
  /\ client' = None /\ channel' = Closing /\ tools' = FALSE
  /\ state' = IF state = "error" THEN state ELSE "closed"
  /\ UNCHANGED <<opening, calls>>

Attempt == Opened \/ Listed \/ OpenFails \/ OpenFailureClosed \/ FallBack \/ OpenFallback
McpNext ==
  \/ Attempt
  \/ \E c \in ToolCalls : StartCall(c) \/ CallEnds(c) \/ CallFails(c) \/ CallFailureClosed(c)
  \/ \E k \in Clients : Down(k) \/ ToolsChanged(k)
  \/ CloseRuntime

McpSpec == McpInit /\ [][McpNext]_mcpVars

\* Requests to the server have time limits, and closing a client ends.
CallSteps(c) == CallEnds(c) \/ CallFails(c) \/ CallFailureClosed(c)
McpFair == WF_mcpVars(Attempt) /\ \A c \in ToolCalls : WF_mcpVars(CallSteps(c))

-----------------------------------------------------------------------------
McpIdle == opening = Over /\ \A c \in ToolCalls : calls[c].stage \in {"out", "done"}
Forgotten == {k \in Clients : channel[k] \in {"opening", "up", "down"} /\ k # client}

\* When no handler is under way the parts of the connection agree, in whatever
\* order handlers reset and reopened it: a server that is ready has a client that
\* was not closed, and one that is not has neither a client nor, unless a client
\* was forgotten that may still announce some, tools to offer.  (When the server
\* shuts down, a call may still open the connection again after it was closed.)
QuietConnectionAgrees ==
  McpIdle /\ ~shut => IF state = "ready" THEN client # None /\ channel[client] \in {"up", "down"}
                    ELSE client = None /\ (tools => Forgotten # {})

\* "A failed server stays in `error`": with no handler under way and no forgotten
\* client, no later call opens a server in error again, for none of its tools is
\* known any more, whichever resets and answers came last.
FailedServersStay ==
  [][McpIdle /\ state = "error" /\ Forgotten = {} => state' = "error" /\ opening' = Over]_mcpVars

\* Every tool call ends: none waits for an attempt to connect that is over, or for
\* one that another call has reset.
CallsEnd == \A c \in ToolCalls : []<>(calls[c].stage \in {"out", "done"})

\* Calls are answered, and what has failed does not come back by itself.
CallsAreAnswered == CallsEnd /\ FailedServersStay
=============================================================================
