------------------------------ MODULE MCServices -----------------------------
(***************************************************************************)
(* Small instances of the components that share no state with each other:  *)
(* the thread of a browser tab, the cache of the settings, the sign-in to  *)
(* a CLI and its installation, the connection to an MCP server, the chats  *)
(* of agents, the deliveries of a webhook, and dictation.  A behaviour is  *)
(* one of one component, `part`, chosen at the start; the others stay as   *)
(* they are, so that the states of the components add up and do not        *)
(* multiply.                                                               *)
(***************************************************************************)
EXTENDS ThreadSync, SettingsCache, CliLogin, CliInstall, McpConnection, AgentChats,
        Deliveries, Dictation, TLC

CONSTANTS p1, proc1, proc2, wrong, anything, claude, codex, i1, c1, c2, a1, a2, a3

OnePost == {p1}
AnyEdit == {"update", "delete", "rewind", "clear", "compact"}

FourCalls == 1 .. 4
CallsBy == <<proc1, proc1, proc2, proc2>>
TwoKeys == <<"a", "b">>
CallPatches == << <<>>, [a |-> 2], [b |-> wrong], [b |-> 3] >>
KeyDefaults == [a |-> 1, b |-> 2]
StoredRows == [a |-> wrong, b |-> 1]

OneIsPinned == (proc1 :> {0} @@ proc2 :> {0, 2})

NineRequests == 1 .. 9
RequestKinds == <<"open", "open", "group", "members", "append", "delete agent", "delete agent",
                  "delete chat", "group">>
RequestsOf == <<a1, a1, a1, a1, a1, a1, a2, a1, a2>>
RequestsWith == << {}, {}, {a2}, {a2, a3}, {}, {}, {}, {}, {a1} >>

VARIABLE part

Parts == {"thread", "settings", "login", "install", "mcp", "chats", "deliveries", "dictation"}
vars == <<threadVars, settingsVars, loginVars, installVars, mcpVars,
          chatsVars, deliveryVars, dictationVars, part>>

Init ==
  /\ part \in Parts
  /\ AgentChatsInit /\ (part # "chats" => chats = <<>>)
  /\ DictationInit /\ (part # "dictation" => plan = "server" /\ ~blocked)
  /\ InstallInit /\ (part # "install" => \A s \in Servers : pin[s] = NoVersion)
  /\ ThreadInit /\ SettingsInit /\ LoginInit /\ McpInit /\ DeliveriesInit

\* Everything but the component that moves stays as it is.
OnlyThread ==
  part = "thread" /\ UNCHANGED <<settingsVars, loginVars, installVars, mcpVars,
                              chatsVars, deliveryVars, dictationVars, part>>
OnlySettings ==
  part = "settings" /\ UNCHANGED <<threadVars, loginVars, installVars, mcpVars,
                                chatsVars, deliveryVars, dictationVars, part>>
OnlyLogin ==
  part = "login" /\ UNCHANGED <<threadVars, settingsVars, installVars, mcpVars,
                             chatsVars, deliveryVars, dictationVars, part>>
OnlyInstall ==
  part = "install" /\ UNCHANGED <<threadVars, settingsVars, loginVars, mcpVars,
                               chatsVars, deliveryVars, dictationVars, part>>
OnlyMcp ==
  part = "mcp" /\ UNCHANGED <<threadVars, settingsVars, loginVars, installVars,
                           chatsVars, deliveryVars, dictationVars, part>>
OnlyChats ==
  part = "chats" /\ UNCHANGED <<threadVars, settingsVars, loginVars, installVars,
                             mcpVars, deliveryVars, dictationVars, part>>
OnlyDeliveries ==
  part = "deliveries" /\ UNCHANGED <<threadVars, settingsVars, loginVars, installVars,
                                  mcpVars, chatsVars, dictationVars, part>>
OnlyDictation ==
  part = "dictation" /\ UNCHANGED <<threadVars, settingsVars, loginVars, installVars,
                                 mcpVars, chatsVars, deliveryVars, part>>

Next ==
  \/ OnlyThread /\ ThreadNext
  \/ OnlySettings /\ SettingsNext
  \/ OnlyLogin /\ LoginNext
  \/ OnlyInstall /\ InstallNext
  \/ OnlyMcp /\ McpNext
  \/ OnlyChats /\ AgentChatsNext
  \/ OnlyDeliveries /\ DeliveriesNext
  \/ OnlyDictation /\ DictationNext

\* The fairness that the modules state, or a weaker one, for the part that moves.
Spec ==
  /\ Init /\ [][Next]_vars
  /\ WF_loginVars(part = "login" /\ \E s \in SignIns : Expire(s))
  /\ WF_mcpVars(part = "mcp" /\ Attempt)
  /\ WF_mcpVars(part = "mcp" /\ \E c \in ToolCalls : CallSteps(c))
  /\ WF_deliveryVars(part = "deliveries" /\ ReapDeliveries)
  /\ WF_deliveryVars(part = "deliveries" /\ PassTime)
  /\ WF_deliveryVars(part = "deliveries" /\ \E h \in Hooks : HeldJobSteps(h))
  /\ WF_dictationVars(part = "dictation" /\ \E d \in Dictations : BrowserSteps(d))

\* Every component keeps to its types.
TypesOK ==
  /\ ThreadTypeOK /\ SettingsTypeOK /\ LoginTypeOK /\ InstallTypeOK
  /\ McpTypeOK /\ AgentChatsTypeOK /\ DeliveriesTypeOK /\ DictationTypeOK

\* Nothing that a user began and may leave goes on for ever: a sign-in, a dictation.
DialogsEnd == SignInsEnd /\ DictationEnds
=============================================================================
