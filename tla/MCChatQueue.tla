---------------------------- MODULE MCChatQueue ----------------------------
(***************************************************************************)
(* Small chats for ChatQueue: two profiles, one of them a CLI with live    *)
(* input.                                                                  *)
(***************************************************************************)
EXTENDS ChatQueue

CONSTANTS api, cli, drain, b1, e1, o1

MCProfiles == {api, cli}
MCLive == {cli}
MCBackground == {b1}
MCEdits == {e1}
MCOthers == {o1}
MCNobody == {}
=============================================================================
