---------------------------- MODULE MCAgentMail ----------------------------
(***************************************************************************)
(* Mail for one agent, whose own turn and one status request interleave    *)
(* with the senders and the inbox turns.                                   *)
(***************************************************************************)
EXTENDS AgentMail

CONSTANTS gardener, turn, patch, inbox

MCMail == {1, 2}
MCAgents == {gardener}
MCTo == [m \in Mail |-> gardener]
MCTurns == {turn}
MCOf == [t \in Turns |-> gardener]
MCPatches == {patch}
MCNone == {}
=============================================================================
