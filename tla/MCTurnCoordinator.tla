-------------------------- MODULE MCTurnCoordinator --------------------------
(***************************************************************************)
(* Three turns of one process in two chats, with a slot limit that moves   *)
(* between one and two, and one caller of whenIdle.                        *)
(***************************************************************************)
EXTENDS TurnCoordinator

CONSTANTS c1, c2, t1, t2, t3, w

MCChats == {c1, c2}
MCTurns == {t1, t2, t3}
MCSettings == {1, 2}
MCIdleCallers == {w}
=============================================================================
