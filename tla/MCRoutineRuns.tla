--------------------------- MODULE MCRoutineRuns ---------------------------
(***************************************************************************)
(* Routines of one agent, in one or two server processes.                  *)
(***************************************************************************)
EXTENDS RoutineRuns

CONSTANTS daily, weekly, p1, p2, nobody

MCOne == {daily}
MCTwo == {daily, weekly}
MCProc == {p1}
MCProcs == {p1, p2}
MCLate == {p2}
MCNone == {}
=============================================================================
