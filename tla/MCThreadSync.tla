---------------------------- MODULE MCThreadSync ----------------------------
(***************************************************************************)
(* A tab that is up to date, with its stream open, on a chat that is idle: *)
(* what can happen when the stream then breaks once, while a message or an *)
(* edit is on its way.  It starts where ThreadSpec gets by loading the     *)
(* transcript and opening the stream.                                      *)
(***************************************************************************)
EXTENDS ThreadSync

CONSTANT p1

OnePost == {p1}

UpToDate ==
  /\ rows = <<NoRow>> /\ stored = 1
  /\ waiting = <<>> /\ batch = <<>> /\ turn = "idle" /\ untold = <<>>
  /\ asked = 0 /\ asks = {}
  /\ link = "open" /\ wire = <<>> /\ reads = <<>> /\ replies = <<>>
  /\ post = [p \in Posts |-> "out"]
  /\ view = rows /\ bubbles = <<>> /\ working = FALSE
  /\ lost = 0 /\ missed = FALSE /\ current = 1 /\ loaded = TRUE /\ outOfTurn = FALSE
  /\ faults = 0

Spec == UpToDate /\ [][ThreadNext]_threadVars
=============================================================================
