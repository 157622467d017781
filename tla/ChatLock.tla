------------------------------ MODULE ChatLock ------------------------------
(***************************************************************************)
(* What the per-chat lock of the turn coordinator promises its callers     *)
(* (packages/server/src/runtime/turns.ts): in each chat, turns run one at  *)
(* a time and in the order in which they asked.                            *)
(***************************************************************************)
EXTENDS Naturals, Sequences

CONSTANTS Chats, Turns

VARIABLES calls,    \* calls[c]: the turns that asked for chat c, in order
          state     \* state[t]: where turn t is with its one call

vars == <<calls, state>>

TypeOK == /\ calls \in [Chats -> Seq(Turns)]
          /\ state \in [Turns -> {"out", "waiting", "holding", "released"}]

Init == /\ calls = [c \in Chats |-> <<>>]
        /\ state = [t \in Turns |-> "out"]

\* Everybody who asked for chat c before the i-th caller is through.
AllBefore(c, i) == \A j \in 1 .. (i - 1) : state[calls[c][j]] = "released"

Arrive(t, c) == /\ state[t] = "out"
                /\ calls' = [calls EXCEPT ![c] = Append(@, t)]
                /\ state' = [state EXCEPT ![t] = "waiting"]

Enter(t) == /\ state[t] = "waiting"
            /\ \E c \in Chats : \E i \in DOMAIN calls[c] :
                 calls[c][i] = t /\ AllBefore(c, i)
            /\ state' = [state EXCEPT ![t] = "holding"]
            /\ UNCHANGED calls

Leave(t) == /\ state[t] = "holding"
            /\ state' = [state EXCEPT ![t] = "released"]
            /\ UNCHANGED calls

Next == \E t \in Turns : \/ \E c \in Chats : Arrive(t, c)
                         \/ Enter(t)
                         \/ Leave(t)

\* A turn that may start does, and a turn that runs ends: the lock itself
\* never keeps either from happening.
Fairness == \A t \in Turns : WF_vars(Enter(t)) /\ WF_vars(Leave(t))

Spec == Init /\ [][Next]_vars

FairSpec == Spec /\ Fairness

-----------------------------------------------------------------------------
\* Two turns never run in one chat at the same time (docs/ARCHITECTURE.md on
\* always-on turns; the doc comment of createTurnCoordinator).
MutualExclusion ==
  \A c \in Chats : \A i, j \in DOMAIN calls[c] :
    state[calls[c][i]] = "holding" /\ state[calls[c][j]] = "holding" => i = j

\* A turn never overtakes one that asked for the chat before it: whoever is
\* past waiting has nobody unserved ahead.
FirstComeFirstServed ==
  \A c \in Chats : \A i, j \in DOMAIN calls[c] :
    /\ i < j
    /\ state[calls[c][j]] \in {"holding", "released"}
    => state[calls[c][i]] = "released"
=============================================================================
