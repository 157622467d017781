---------------------------- MODULE MCAgentTurns ----------------------------
(***************************************************************************)
(* What an agent gets to read and when it speaks: the mail of one agent,   *)
(* as in MCAgentMail, and the rounds of replies of a chat with up to three *)
(* agents.  A behaviour is one of one part, chosen at the start.           *)
(***************************************************************************)
EXTENDS MCAgentMail, GroupRounds

CONSTANTS ada, bob

VARIABLE part

OwnOrGroup == {<<>>, <<ada>>, <<ada, bob>>}
NobodyOrTwo == {<<>>, <<bob, gardener>>}
TextOrTools == {<<>>, <<"look", "send">>}

turnsVars == <<vars, groupVars, part>>

TurnsInit == /\ part \in {"mail", "rounds"} /\ Init /\ GroupInit
             /\ part = "mail" => memberIds = <<>>

MailPart == part = "mail" /\ Next /\ UNCHANGED <<groupVars, part>>
RoundsPart == part = "rounds" /\ GroupNext /\ UNCHANGED <<vars, part>>

\* The bound, not the code, ends the rounds.
AtTheBound == /\ part = "rounds" /\ Len(messages) >= MaxMessages
              /\ UNCHANGED turnsVars

TurnsNext == MailPart \/ RoundsPart \/ AtTheBound
TurnsSpec == TurnsInit /\ [][TurnsNext]_turnsVars

\* Both parts keep to their types.
TurnsTypeOK == TypeOK /\ GroupTypeOK
=============================================================================
