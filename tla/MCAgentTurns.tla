---------------------------- MODULE MCAgentTurns ----------------------------
(***************************************************************************)
(* One thread with two replies, whose calls are plain, gated or a question *)
(* and come alone or together, and a second thread that only talks.        *)
(***************************************************************************)
EXTENDS AgentTurns

CONSTANTS work, chat

Mixed == {<<"ask">>, <<"gated", "plain">>}
Replies == [t \in Threads |-> IF t = work THEN 2 ELSE 0]

\* For the answer to one pause of a reply whose first call is not the held one.
HeldSecond == {<<"plain", "gated">>}
=============================================================================
