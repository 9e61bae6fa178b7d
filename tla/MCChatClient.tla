---------------------------- MODULE MCChatClient ----------------------------
(***************************************************************************)
(* Small instances of ChatClient: what the user may type at each click.    *)
(***************************************************************************)
EXTENDS ChatClient

CONSTANTS a, b, c

\* Every room that the user creates has a name of its own.
OwnNames == [n \in 1..MaxClicks |-> IF n = 1 THEN {a} ELSE IF n = 2 THEN {b} ELSE {}]

ASSUME NamesAssumption == DistinctNames
=============================================================================
