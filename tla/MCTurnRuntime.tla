---------------------------- MODULE MCTurnRuntime ----------------------------
(***************************************************************************)
(* Instances of TurnRuntime for TLC: a native Turn n1 and a Turn x1 of an  *)
(* external backend that compete for one Thread.                           *)
(***************************************************************************)
EXTENDS TurnRuntime

CONSTANTS h1, n1, x1, a1, a2

OneThread   == {h1}
TwoTurns    == {n1, x1}
BothOnOne   == [t \in TwoTurns |-> h1]
OneExternal == {x1}

OneAdapter  == {a1}
TwoAdapters == {a1, a2}
==============================================================================
