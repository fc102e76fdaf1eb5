--------------------------- MODULE MCCodexSession ---------------------------
(***************************************************************************)
(* A small instance of CodexSession for TLC.                               *)
(***************************************************************************)
EXTENDS CodexSession, TLC

CONSTANTS t1, t2, h1

FirstTurn == {t1}
TwoTurns  == {t1, t2}
OneThread == {h1}
=============================================================================
