------------------------------- MODULE MCImages -------------------------------
(***************************************************************************)
(* A small instance of Images for TLC.                                     *)
(***************************************************************************)
EXTENDS Images, TLC

CONSTANTS d1, d2, u1, g1, h1

TwoDirects == {d1, d2}
OneUpload  == {u1}
OneTool    == {g1}
Alike      == Permutations(TwoDirects)
OneThread  == {h1}
===============================================================================
