----------------------------- MODULE MCOutputLog -----------------------------
(***************************************************************************)
(* A small instance of OutputLog for TLC.                                  *)
(***************************************************************************)
EXTENDS OutputLog

CONSTANTS stdout, stderr, r1

BothStreams == {stdout, stderr}
OneReader   == {r1}
=============================================================================
