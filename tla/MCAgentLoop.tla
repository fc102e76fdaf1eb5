----------------------------- MODULE MCAgentLoop -----------------------------
(***************************************************************************)
(* A small instance of AgentLoop for TLC.                                  *)
(***************************************************************************)
EXTENDS AgentLoop

CONSTANTS c1, c2, c3

Uses(id, tool, project) == [id |-> id, tool |-> tool, project |-> project]
Says(text, calls)       == [text |-> text, calls |-> calls]

\* A final text; a command, a write and a tool that does not exist; two calls
\* behind a text; two calls with the same id.
SomeAnswers ==
  {Says(TRUE, <<>>),
   Says(FALSE, <<Uses(c1, "shell", TRUE), Uses(c2, "write_file", TRUE), Uses(c3, "unknown", FALSE)>>),
   Says(TRUE, <<Uses(c1, "view_image", FALSE), Uses(c2, "start_process", FALSE)>>),
   Says(FALSE, <<Uses(c1, "read_file", TRUE), Uses(c1, "read_file", TRUE)>>)}

AllStyles == {"deltas", "settled", "bare", "silent"}

\* Two Turns over the three adapters, with every permission mode, and a Project
\* that is referenced for writing, for reading, or not at all.
Asks(p, m, a) == [provider |-> p, mode |-> m, access |-> a]
TwoTurns ==
  <<{Asks("responses", "ask", "read_write"), Asks("chat", "read_only", "read_only"),
     Asks("codex", "ask", "none")},
    {Asks("chat", "full_access", "read_only")}>>
===============================================================================
