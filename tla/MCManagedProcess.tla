-------------------------- MODULE MCManagedProcess --------------------------
(***************************************************************************)
(* Small instances of ManagedProcess for TLC.                              *)
(***************************************************************************)
EXTENDS ManagedProcess

CONSTANTS p1, p2, p3, c1, c2

OneProcess     == {p1}
ThreeProcesses == {p1, p2, p3}
TwoCallers     == {c1, c2}
\* p1 and p2 belong to one Thread, p3 to another.
Owners         == [p \in {p1, p2, p3} |-> IF p = p3 THEN "h2" ELSE "h1"]
\* p1 and p2 may be swapped, and so may the callers.
Swaps == Permutations({p1, p2}) \cup Permutations({c1, c2})
=============================================================================
