-------------------------- MODULE MCStoreRelations ---------------------------
(***************************************************************************)
(* An instance of StoreRelations for TLC: two Threads that may select each *)
(* other, two messages, and one record of every other kind.                *)
(***************************************************************************)
EXTENDS StoreRelations, TLC

CONSTANTS h1, h2, k1, k2, p1, m1, m2, t1, a1, q1, root, call

TwoThreads    == {h1, h2}
TwoWorkspaces == {k1, k2}
TwoMessages   == {m1, m2}
OneProject    == {p1}
OneTurn       == {t1}
OneArtifact   == {a1}
OneProcess    == {q1}
OneRoot       == {root}
OneCall       == {call}

Context(P, R) == [projects |-> P, threads |-> R]

\* Nothing, the Project, or one Message of h1.
SmallContexts ==
  {Context({}, {}), Context({p1}, {}),
   Context({}, {[thread |-> h1, messages |-> {m1}]})}

Body(c, S, O) == [context |-> c, shows |-> S, outputs |-> O]

\* A context or an artifact, not both.
SmallBodies ==
  {Body(c, {}, {}) : c \in SmallContexts}
    \cup {Body(Context({}, {}), {a1}, {}), Body(Context({}, {}), {}, {a1})}

Renamings == Permutations(TwoWorkspaces)
==============================================================================
