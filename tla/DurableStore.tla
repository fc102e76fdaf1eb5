---------------------------- MODULE DurableStore -----------------------------
(***************************************************************************)
(* What a persistent StateStore promises: mutations take effect one at a   *)
(* time on the state readers see, and the state a restart comes back with  *)
(* is that one, unless a mutation whose caller was never told of success   *)
(* got as far as the disk.  Such leftovers ("limbo") start from the state  *)
(* readers see, and the next success wipes them out.  The promise about    *)
(* restarts is off ("loose") from the moment a caller gives up a write     *)
(* that can no longer be called back until the process ends.               *)
(* JsonStore implements this specification.                                *)
(***************************************************************************)
CONSTANTS States, Valid, Ops, Apply, Empty

VARIABLES
  state,   \* what readers see; while closed, what they saw last
  limbo,   \* other states a restart may find
  loose,   \* whether a write that was given up may still take effect
  open     \* whether the store serves calls

durableVars == <<state, limbo, loose, open>>

Init ==
  /\ state \in Valid
  /\ limbo = {}
  /\ loose = FALSE
  /\ open = FALSE

Commit(op) ==
  /\ open
  /\ state' = Apply[op][state]
  /\ state' \in Valid
  /\ limbo' \subseteq IF loose THEN limbo \cup {state} ELSE {}
  /\ UNCHANGED <<loose, open>>

Attempt(op) ==
  /\ open
  /\ Apply[op][state] \in Valid
  /\ limbo' = limbo \cup ({Apply[op][state]} \ {state})
  /\ UNCHANGED <<state, loose, open>>

GiveUp ==
  /\ open
  /\ loose' = TRUE
  /\ UNCHANGED <<state, limbo, open>>

Haunt ==
  /\ open /\ loose
  /\ \E s \in Valid : limbo' = limbo \cup ({s} \ {state})
  /\ UNCHANGED <<state, loose, open>>

\* The disk settles on fewer of the states it may hold.
Settle ==
  /\ limbo' \subseteq limbo
  /\ UNCHANGED <<state, loose, open>>

Stop ==
  /\ open' = FALSE
  /\ loose' = FALSE
  /\ limbo' \subseteq limbo
  /\ UNCHANGED state

\* The file is read.  Opening may still fail before the store is open.
Load ==
  /\ ~ open
  /\ state' \in {state} \cup limbo
  /\ limbo' \subseteq ({state} \cup limbo) \ {state'}
  /\ open' \in BOOLEAN
  /\ UNCHANGED loose

Open ==
  /\ open' = TRUE
  /\ limbo' \subseteq limbo
  /\ UNCHANGED <<state, loose>>

Next ==
  \/ \E op \in Ops : Commit(op) \/ Attempt(op)
  \/ GiveUp \/ Haunt \/ Settle \/ Stop \/ Load \/ Open

Spec == Init /\ [][Next]_durableVars
==============================================================================
