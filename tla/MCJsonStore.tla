----------------------------- MODULE MCJsonStore -----------------------------
(***************************************************************************)
(* Instances of JsonStore for TLC: one Thread with its Workspace and the   *)
(* workflow state a user gave it.  A Thread without a Workspace is a state *)
(* that the mutation alone lets through and validate_store_state rejects;  *)
(* migration from an old version resets the workflow state.                *)
(***************************************************************************)
EXTENDS JsonStore

CONSTANTS w1, w2

TwoWriters == {w1, w2}

AllStates == SUBSET {"thread", "workspace", "handled"}

ValidStates ==
  {s \in AllStates : /\ "thread" \in s <=> "workspace" \in s
                     /\ "handled" \in s => "thread" \in s}

NoRecords == {}

ErrorResult == {"error"}

Mutations == {"insert_thread", "insert_thread_with_workspace",
              "transition_thread_workflow_state", "delete_thread"}

Effect(op, s) ==
  CASE op = "insert_thread" /\ "thread" \notin s -> s \cup {"thread"}
    [] op = "insert_thread_with_workspace" /\ "thread" \notin s ->
         s \cup {"thread", "workspace"}
    [] op = "transition_thread_workflow_state" /\ "thread" \in s
         /\ "handled" \notin s -> s \cup {"handled"}
    [] op = "delete_thread" /\ "thread" \in s -> {}
    [] OTHER -> Refused

Effects == [op \in Mutations |-> [s \in ValidStates |-> Effect(op, s)]]

ResetWorkflow == [s \in ValidStates |-> s \ {"handled"}]
==============================================================================
