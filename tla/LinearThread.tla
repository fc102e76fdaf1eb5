---------------------------- MODULE LinearThread -----------------------------
(***************************************************************************)
(* What a Thread promises its clients: a linear conversation.  One request *)
(* at a time takes the Thread, only the holder's Turn is stored, starts    *)
(* and ends, and the Thread is given back only when that Turn is not       *)
(* active any more.  A crash takes every holder away; the Threads open     *)
(* again only after each Turn the crash interrupted has been failed.       *)
(* TurnRuntime implements this specification.                              *)
(***************************************************************************)
CONSTANTS Threads, Turns, ThreadOf, Nobody

VARIABLES
  holder,   \* the request that has each Thread
  status,   \* the Turn of each request, "None" before it is stored
  open      \* whether Threads can be taken

linearVars == <<holder, status, open>>

Ended  == {"Completed", "Failed", "Cancelled"}
Active == {"Queued", "Running"}

Init ==
  /\ holder = [h \in Threads |-> Nobody]
  /\ status = [t \in Turns |-> "None"]
  /\ open = TRUE

Holder(t) == holder[ThreadOf[t]]

Take(t) ==
  /\ open /\ Holder(t) = Nobody /\ status[t] = "None"
  /\ holder' = [holder EXCEPT ![ThreadOf[t]] = t]
  /\ UNCHANGED <<status, open>>

Becomes(t, from, to) ==
  /\ status[t] \in from
  /\ \E s \in to : status' = [status EXCEPT ![t] = s]
  /\ UNCHANGED <<holder, open>>

Enqueue(t) == open /\ Holder(t) = t /\ Becomes(t, {"None"}, {"Queued"})
Start(t)   == open /\ Holder(t) = t /\ Becomes(t, {"Queued"}, {"Running"})
End(t)     == open /\ Holder(t) = t /\ Becomes(t, {"Running"}, Ended)

GiveBack(t) ==
  /\ open /\ Holder(t) = t /\ status[t] \notin Active
  /\ holder' = [holder EXCEPT ![ThreadOf[t]] = Nobody]
  /\ UNCHANGED <<status, open>>

Interrupt ==
  /\ holder' = [h \in Threads |-> Nobody]
  /\ open' = FALSE
  /\ UNCHANGED status

FailInterrupted(t) ==
  /\ ~ open
  /\ \/ Becomes(t, {"Queued"}, {"Running"})
     \/ Becomes(t, {"Running"}, {"Failed"})

Reopen ==
  /\ ~ open
  /\ \A t \in Turns : status[t] \notin Active
  /\ open' = TRUE
  /\ UNCHANGED <<holder, status>>

Next ==
  \/ \E t \in Turns : Take(t) \/ Enqueue(t) \/ Start(t) \/ End(t)
                      \/ GiveBack(t) \/ FailInterrupted(t)
  \/ Interrupt \/ Reopen

Spec == Init /\ [][Next]_linearVars
==============================================================================
