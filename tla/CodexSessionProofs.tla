-------------------------- MODULE CodexSessionProofs --------------------------
(***************************************************************************)
(* Theorems about CodexSession: whatever the sidecar, the user, the clock  *)
(* and shutdown do, a request is pending exactly while its future waits,   *)
(* and a Turn that ends leaves no remote Turn running unasked.             *)
(***************************************************************************)
EXTENDS CodexSession, TLAPS

-----------------------------------------------------------------------------
(***************************************************************************)
(* The invariant in parts                                                  *)
(***************************************************************************)
\* What stage a Turn is in says which of its requests were begun, which client
\* it uses and whether its guard is armed.
StageOK(t) ==
  /\ pc[t] \in {"idle", "serve"} => client[t] = 0
  /\ pc[t] \in {"bind", "start", "watch", "ask", "stop"} => client[t] # 0
  /\ client[t] # 0 => conn[client[t]] # "none"
  /\ client[t] = 0 => \A kind \in Kinds : wait[Req(t, kind)] = "none"
  /\ pc[t] = "bind" => wait[Req(t, "turn")] = "none"
  /\ pc[t] \in {"bind", "start", "watch", "ask"} => wait[Req(t, "stop")] = "none"
  /\ pc[t] # "ended" => wait[Req(t, "guard")] = "none"
  /\ wait[Req(t, "turn")] # "none" => pc[t] = "start"
  /\ armed[t] <=> pc[t] \in {"watch", "ask", "stop"}
  /\ known[t] => client[t] # 0 /\ pc[t] \in {"watch", "ask", "stop", "ended"}

StagesOK == \A t \in Turns : StageOK(t)

\* The frame that starts the remote Turn of t, and a reply to it.
TurnFrame(t) == [kind |-> "turn", turn |-> t]
Replies(t)   == [kind : {"ok", "failed"}, turn : {t}, to : {"turn"}]

NotSent(t) == pc[t] \in {"idle", "serve", "bind"} \/ wait[Req(t, "turn")] = "checked"

\* turn/start of a Turn goes out once, to its client, and is answered behind it.
FrameOK(t) ==
  /\ \A k \in Clients : \A i \in DOMAIN toChild[k] : toChild[k][i] = TurnFrame(t) =>
       /\ client[t] = k /\ ~NotSent(t) /\ ~known[t] /\ wait[Req(t, "turn")] # "ok"
       /\ \A j \in DOMAIN toChild[k] : toChild[k][j] = TurnFrame(t) => i = j
       /\ \A l \in Clients : \A j \in DOMAIN fromChild[l] : fromChild[l][j] \notin Replies(t)
  /\ NotSent(t) => \A l \in Clients : \A j \in DOMAIN fromChild[l] : fromChild[l][j] \notin Replies(t)

FramesOK == \A t \in Turns : FrameOK(t)

\* A remote Turn that is known to run on a sidecar that can be written to.
Live(t) ==
  known[t] /\ remote[t] \in Unfinished /\ conn[client[t]] = "open" /\ writer[client[t]]

StoppedTurnsOK == \A t \in Turns : pc[t] \in {"stop", "ended"} /\ Live(t) => InterruptionOnItsWay(t)

Inv ==
  TypeOK /\ StagesOK /\ FramesOK /\ StoppedTurnsOK /\ PendingHasWaiter /\ ClosedFreesWaiters

-----------------------------------------------------------------------------
(***************************************************************************)
(* Lemmas about queues and requests                                        *)
(***************************************************************************)
LEMMA Appended ==
  ASSUME NEW S, NEW q \in Seq(S), NEW f
  PROVE  /\ Len(q) \in Nat /\ DOMAIN q = 1..Len(q)
         /\ DOMAIN Append(q, f) = 1..(Len(q) + 1)
         /\ Append(q, f)[Len(q) + 1] = f
         /\ \A i \in 1..Len(q) : Append(q, f)[i] = q[i]
  OBVIOUS

LEMMA Taken ==
  ASSUME NEW S, NEW q \in Seq(S), q # <<>>
  PROVE  /\ Len(q) \in Nat /\ DOMAIN q = 1..Len(q) /\ 1 \in DOMAIN q /\ Head(q) = q[1]
         /\ Head(q) \in S /\ Tail(q) \in Seq(S)
         /\ DOMAIN Tail(q) = 1..(Len(q) - 1)
         /\ \A i \in 1..(Len(q) - 1) : Tail(q)[i] = q[i + 1]
  OBVIOUS

LEMMA Joined ==
  ASSUME NEW S, NEW q \in Seq(S), NEW r \in Seq(S)
  PROVE  /\ q \o r \in Seq(S)
         /\ \A i \in DOMAIN (q \o r) :
              (\E j \in DOMAIN q : (q \o r)[i] = q[j]) \/ (\E j \in DOMAIN r : (q \o r)[i] = r[j])
<1>1. /\ q \o r \in Seq(S) /\ Len(q) \in Nat /\ Len(r) \in Nat
      /\ DOMAIN (q \o r) = 1..(Len(q) + Len(r)) /\ DOMAIN q = 1..Len(q) /\ DOMAIN r = 1..Len(r)
      /\ \A i \in 1..(Len(q) + Len(r)) :
           (q \o r)[i] = IF i <= Len(q) THEN q[i] ELSE r[i - Len(q)]
  OBVIOUS
<1>2. ASSUME NEW i \in 1..(Len(q) + Len(r))
      PROVE  (\E j \in 1..Len(q) : (q \o r)[i] = q[j]) \/ (\E j \in 1..Len(r) : (q \o r)[i] = r[j])
  <2>1. CASE i <= Len(q)
    BY <1>1, <2>1
  <2>2. CASE ~(i <= Len(q))
    <3>1. i - Len(q) \in 1..Len(r) /\ (q \o r)[i] = r[i - Len(q)]
      BY <1>1, <2>2
    <3> QED
      BY <3>1
  <2> QED
    BY <2>1, <2>2
<1> QED
  BY <1>1, <1>2

LEMMA Requesting ==
  /\ \A t \in Turns, kind \in Kinds : Req(t, kind) \in Requests
  /\ \A r \in Requests : r.turn \in Turns /\ r.kind \in Kinds /\ r = Req(r.turn, r.kind)
  /\ \A t, u, kind, other : Req(t, kind) = Req(u, other) => t = u /\ kind = other
  BY DEF Requests, Req

\* A request that was begun has a client.
LEMMA HasClient ==
  ASSUME TypeOK, StagesOK, NEW r \in Requests, wait[r] # "none"
  PROVE  client[r.turn] \in Clients
<1>1. r.turn \in Turns /\ r.kind \in Kinds /\ wait[Req(r.turn, r.kind)] # "none"
  BY Requesting
<1>2. client[r.turn] # 0
  BY <1>1 DEF StagesOK, StageOK
<1> QED
  BY <1>1, <1>2 DEF TypeOK

-----------------------------------------------------------------------------
(***************************************************************************)
(* Types                                                                   *)
(***************************************************************************)
ServiceTypes ==
  /\ current \in {0} \cup Clients /\ binding \in [Threads -> {0} \cup Clients]
  /\ halting \in [at : {"no", "waiting", "done"}, client : {0} \cup Clients]
  /\ late \subseteq Requests

LinkTypes ==
  /\ conn \in [Clients -> {"none", "open", "closed"}] /\ killing \in [Clients -> BOOLEAN]
  /\ writer \in [Clients -> BOOLEAN] /\ reader \in [Clients -> BOOLEAN]
  /\ pending \in [Clients -> SUBSET Requests] /\ incoming \in [Clients -> SUBSET Turns]

SidecarTypes ==
  /\ child \in [Clients -> {"none", "alive", "dead"}]
  /\ toChild \in [Clients -> Seq(Frames)] /\ fromChild \in [Clients -> Seq(Lines)]
  /\ remote \in [Turns -> Unfinished \cup {"none", "completed", "interrupted"}]

TaskTypes ==
  /\ pc \in [Turns -> {"idle", "serve", "bind", "start", "watch", "ask", "stop", "ended"}]
  /\ home \in [Turns -> Threads] /\ client \in [Turns -> {0} \cup Clients]
  /\ cancelled \in [Turns -> BOOLEAN] /\ armed \in [Turns -> BOOLEAN]
  /\ known \in [Turns -> BOOLEAN] /\ question \in [Turns -> BOOLEAN]
  /\ inbox \in [Turns -> {"none", "completed", "interrupted"}]

WaitTypes ==
  /\ wait \in [Requests -> {"none", "checked", "waiting", "ok", "failed"}]
  /\ \A t \in Turns : wait[Req(t, "guard")] \notin {"ok", "failed"}

LEMMA TypeParts ==
  TypeOK <=> /\ ServiceTypes /\ LinkTypes /\ SidecarTypes /\ TaskTypes /\ WaitTypes
             /\ faults \in 0..MaxFaults
  BY DEF TypeOK, ServiceTypes, LinkTypes, SidecarTypes, TaskTypes, WaitTypes

LEMMA TypePartsNext ==
  ASSUME ServiceTypes', LinkTypes', SidecarTypes', TaskTypes', WaitTypes', faults' \in 0..MaxFaults
  PROVE  TypeOK'
<1> USE DEF ServiceTypes, LinkTypes, SidecarTypes, TaskTypes, WaitTypes
<1>1. /\ current' \in {0} \cup Clients /\ binding' \in [Threads -> {0} \cup Clients]
      /\ halting' \in [at : {"no", "waiting", "done"}, client : {0} \cup Clients]
      /\ late' \subseteq Requests
  OBVIOUS
<1>2. /\ conn' \in [Clients -> {"none", "open", "closed"}] /\ killing' \in [Clients -> BOOLEAN]
      /\ writer' \in [Clients -> BOOLEAN] /\ reader' \in [Clients -> BOOLEAN]
      /\ pending' \in [Clients -> SUBSET Requests] /\ incoming' \in [Clients -> SUBSET Turns]
  OBVIOUS
<1>3. /\ child' \in [Clients -> {"none", "alive", "dead"}]
      /\ toChild' \in [Clients -> Seq(Frames)] /\ fromChild' \in [Clients -> Seq(Lines)]
      /\ remote' \in [Turns -> Unfinished \cup {"none", "completed", "interrupted"}]
  OBVIOUS
<1>4. /\ pc' \in [Turns -> {"idle", "serve", "bind", "start", "watch", "ask", "stop", "ended"}]
      /\ home' \in [Turns -> Threads] /\ client' \in [Turns -> {0} \cup Clients]
      /\ cancelled' \in [Turns -> BOOLEAN] /\ armed' \in [Turns -> BOOLEAN]
      /\ known' \in [Turns -> BOOLEAN] /\ question' \in [Turns -> BOOLEAN]
      /\ inbox' \in [Turns -> {"none", "completed", "interrupted"}]
  OBVIOUS
<1>5. /\ wait' \in [Requests -> {"none", "checked", "waiting", "ok", "failed"}]
      /\ \A t \in Turns : wait'[Req(t, "guard")] \notin {"ok", "failed"}
  OBVIOUS
<1> HIDE DEF ServiceTypes, LinkTypes, SidecarTypes, TaskTypes, WaitTypes
<1> QED
  BY <1>1, <1>2, <1>3, <1>4, <1>5 DEF TypeOK

LEMMA TypesSame ==
  /\ ServiceTypes /\ UNCHANGED service => ServiceTypes'
  /\ LinkTypes /\ UNCHANGED link => LinkTypes'
  /\ SidecarTypes /\ UNCHANGED sidecar => SidecarTypes'
  /\ TaskTypes /\ UNCHANGED task => TaskTypes'
  /\ WaitTypes /\ UNCHANGED wait => WaitTypes'
<1>1. ServiceTypes /\ UNCHANGED service => ServiceTypes'
  BY DEF ServiceTypes, service
<1>2. LinkTypes /\ UNCHANGED link => LinkTypes'
  BY DEF LinkTypes, link
<1>3. SidecarTypes /\ UNCHANGED sidecar => SidecarTypes'
  BY DEF SidecarTypes, sidecar
<1>4. TaskTypes /\ UNCHANGED task => TaskTypes'
  BY DEF TaskTypes, task
<1>5. WaitTypes /\ UNCHANGED wait => WaitTypes'
  BY DEF WaitTypes
<1> QED
  BY <1>1, <1>2, <1>3, <1>4, <1>5

\* A step of a request's future: its own entry, and not to a result of a guard.
LEMMA WaitTyped ==
  ASSUME WaitTypes, NEW r \in Requests,
         NEW w \in {"none", "checked", "waiting", "ok", "failed"},
         wait' = [wait EXCEPT ![r] = w],
         r.kind # "guard" \/ w \notin {"ok", "failed"}
  PROVE  WaitTypes'
<1>1. wait' \in [Requests -> {"none", "checked", "waiting", "ok", "failed"}]
  BY DEF WaitTypes
<1>2. ASSUME NEW t \in Turns
      PROVE  wait'[Req(t, "guard")] \notin {"ok", "failed"}
  <2>1. Req(t, "guard") \in Requests
    BY DEF Req, Requests, Kinds
  <2>2. CASE r = Req(t, "guard")
    BY <2>1, <2>2 DEF WaitTypes, Req
  <2>3. CASE r # Req(t, "guard")
    BY <2>1, <2>3 DEF WaitTypes
  <2> QED
    BY <2>2, <2>3
<1> QED
  BY <1>1, <1>2 DEF WaitTypes

\* execute ends.
LEMMA EndTyped ==
  ASSUME TaskTypes, LinkTypes, WaitTypes, NEW t \in Turns, NEW guarding, EndWith(t, guarding),
         UNCHANGED <<home, client>>, known' \in [Turns -> BOOLEAN],
         UNCHANGED <<conn, killing, writer, reader>>, incoming' \in [Clients -> SUBSET Turns]
  PROVE  TaskTypes' /\ LinkTypes' /\ WaitTypes'
<1>1. TaskTypes'
  BY DEF TaskTypes, EndWith, Becomes
<1>2. pending' \in [Clients -> SUBSET Requests]
  BY DEF EndWith, LinkTypes
<1>3. LinkTypes'
  BY <1>2 DEF LinkTypes
<1>4. \A r \in Requests : wait'[r] \in {"none", "checked", wait[r]}
  BY DEF EndWith
<1>5. wait' \in [Requests -> {"none", "checked", "waiting", "ok", "failed"}]
  BY <1>4 DEF EndWith, WaitTypes
<1>6. \A u \in Turns : Req(u, "guard") \in Requests
  BY DEF Req, Requests, Kinds
<1>7. WaitTypes'
  BY <1>4, <1>5, <1>6 DEF WaitTypes
<1> QED
  BY <1>1, <1>3, <1>7

\* The transport is marked closed.
LEMMA CloseTyped ==
  ASSUME LinkTypes, WaitTypes, NEW k \in Clients,
         MarkClosed(k) \/ UNCHANGED <<conn, wait, pending, incoming>>
  PROVE  /\ conn' \in [Clients -> {"none", "open", "closed"}]
         /\ pending' \in [Clients -> SUBSET Requests] /\ incoming' \in [Clients -> SUBSET Turns]
         /\ WaitTypes'
<1>1. CASE MarkClosed(k)
  <2>1. /\ conn' \in [Clients -> {"none", "open", "closed"}]
        /\ pending' \in [Clients -> SUBSET Requests] /\ incoming' \in [Clients -> SUBSET Turns]
    BY <1>1 DEF MarkClosed, TellWaiters, LinkTypes
  <2>2. \A r \in Requests :
          wait'[r] = wait[r] \/ wait'[r] = IF r.kind = "guard" THEN "none" ELSE "failed"
    BY <1>1 DEF MarkClosed, TellWaiters, Settled
  <2>3. wait' \in [Requests -> {"none", "checked", "waiting", "ok", "failed"}]
    BY <1>1, <2>2 DEF MarkClosed, TellWaiters, WaitTypes
  <2>4. \A u \in Turns : Req(u, "guard") \in Requests /\ Req(u, "guard").kind = "guard"
    BY DEF Req, Requests, Kinds
  <2>5. WaitTypes'
    BY <2>2, <2>3, <2>4 DEF WaitTypes
  <2> QED
    BY <2>1, <2>5
<1>2. CASE UNCHANGED <<conn, wait, pending, incoming>>
  BY <1>2 DEF LinkTypes, WaitTypes
<1> QED
  BY <1>1, <1>2

\* The child writes lines, gets a frame, dies.
LEMMA SaysTyped ==
  ASSUME SidecarTypes, NEW k \in Clients, NEW lines \in Seq(Lines), Says(k, lines)
  PROVE  fromChild' \in [Clients -> Seq(Lines)]
<1>1. fromChild[k] \in Seq(Lines)
  BY DEF SidecarTypes
<1>2. fromChild[k] \o lines \in Seq(Lines) /\ <<>> \in Seq(Lines)
  BY <1>1, Joined
<1> QED
  BY <1>2 DEF SidecarTypes, Says

LEMMA QueueTyped ==
  ASSUME SidecarTypes, NEW k \in Clients, NEW f \in Frames,
         toChild' = [toChild EXCEPT ![k] = Append(@, f)]
  PROVE  toChild' \in [Clients -> Seq(Frames)]
<1>1. Append(toChild[k], f) \in Seq(Frames)
  BY DEF SidecarTypes
<1> QED
  BY <1>1 DEF SidecarTypes

LEMMA DiesTyped ==
  ASSUME SidecarTypes, NEW k \in Clients, Dies(k)
  PROVE  /\ child' \in [Clients -> {"none", "alive", "dead"}]
         /\ toChild' \in [Clients -> Seq(Frames)]
         /\ remote' \in [Turns -> Unfinished \cup {"none", "completed", "interrupted"}]
<1>1. <<>> \in Seq(Frames)
  OBVIOUS
<1> QED
  BY <1>1 DEF Dies, SidecarTypes

\* The runtime's side of a Turn.
LEMMA TaskTypesStep ==
  ASSUME TypeOK, StagesOK, NEW t \in Turns,
         ExecuteTurn(t) \/ TaskStep(t) \/ ExecuteFails(t) \/ Decide(t) \/ Cancel(t)
  PROVE  TypeOK'
<1>a. /\ ServiceTypes /\ LinkTypes /\ SidecarTypes /\ TaskTypes /\ WaitTypes /\ faults \in 0..MaxFaults
  BY TypeParts
<1>b. \A kind \in Kinds : Req(t, kind) \in Requests /\ Req(t, kind).kind = kind
  BY Requesting DEF Req
<1>1. CASE ExecuteTurn(t) \/ Ask(t) \/ Cancel(t)
  <2>1. UNCHANGED <<service, link, sidecar, wait, faults>>
    BY <1>1 DEF ExecuteTurn, Ask, Cancel
  <2>2. TaskTypes'
    BY <1>a, <1>1 DEF ExecuteTurn, Ask, Cancel, Becomes, TaskTypes, task
  <2> QED
    BY <1>a, <2>1, <2>2, TypesSame, TypePartsNext
<1>2. CASE UseClient(t) \/ Bound(t) \/ Started(t) \/ Interrupt(t)
  <2>1. UNCHANGED <<current, halting, link, sidecar, faults>>
    BY <1>2 DEF UseClient, Bound, Started, Interrupt, service
  <2>2. ServiceTypes'
    BY <1>a, <1>2, <2>1 DEF UseClient, Bound, Started, Interrupt, ServiceTypes, TaskTypes, service
  <2>3. TaskTypes'
    <3>1. CASE UseClient(t)
      BY <1>a, <3>1 DEF UseClient, Becomes, TaskTypes, ServiceTypes
    <3>2. CASE Bound(t)
      BY <1>a, <3>2 DEF Bound, Becomes, TaskTypes
    <3>3. CASE Started(t)
      BY <1>a, <3>3 DEF Started, Becomes, TaskTypes
    <3>4. CASE Interrupt(t)
      BY <1>a, <3>4 DEF Interrupt, StayArmed, Becomes, TaskTypes
    <3> QED
      BY <1>2, <3>1, <3>2, <3>3, <3>4
  <2>4. WaitTypes'
    <3>1. \A k : Checked(k) \in {"checked", "failed"}
      BY DEF Checked
    <3>2. CASE UseClient(t)
      <4>1. PICK kind \in {"bind", "resume"} : wait' = [wait EXCEPT ![Req(t, kind)] = Checked(current)]
        BY <3>2 DEF UseClient, Begin
      <4> QED
        BY <1>a, <1>b, <3>1, <4>1, WaitTyped DEF Kinds
    <3>3. CASE Interrupt(t)
      <4>1. wait' = [wait EXCEPT ![Req(t, "stop")] = Checked(client[t])]
        BY <3>3 DEF Interrupt, Begin
      <4> QED
        BY <1>a, <1>b, <3>1, <4>1, WaitTyped DEF Kinds
    <3>4. CASE Started(t)
      <4>1. wait' = [wait EXCEPT ![Req(t, "turn")] = "none"]
        BY <3>4 DEF Started
      <4> QED
        BY <1>a, <1>b, <4>1, WaitTyped DEF Kinds
    <3>5. CASE Bound(t)
      <4>1. PICK kind \in {"bind", "resume"} :
              wait' = [wait EXCEPT ![Req(t, kind)] = "none", ![Req(t, "turn")] = Checked(client[t])]
        BY <3>5 DEF Bound
      <4>2. \A r \in Requests : wait'[r] \in {"none", Checked(client[t]), wait[r]}
        BY <1>a, <4>1 DEF WaitTypes
      <4>3. \A u \in Turns :
              Req(u, "guard") \in Requests /\ wait'[Req(u, "guard")] \in {"none", wait[Req(u, "guard")]}
        BY <1>a, <1>b, <4>1, Requesting DEF WaitTypes, Kinds
      <4>4. wait' \in [Requests -> {"none", "checked", "waiting", "ok", "failed"}]
        BY <1>a, <3>1, <4>1, <4>2 DEF WaitTypes
      <4> QED
        BY <1>a, <4>3, <4>4 DEF WaitTypes
    <3> QED
      BY <1>2, <3>2, <3>3, <3>4, <3>5
  <2> QED
    BY <1>a, <2>1, <2>2, <2>3, <2>4, TypesSame, TypePartsNext
<1>3. CASE SpawnClient(t)
  <2>1. UNCHANGED <<halting, late, killing, pending, incoming, toChild, fromChild, remote, task, wait, faults>>
    BY <1>3 DEF SpawnClient
  <2>2. /\ current' \in {0} \cup Clients /\ binding' \in [Threads -> {0} \cup Clients]
        /\ conn' \in [Clients -> {"none", "open", "closed"}]
        /\ child' \in [Clients -> {"none", "alive", "dead"}]
        /\ writer' \in [Clients -> BOOLEAN] /\ reader' \in [Clients -> BOOLEAN]
    BY <1>a, <1>3 DEF SpawnClient, DropBindings, LinkTypes, SidecarTypes
  <2>3. ServiceTypes'
    BY <1>a, <2>1, <2>2 DEF ServiceTypes
  <2>4. LinkTypes'
    BY <1>a, <2>1, <2>2 DEF LinkTypes
  <2>5. SidecarTypes'
    BY <1>a, <2>1, <2>2 DEF SidecarTypes
  <2> QED
    BY <1>a, <2>1, <2>3, <2>4, <2>5, TypesSame, TypePartsNext
<1>4. CASE \/ SpawnFails(t) \/ RequestFails(t) \/ ExecuteFails(t) \/ DropFuture(t)
           \/ Notice(t) \/ Interrupted(t)
  <2>1. /\ UNCHANGED <<service, conn, killing, writer, reader, incoming, sidecar, home, client>>
        /\ \E guarding : EndWith(t, guarding)
    BY <1>4 DEF SpawnFails, RequestFails, ExecuteFails, DropFuture, Notice, Interrupted, Ends, End
  <2>2. known' \in [Turns -> BOOLEAN] /\ faults' \in 0..MaxFaults
    <3>1. known' = known \/ known' = [known EXCEPT ![t] = FALSE]
      BY <1>4 DEF SpawnFails, RequestFails, ExecuteFails, DropFuture, Notice, Interrupted, Ends
    <3>2. faults' = faults \/ Fault
      BY <1>4 DEF SpawnFails, RequestFails, ExecuteFails, DropFuture, Notice, Interrupted
    <3>3. faults' \in 0..MaxFaults
      BY <1>a, <3>2, BoundsAssumption DEF Fault
    <3> QED
      BY <1>a, <3>1, <3>3 DEF TaskTypes
  <2>3. incoming' \in [Clients -> SUBSET Turns]
    BY <1>a, <2>1 DEF LinkTypes
  <2>4. TaskTypes' /\ LinkTypes' /\ WaitTypes'
    BY <1>a, <2>1, <2>2, <2>3, EndTyped
  <2> QED
    BY <1>a, <2>1, <2>2, <2>4, TypesSame, TypePartsNext
<1>5. CASE Decide(t) \/ AskCancelled(t)
  <2>1. /\ UNCHANGED <<service, conn, killing, writer, reader, child, fromChild, remote,
                       home, client, known, faults>>
        /\ pc[t] = "ask"
    BY <1>5 DEF Decide, AskCancelled
  <2>2. client[t] \in Clients
    BY SMTT(60), <1>a, <2>1 DEF StagesOK, StageOK, TaskTypes
  <2>3. incoming' \in [Clients -> SUBSET Turns]
    BY <1>a, <1>5, <2>2 DEF Decide, AskCancelled, Answer, LinkTypes
  <2>4. toChild' \in [Clients -> Seq(Frames)]
    <3>1. [kind |-> "answer", turn |-> t] \in Frames /\ [kind |-> "reject", turn |-> t] \in Frames
      BY DEF Frames
    <3>2. \/ UNCHANGED toChild
          \/ \E f \in Frames : toChild' = [toChild EXCEPT ![client[t]] = Append(@, f)]
      BY <1>5, <3>1 DEF Decide, AskCancelled, Answer
    <3> QED
      BY <1>a, <2>2, <3>2, QueueTyped DEF SidecarTypes
  <2>5. TaskTypes' /\ LinkTypes' /\ WaitTypes'
    <3>1. CASE \E guarding : EndWith(t, guarding)
      <4>1. known' \in [Turns -> BOOLEAN]
        BY <1>a, <2>1 DEF TaskTypes
      <4> QED
        BY <1>a, <2>1, <2>3, <3>1, <4>1, EndTyped
    <3>2. CASE Becomes(t, "watch") /\ UNCHANGED <<pending, wait, cancelled, armed, inbox, question>>
      BY <1>a, <2>1, <2>3, <3>2 DEF Becomes, TaskTypes, LinkTypes, WaitTypes
    <3> QED
      BY <1>5, <3>1, <3>2 DEF Decide, AskCancelled, End
  <2>6. SidecarTypes'
    BY <1>a, <2>1, <2>4 DEF SidecarTypes
  <2> QED
    BY <1>a, <2>1, <2>5, <2>6, TypesSame, TypePartsNext
<1> QED
  BY <1>1, <1>2, <1>3, <1>4, <1>5 DEF TaskStep

\* A request.
LEMMA RequestTypesStep ==
  ASSUME TypeOK, StagesOK, NEW r \in Requests, RequestStep(r)
  PROVE  TypeOK'
<1>a. /\ ServiceTypes /\ LinkTypes /\ SidecarTypes /\ TaskTypes /\ WaitTypes /\ faults \in 0..MaxFaults
  BY TypeParts
<1>b. r.turn \in Turns /\ r.kind \in Kinds /\ client[r.turn] \in Clients
  BY Requesting, HasClient DEF RequestStep, Submit, Expire
<1>1. CASE Submit(r)
  <2>1. /\ UNCHANGED <<current, binding, halting, conn, killing, writer, reader, incoming, child,
                       fromChild, remote, task, faults>>
        /\ pending' \in [Clients -> SUBSET Requests]
        /\ late' \subseteq Requests
    BY <1>a, <1>1 DEF Submit, LinkTypes, ServiceTypes
  <2>2. toChild' \in [Clients -> Seq(Frames)]
    <3>1. [kind |-> r.kind, turn |-> r.turn] \in Frames
      BY <1>b DEF Frames
    <3>2. \/ UNCHANGED toChild
          \/ \E f \in Frames : toChild' = [toChild EXCEPT ![client[r.turn]] = Append(@, f)]
      BY <1>1, <3>1 DEF Submit
    <3> QED
      BY <1>a, <1>b, <3>2, QueueTyped DEF SidecarTypes
  <2>3. WaitTypes'
    <3>1. \E w \in {"waiting", Settled(r, "failed")} : wait' = [wait EXCEPT ![r] = w]
      BY <1>1 DEF Submit
    <3> QED
      BY <1>a, <3>1, WaitTyped DEF Settled
  <2>4. LinkTypes'
    BY <1>a, <2>1 DEF LinkTypes
  <2>5. SidecarTypes'
    BY <1>a, <2>1, <2>2 DEF SidecarTypes
  <2>6. ServiceTypes'
    BY <1>a, <2>1 DEF ServiceTypes
  <2> QED
    BY <1>a, <2>1, <2>3, <2>4, <2>5, <2>6, TypesSame, TypePartsNext
<1>2. CASE Expire(r)
  <2>1. UNCHANGED <<service, conn, killing, writer, reader, incoming, sidecar, task, faults>>
    BY <1>2 DEF Expire
  <2>2. LinkTypes'
    BY <1>a, <1>2, <2>1 DEF Expire, LinkTypes
  <2>3. WaitTypes'
    BY <1>a, <1>2, WaitTyped DEF Expire, Settled
  <2> QED
    BY <1>a, <2>1, <2>2, <2>3, TypesSame, TypePartsNext
<1> QED
  BY <1>1, <1>2 DEF RequestStep

\* The sidecar.
LEMMA ChildTypesStep ==
  ASSUME TypeOK,
         \/ \E t \in Turns : ChildAsks(t) \/ ChildCompletes(t)
         \/ \E k \in Clients : ChildReads(k) \/ ChildExits(k) \/ ChildFails(k) \/ KillChild(k)
  PROVE  TypeOK'
<1>a. /\ ServiceTypes /\ LinkTypes /\ SidecarTypes /\ TaskTypes /\ WaitTypes /\ faults \in 0..MaxFaults
  BY SMTT(60), TypeParts
<1>b. UNCHANGED <<service, link, task, wait>>
  BY DEF ChildAsks, ChildCompletes, ChildReads, ChildExits, ChildFails, KillChild
<1> SUFFICES SidecarTypes' /\ faults' \in 0..MaxFaults
  BY <1>a, <1>b, TypesSame, TypePartsNext
<1>1. ASSUME NEW t \in Turns, ChildAsks(t) \/ ChildCompletes(t)
      PROVE  SidecarTypes' /\ faults' \in 0..MaxFaults
  <2>1. UNCHANGED <<child, toChild, faults>> /\ client[t] \in Clients
    BY <1>a, <1>1 DEF ChildAsks, ChildCompletes, RemoteAlive, TaskTypes
  <2>2. remote' \in [Turns -> Unfinished \cup {"none", "completed", "interrupted"}]
    BY <1>a, <1>1 DEF ChildAsks, ChildCompletes, SidecarTypes, Unfinished
  <2>3. <<Event(t, "request")>> \in Seq(Lines) /\ <<Event(t, "completed")>> \in Seq(Lines)
    BY DEF Event, Lines
  <2>4. fromChild' \in [Clients -> Seq(Lines)]
    BY <1>a, <1>1, <2>1, <2>3, SaysTyped DEF ChildAsks, ChildCompletes
  <2> QED
    BY <1>a, <2>1, <2>2, <2>4 DEF SidecarTypes
<1>2. ASSUME NEW k \in Clients, ChildReads(k)
      PROVE  SidecarTypes' /\ faults' \in 0..MaxFaults
  <2> DEFINE f == Head(toChild[k])
  <2>1. toChild[k] \in Seq(Frames) /\ toChild[k] # <<>>
    BY <1>a, <1>2 DEF ChildReads, SidecarTypes
  <2>2. f \in Frames /\ Tail(toChild[k]) \in Seq(Frames)
    BY SMTT(60), <2>1, Taken
  <2>3. /\ UNCHANGED <<child, faults>> /\ toChild' = [toChild EXCEPT ![k] = Tail(@)]
        /\ \/ UNCHANGED remote
           \/ \E x \in {"running", "interrupted", "resumed", remote[f.turn]} :
                remote' = [remote EXCEPT ![f.turn] = x]
    BY <1>2 DEF ChildReads
  <2>4. toChild' \in [Clients -> Seq(Frames)]
    BY <1>a, <2>2, <2>3 DEF SidecarTypes
  <2>5. remote' \in [Turns -> Unfinished \cup {"none", "completed", "interrupted"}]
    <3>1. CASE UNCHANGED remote
      BY <1>a, <3>1 DEF SidecarTypes
    <3>2. CASE \E x \in {"running", "interrupted", "resumed", remote[f.turn]} :
                 remote' = [remote EXCEPT ![f.turn] = x]
      BY <1>a, <3>2 DEF SidecarTypes, Unfinished
    <3> QED
      BY <2>3, <3>1, <3>2
  <2>6. fromChild' \in [Clients -> Seq(Lines)]
    <3>1. CASE f.kind \in Kinds
      <4>1. f.turn \in Turns
        BY <2>2, <3>1 DEF Frames, Kinds
      <4>2. \A ok \in BOOLEAN : Reply(f, ok) \in Lines
        BY <3>1, <4>1 DEF Reply, Lines
      <4>3. Event(f.turn, "interrupted") \in Lines
        BY <4>1 DEF Event, Lines
      <4>4. \A ok \in BOOLEAN : /\ <<Reply(f, ok)>> \in Seq(Lines)
                                /\ <<Event(f.turn, "interrupted"), Reply(f, ok)>> \in Seq(Lines)
        BY SMTT(60), <4>2, <4>3
      <4>5. \E lines \in Seq(Lines) : Says(k, lines)
        BY <1>2, <3>1, <4>4 DEF ChildReads, Kinds
      <4> QED
        BY <1>a, <4>5, SaysTyped
    <3>2. CASE f.kind \notin Kinds
      BY <1>a, <1>2, <3>2 DEF ChildReads, Kinds, SidecarTypes
    <3> QED
      BY <3>1, <3>2
  <2> QED
    BY <1>a, <2>3, <2>4, <2>5, <2>6 DEF SidecarTypes
<1>3. ASSUME NEW k \in Clients, ChildExits(k) \/ KillChild(k)
      PROVE  SidecarTypes' /\ faults' \in 0..MaxFaults
  <2>1. Dies(k) /\ UNCHANGED <<fromChild, faults>>
    BY <1>3 DEF ChildExits, KillChild
  <2> QED
    BY <1>a, <2>1, DiesTyped DEF SidecarTypes
<1>4. ASSUME NEW k \in Clients, ChildFails(k)
      PROVE  SidecarTypes' /\ faults' \in 0..MaxFaults
  <2>1. faults' \in 0..MaxFaults
    BY <1>a, <1>4, BoundsAssumption DEF ChildFails, Fault
  <2>2. CASE Dies(k) /\ UNCHANGED fromChild
    BY <1>a, <2>1, <2>2, DiesTyped DEF SidecarTypes
  <2>3. CASE Says(k, <<Event(0, "garbage")>>) /\ UNCHANGED <<child, toChild, remote>>
    <3>1. <<Event(0, "garbage")>> \in Seq(Lines)
      BY DEF Event, Lines
    <3>2. fromChild' \in [Clients -> Seq(Lines)]
      BY <1>a, <2>3, <3>1, SaysTyped
    <3> QED
      BY <1>a, <2>1, <2>3, <3>2 DEF SidecarTypes
  <2> QED
    BY <1>4, <2>2, <2>3 DEF ChildFails
<1> QED
  BY <1>1, <1>2, <1>3, <1>4

\* The tasks of a client.
LEMMA ClientTypesStep ==
  ASSUME TypeOK, NEW k \in Clients, ReadLine(k) \/ ReadEnd(k) \/ WriterEnds(k) \/ ChildReaped(k)
  PROVE  TypeOK'
<1>a. /\ ServiceTypes /\ LinkTypes /\ SidecarTypes /\ TaskTypes /\ WaitTypes /\ faults \in 0..MaxFaults
  BY TypeParts
<1>b. Close(k) => MarkClosed(k) \/ UNCHANGED <<conn, wait, pending, incoming>>
  BY DEF Close
<1>1. CASE ReadLine(k)
  <2> DEFINE m == Head(fromChild[k])
  <2>1. /\ UNCHANGED <<service, killing, writer, child, remote, pc, home, client, cancelled,
                       armed, known, faults>>
        /\ Incoming(k, m)
        /\ fromChild' = [fromChild EXCEPT ![k] = IF reader'[k] THEN Tail(@) ELSE <<>>]
    BY <1>1 DEF ReadLine
  <2>2. m \in Lines /\ Tail(fromChild[k]) \in Seq(Lines) /\ <<>> \in Seq(Lines)
    BY <1>a, <1>1, Taken DEF ReadLine, SidecarTypes
  <2>3. fromChild' \in [Clients -> Seq(Lines)]
    BY <1>a, <2>1, <2>2 DEF SidecarTypes
  <2>4. m.kind # "garbage" => m.turn \in Turns
    BY <2>2 DEF Lines
  <2> HIDE DEF m
  <2> SUFFICES /\ conn' \in [Clients -> {"none", "open", "closed"}] /\ reader' \in [Clients -> BOOLEAN]
               /\ pending' \in [Clients -> SUBSET Requests] /\ incoming' \in [Clients -> SUBSET Turns]
               /\ toChild' \in [Clients -> Seq(Frames)]
               /\ inbox' \in [Turns -> {"none", "completed", "interrupted"}]
               /\ question' \in [Turns -> BOOLEAN] /\ WaitTypes'
    <3>1. ASSUME /\ conn' \in [Clients -> {"none", "open", "closed"}] /\ reader' \in [Clients -> BOOLEAN]
                 /\ pending' \in [Clients -> SUBSET Requests] /\ incoming' \in [Clients -> SUBSET Turns]
                 /\ toChild' \in [Clients -> Seq(Frames)]
                 /\ inbox' \in [Turns -> {"none", "completed", "interrupted"}]
                 /\ question' \in [Turns -> BOOLEAN] /\ WaitTypes'
          PROVE  TypeOK'
      <4>1. LinkTypes'
        BY <1>a, <2>1, <3>1 DEF LinkTypes
      <4>2. SidecarTypes'
        BY <1>a, <2>1, <2>3, <3>1 DEF SidecarTypes
      <4>3. TaskTypes'
        BY <1>a, <2>1, <3>1 DEF TaskTypes
      <4> QED
        BY <1>a, <2>1, <3>1, <4>1, <4>2, <4>3, TypesSame, TypePartsNext
    <3> QED
      BY <3>1
  <2>5. CASE m.kind \in {"ok", "failed"}
    <3>1. UNCHANGED <<conn, reader, incoming, toChild, inbox, question>>
      BY <2>1, <2>5 DEF Incoming
    <3>2. Req(m.turn, m.to) \in Requests
      BY <2>2, <2>5 DEF Lines, Req, Requests
    <3>3. CASE Req(m.turn, m.to) \in pending[k]
      <4>1. /\ wait' = [wait EXCEPT ![Req(m.turn, m.to)] = Settled(Req(m.turn, m.to), m.kind)]
            /\ pending' = [pending EXCEPT ![k] = @ \ {Req(m.turn, m.to)}]
        BY <2>1, <2>5, <3>3 DEF Incoming
      <4>2. WaitTypes'
        BY <1>a, <2>5, <3>2, <4>1, WaitTyped DEF Settled
      <4> QED
        BY <1>a, <3>1, <4>1, <4>2 DEF LinkTypes, SidecarTypes, TaskTypes
    <3>4. CASE Req(m.turn, m.to) \notin pending[k]
      <4>1. UNCHANGED <<wait, pending>>
        BY <2>1, <2>5, <3>4 DEF Incoming
      <4> QED
        BY <1>a, <3>1, <4>1 DEF LinkTypes, SidecarTypes, TaskTypes, WaitTypes
    <3> QED
      BY <3>3, <3>4
  <2>6. CASE m.kind \in {"completed", "interrupted"}
    <3>1. /\ UNCHANGED <<conn, reader, pending, incoming, toChild, question, wait>>
          /\ inbox' \in [Turns -> {"none", "completed", "interrupted"}]
      BY <1>a, <2>1, <2>6 DEF Incoming, TaskTypes
    <3> QED
      BY <1>a, <3>1 DEF LinkTypes, SidecarTypes, TaskTypes, WaitTypes
  <2>7. CASE m.kind = "request"
    <3>1. UNCHANGED <<reader, inbox>>
      BY <2>1, <2>7 DEF Incoming
    <3>2. CASE ~Nobody(k)
      <4>1. /\ UNCHANGED <<conn, toChild, pending, wait>>
            /\ incoming' = [incoming EXCEPT ![k] = @ \cup {m.turn}]
            /\ question' \in [Turns -> BOOLEAN]
        BY <1>a, <2>1, <2>7, <3>2 DEF Incoming, TaskTypes
      <4> QED
        BY <1>a, <2>4, <2>7, <3>1, <4>1 DEF LinkTypes, SidecarTypes, TaskTypes, WaitTypes
    <3>3. CASE Nobody(k) /\ writer[k]
      <4>1. /\ UNCHANGED <<conn, incoming, pending, wait, question>>
            /\ toChild' = [toChild EXCEPT ![k] = Append(@, [kind |-> "reject", turn |-> m.turn])]
        BY <2>1, <2>7, <3>3 DEF Incoming
      <4>2. [kind |-> "reject", turn |-> m.turn] \in Frames
        BY <2>4, <2>7 DEF Frames
      <4> QED
        BY <1>a, <3>1, <4>1, <4>2, QueueTyped DEF LinkTypes, TaskTypes, WaitTypes
    <3>4. CASE Nobody(k) /\ ~writer[k]
      <4>1. Close(k) /\ UNCHANGED <<toChild, question>>
        BY <2>1, <2>7, <3>4 DEF Incoming
      <4> QED
        BY <1>a, <1>b, <3>1, <4>1, CloseTyped DEF LinkTypes, SidecarTypes, TaskTypes
    <3> QED
      BY <3>2, <3>3, <3>4
  <2>8. CASE m.kind = "garbage"
    <3>1. Close(k) /\ UNCHANGED <<toChild, inbox, question>> /\ reader' = [reader EXCEPT ![k] = FALSE]
      BY <2>1, <2>8 DEF Incoming
    <3> QED
      BY SMTT(60), <1>a, <1>b, <3>1, CloseTyped DEF LinkTypes, SidecarTypes, TaskTypes
  <2> QED
    BY <2>1, <2>5, <2>6, <2>7, <2>8 DEF Incoming
<1>2. CASE ReadEnd(k)
  <2>1. /\ UNCHANGED <<service, killing, writer, sidecar, task, faults>>
        /\ reader' = [reader EXCEPT ![k] = FALSE]
        /\ MarkClosed(k) \/ UNCHANGED <<conn, wait, pending, incoming>>
    BY <1>b, <1>2 DEF ReadEnd
  <2>2. LinkTypes' /\ WaitTypes'
    BY <1>a, <2>1, CloseTyped DEF LinkTypes
  <2> QED
    BY <1>a, <2>1, <2>2, TypesSame, TypePartsNext
<1>3. CASE WriterEnds(k)
  <2>1. /\ UNCHANGED <<service, killing, reader, child, fromChild, remote, task, faults>>
        /\ writer' = [writer EXCEPT ![k] = FALSE]
        /\ MarkClosed(k) \/ UNCHANGED <<conn, wait, pending, incoming>>
    BY <1>b, <1>3 DEF WriterEnds
  <2>2. LinkTypes' /\ WaitTypes'
    BY <1>a, <2>1, CloseTyped DEF LinkTypes
  <2>3. toChild' \in [Clients -> Seq(Frames)]
    <3>1. toChild[k] \in Seq(Frames) /\ <<>> \in Seq(Frames)
      BY <1>a DEF SidecarTypes
    <3>2. \A i \in DOMAIN toChild[k] : SubSeq(toChild[k], 1, i) \in Seq(Frames)
      BY <3>1
    <3>3. \E q \in Seq(Frames) : toChild' = [toChild EXCEPT ![k] = q]
      BY <1>3, <3>1, <3>2 DEF WriterEnds
    <3> QED
      BY <1>a, <3>3 DEF SidecarTypes
  <2>4. SidecarTypes'
    BY <1>a, <2>1, <2>3 DEF SidecarTypes
  <2> QED
    BY <1>a, <2>1, <2>2, <2>4, TypesSame, TypePartsNext
<1>4. CASE ChildReaped(k)
  <2>1. UNCHANGED <<service, killing, writer, reader, sidecar, task, faults>> /\ MarkClosed(k)
    BY <1>4 DEF ChildReaped
  <2>2. LinkTypes' /\ WaitTypes'
    BY <1>a, <2>1, CloseTyped DEF LinkTypes
  <2> QED
    BY <1>a, <2>1, <2>2, TypesSame, TypePartsNext
<1> QED
  BY <1>1, <1>2, <1>3, <1>4

\* CodexService::shutdown.
LEMMA ShutdownTypesStep ==
  ASSUME TypeOK, ShutdownBegins \/ ShutdownStep
  PROVE  TypeOK'
<1>a. /\ ServiceTypes /\ LinkTypes /\ SidecarTypes /\ TaskTypes /\ WaitTypes /\ faults \in 0..MaxFaults
  BY TypeParts
<1>1. CASE ShutdownBegins
  <2>1. UNCHANGED <<link, child, fromChild, remote, task, wait>> /\ current \in Clients
    BY <1>a, <1>1 DEF ShutdownBegins, ServiceTypes, link
  <2>2. ServiceTypes' /\ faults' \in 0..MaxFaults
    BY <1>a, <1>1, BoundsAssumption DEF ShutdownBegins, ServiceTypes, Fault
  <2>3. CloseFrame \in Frames
    BY DEF CloseFrame, Frames
  <2>4. toChild' \in [Clients -> Seq(Frames)]
    BY <1>a, <1>1, <2>1, <2>3, QueueTyped DEF ShutdownBegins, SidecarTypes
  <2>5. SidecarTypes'
    BY <1>a, <2>1, <2>4 DEF SidecarTypes
  <2> QED
    BY <1>a, <2>1, <2>2, <2>5, TypesSame, TypePartsNext
<1>2. CASE ShutdownStep
  <2>1. /\ UNCHANGED <<current, late, conn, writer, reader, pending, incoming, sidecar, task, wait, faults>>
        /\ killing' = killing \/ killing' = [killing EXCEPT ![halting.client] = TRUE]
        /\ DropBindings /\ halting' = [halting EXCEPT !.at = "done"]
    BY <1>2 DEF ShutdownStep, ShutdownKills, ShutdownEnds, CancelToken, link
  <2>2. ServiceTypes'
    BY <1>a, <2>1 DEF ServiceTypes, DropBindings
  <2>3. LinkTypes'
    BY <1>a, <2>1 DEF LinkTypes
  <2> QED
    BY <1>a, <2>1, <2>2, <2>3, TypesSame, TypePartsNext
<1> QED
  BY <1>1, <1>2

LEMMA TypesStep == TypeOK /\ StagesOK /\ Next => TypeOK'
  BY TaskTypesStep, RequestTypesStep, ChildTypesStep, ClientTypesStep, ShutdownTypesStep
  DEF Next, ClientStep

-----------------------------------------------------------------------------
(***************************************************************************)
(* What the steps do to the futures of the requests                        *)
(***************************************************************************)
\* The map of pending requests, request by request.
LEMMA PendingByRequest ==
  ASSUME TypeOK
  PROVE  PendingHasWaiter <=>
           \A k \in Clients, r \in Requests :
             r \in pending[k] <=> wait[r] = "waiting" /\ client[r.turn] = k
<1>1. \A k \in Clients : pending[k] \subseteq Requests
  BY DEF TypeOK
<1> QED
  BY <1>1 DEF PendingHasWaiter

\* Nobody begins a request, and what has not been sent is not answered.
Settles ==
  \A r \in Requests :
    \/ wait'[r] = wait[r]
    \/ wait[r] \in {"checked", "waiting"} /\ wait'[r] \in {"none", "waiting", "ok", "failed"}

\* mark_closed tells the waiters of its client.
LEMMA ClosedWaits ==
  ASSUME TypeOK, PendingHasWaiter, NEW k \in Clients, MarkClosed(k)
  PROVE  \A r \in Requests :
           IF r \in pending[k] THEN wait[r] = "waiting" /\ wait'[r] \in {"none", "failed"}
                               ELSE wait'[r] = wait[r]
<1>1. \A r \in Requests : r \in pending[k] => wait[r] = "waiting"
  BY PendingByRequest
<1> QED
  BY <1>1 DEF MarkClosed, TellWaiters, Settled

\* Every step but those of execute.
LEMMA OtherSteps ==
  ASSUME TypeOK, PendingHasWaiter,
         \/ \E t \in Turns : SpawnClient(t) \/ Cancel(t) \/ ChildAsks(t) \/ ChildCompletes(t)
         \/ \E r \in Requests : RequestStep(r)
         \/ \E k \in Clients : ClientStep(k) \/ ChildReads(k) \/ ChildExits(k) \/ ChildFails(k)
         \/ ShutdownBegins \/ ShutdownStep
  PROVE  /\ UNCHANGED <<pc, client, armed, known>> /\ Settles
         /\ \A k \in Clients : conn[k] # "none" => conn'[k] # "none"
<1>a. /\ conn \in [Clients -> {"none", "open", "closed"}]
      /\ wait \in [Requests -> {"none", "checked", "waiting", "ok", "failed"}]
  BY DEF TypeOK
<1>b. ASSUME NEW k \in Clients, MarkClosed(k) \/ Close(k)
      PROVE  Settles /\ \A j \in Clients : conn[j] # "none" => conn'[j] # "none"
  <2>1. CASE MarkClosed(k)
    BY <1>a, <2>1, ClosedWaits DEF Settles, MarkClosed
  <2>2. CASE UNCHANGED <<conn, wait>>
    BY <2>2 DEF Settles
  <2> QED
    BY <1>b, <2>1, <2>2 DEF Close
<1>1. ASSUME NEW t \in Turns, SpawnClient(t) \/ Cancel(t) \/ ChildAsks(t) \/ ChildCompletes(t)
      PROVE  /\ UNCHANGED <<pc, client, armed, known>> /\ Settles
             /\ \A k \in Clients : conn[k] # "none" => conn'[k] # "none"
  <2>1. UNCHANGED <<pc, client, armed, known, wait>>
    BY <1>1 DEF SpawnClient, Cancel, ChildAsks, ChildCompletes, task
  <2>2. conn' = conn \/ \E k \in Clients : conn' = [conn EXCEPT ![k] = "open"]
    BY <1>1 DEF SpawnClient, Cancel, ChildAsks, ChildCompletes, link
  <2> QED
    BY <1>a, <2>1, <2>2 DEF Settles
<1>2. ASSUME NEW r \in Requests, RequestStep(r)
      PROVE  /\ UNCHANGED <<pc, client, armed, known>> /\ Settles
             /\ \A k \in Clients : conn[k] # "none" => conn'[k] # "none"
  <2>1. UNCHANGED <<pc, client, armed, known, conn>>
    BY SMTT(60), <1>2 DEF RequestStep, Submit, Expire, task
  <2>2. /\ wait[r] \in {"checked", "waiting"}
        /\ \E w \in {"none", "failed", "waiting"} : wait' = [wait EXCEPT ![r] = w]
    BY <1>2 DEF RequestStep, Submit, Expire, Settled
  <2> QED
    BY SMTT(60), <1>a, <2>1, <2>2 DEF Settles
<1>3. ASSUME NEW k \in Clients, ReadLine(k)
      PROVE  /\ UNCHANGED <<pc, client, armed, known>> /\ Settles
             /\ \A j \in Clients : conn[j] # "none" => conn'[j] # "none"
  <2> DEFINE m == Head(fromChild[k])
  <2>1. UNCHANGED <<pc, client, armed, known>> /\ Incoming(k, m)
    BY <1>3 DEF ReadLine
  <2>2. m \in Lines
    BY <1>3, Taken DEF ReadLine, TypeOK
  <2>3. \A r \in Requests : r \in pending[k] => wait[r] = "waiting"
    BY PendingByRequest
  <2> HIDE DEF m
  <2>4. CASE m.kind \in {"ok", "failed"}
    <3>1. Req(m.turn, m.to) \in Requests
      BY <2>2, <2>4 DEF Lines, Req, Requests
    <3>2. /\ UNCHANGED conn
          /\ \/ UNCHANGED wait
             \/ /\ Req(m.turn, m.to) \in pending[k]
                /\ wait' = [wait EXCEPT ![Req(m.turn, m.to)] = Settled(Req(m.turn, m.to), m.kind)]
      BY <2>1, <2>4 DEF Incoming
    <3>3. Settled(Req(m.turn, m.to), m.kind) \in {"none", "ok", "failed"}
      BY <2>4 DEF Settled
    <3> QED
      BY <1>a, <2>1, <2>3, <3>1, <3>2, <3>3 DEF Settles
  <2>5. CASE m.kind \notin {"ok", "failed"}
    <3>1. UNCHANGED <<conn, wait>> \/ Close(k)
      BY <2>1, <2>5 DEF Incoming
    <3> QED
      BY <1>b, <2>1, <3>1 DEF Settles
  <2> QED
    BY <2>4, <2>5
<1>4. ASSUME NEW k \in Clients, ReadEnd(k) \/ WriterEnds(k) \/ KillChild(k) \/ ChildReaped(k)
      PROVE  /\ UNCHANGED <<pc, client, armed, known>> /\ Settles
             /\ \A j \in Clients : conn[j] # "none" => conn'[j] # "none"
  <2>1. UNCHANGED <<pc, client, armed, known>>
    BY <1>4 DEF ReadEnd, WriterEnds, KillChild, ChildReaped, task
  <2>2. UNCHANGED <<conn, wait>> \/ Close(k) \/ MarkClosed(k)
    BY SMTT(60), <1>4 DEF ReadEnd, WriterEnds, KillChild, ChildReaped, link
  <2> QED
    BY <1>b, <2>1, <2>2 DEF Settles
<1>5. ASSUME NEW k \in Clients, ChildReads(k) \/ ChildExits(k) \/ ChildFails(k)
      PROVE  UNCHANGED <<pc, client, armed, known, conn, wait>>
  BY <1>5 DEF ChildReads, ChildExits, ChildFails, task, link
<1>6. ASSUME ShutdownBegins \/ ShutdownStep
      PROVE  UNCHANGED <<pc, client, armed, known, conn, wait>>
  BY <1>6 DEF ShutdownBegins, ShutdownStep, ShutdownKills, ShutdownEnds, task, link
<1>7. UNCHANGED <<conn, wait>> => Settles /\ \A k \in Clients : conn[k] # "none" => conn'[k] # "none"
  BY DEF Settles
<1> QED
  BY <1>1, <1>2, <1>3, <1>4, <1>5, <1>6, <1>7 DEF ClientStep

(***************************************************************************)
(* How execute ends: its guard sends an interrupt when it can, unless the  *)
(* Turn has completed or an interrupt was answered.                        *)
(***************************************************************************)
Ending(t, guarding) ==
  /\ EndWith(t, guarding)
  /\ pc[t] \notin {"idle", "ended"}
  /\ \/ guarding <=> GuardFires(t)
     \/ ~guarding /\ known'[t] = FALSE
     \/ ~guarding /\ pc[t] = "stop" /\ wait[Req(t, "stop")] \in {"ok", "failed"}
  /\ known' = known \/ known' = [known EXCEPT ![t] = FALSE]
  /\ UNCHANGED <<conn, writer, fromChild, remote, client>>

EndingStep(t) ==
  \/ SpawnFails(t) \/ RequestFails(t) \/ ExecuteFails(t) \/ Notice(t) \/ DropFuture(t) \/ Interrupted(t)
  \/ AskCancelled(t) \/ (Decide(t) /\ ~(Unanswered(t, client[t]) /\ writer[client[t]]))

LEMMA Endings ==
  ASSUME TypeOK, NEW t \in Turns, EndingStep(t)
  PROVE  /\ \E guarding \in BOOLEAN : Ending(t, guarding)
         /\ \/ UNCHANGED toChild
            \/ \E what \in {"answer", "reject"} :
                 toChild' = [toChild EXCEPT ![client[t]] = Append(@, [kind |-> what, turn |-> t])]
<1>a. known \in [Turns -> BOOLEAN] /\ armed \in [Turns -> BOOLEAN]
  BY DEF TypeOK
<1>b. GuardFires(t) \in BOOLEAN
  BY <1>a DEF GuardFires
<1>1. CASE SpawnFails(t) \/ RequestFails(t) \/ ExecuteFails(t) \/ DropFuture(t)
  <2>1. Ends(t) /\ pc[t] \notin {"idle", "ended"}
    BY <1>1 DEF SpawnFails, RequestFails, ExecuteFails, DropFuture, Running
  <2>2. /\ EndWith(t, GuardFires(t)) /\ known' = known
        /\ UNCHANGED <<conn, writer, fromChild, remote, client, toChild>>
    BY <2>1 DEF Ends, End, sidecar
  <2>3. Ending(t, GuardFires(t))
    BY <1>b, <2>1, <2>2 DEF Ending
  <2> QED
    BY <1>b, <2>2, <2>3
<1>2. CASE AskCancelled(t) \/ (Decide(t) /\ ~(Unanswered(t, client[t]) /\ writer[client[t]]))
  <2>1. /\ EndWith(t, GuardFires(t)) /\ known' = known /\ pc[t] = "ask"
        /\ UNCHANGED <<conn, writer, fromChild, remote, client>>
    BY <1>2 DEF AskCancelled, Decide, End
  <2>2. \/ UNCHANGED toChild
        \/ toChild' = [toChild EXCEPT ![client[t]] = Append(@, [kind |-> "reject", turn |-> t])]
    BY <1>2 DEF AskCancelled, Decide, Answer
  <2>3. Ending(t, GuardFires(t))
    BY <1>b, <2>1 DEF Ending
  <2> QED
    BY <1>b, <2>2, <2>3
<1>3. CASE Notice(t)
  <2>1. pc[t] = "watch" /\ UNCHANGED <<conn, writer, fromChild, remote, client, toChild>>
    BY <1>3 DEF Notice, sidecar
  <2>2. CASE inbox[t] = "completed"
    <3>1. EndWith(t, FALSE) /\ known' = [known EXCEPT ![t] = FALSE]
      BY <1>3, <2>2 DEF Notice
    <3>2. known'[t] = FALSE
      BY <1>a, <3>1
    <3>3. Ending(t, FALSE)
      BY <2>1, <3>1, <3>2 DEF Ending
    <3> QED
      BY <2>1, <3>3
  <2>3. CASE inbox[t] # "completed"
    <3>1. EndWith(t, GuardFires(t)) /\ known' = known
      BY <1>3, <2>3 DEF Notice, End
    <3>2. Ending(t, GuardFires(t))
      BY <1>b, <2>1, <3>1 DEF Ending
    <3> QED
      BY <1>b, <2>1, <3>2
  <2> QED
    BY <2>2, <2>3
<1>4. CASE Interrupted(t)
  <2>1. /\ EndWith(t, FALSE) /\ known' = known /\ pc[t] = "stop"
        /\ wait[Req(t, "stop")] \in {"ok", "failed"}
        /\ UNCHANGED <<conn, writer, fromChild, remote, client, toChild>>
    BY <1>4 DEF Interrupted, Refused, sidecar
  <2>2. Ending(t, FALSE)
    BY <2>1 DEF Ending
  <2> QED
    BY <2>1, <2>2
<1> QED
  BY <1>1, <1>2, <1>3, <1>4 DEF EndingStep

LEMMA EndedWaits ==
  ASSUME TypeOK, NEW t \in Turns, NEW guarding \in BOOLEAN, EndWith(t, guarding)
  PROVE  /\ \A u \in Turns, kind \in Kinds : u # t => wait'[Req(u, kind)] = wait[Req(u, kind)]
         /\ \A kind \in Kinds : kind # "guard" => wait'[Req(t, kind)] = "none"
         /\ wait'[Req(t, "guard")] = IF guarding THEN "checked" ELSE wait[Req(t, "guard")]
<1>1. \A u \in Turns, kind \in Kinds : Req(u, kind) \in Own(t) <=> u = t /\ kind # "guard"
  BY Requesting DEF Own, Kinds
<1>2. \A r \in Requests : wait'[r] = IF r \in Own(t) THEN "none"
                                     ELSE IF guarding /\ r = Req(t, "guard") THEN "checked" ELSE wait[r]
  BY DEF EndWith
<1>3. "guard" \in Kinds
  BY DEF Kinds
<1>4. \A u \in Turns, kind \in Kinds : u # t => wait'[Req(u, kind)] = wait[Req(u, kind)]
  BY <1>1, <1>2, Requesting
<1>5. \A kind \in Kinds : kind # "guard" => wait'[Req(t, kind)] = "none"
  BY <1>1, <1>2, Requesting
<1>6. wait'[Req(t, "guard")] = IF guarding THEN "checked" ELSE wait[Req(t, "guard")]
  BY <1>1, <1>2, <1>3, Requesting
<1> QED
  BY <1>4, <1>5, <1>6

-----------------------------------------------------------------------------
(***************************************************************************)
(* Stages                                                                  *)
(***************************************************************************)
LEMMA StagesStep ==
  ASSUME TypeOK, StagesOK, PendingHasWaiter, Next
  PROVE  StagesOK'
<1>a. /\ pc \in [Turns -> {"idle", "serve", "bind", "start", "watch", "ask", "stop", "ended"}]
      /\ client \in [Turns -> {0} \cup Clients] /\ armed \in [Turns -> BOOLEAN] /\ known \in [Turns -> BOOLEAN]
      /\ wait \in [Requests -> {"none", "checked", "waiting", "ok", "failed"}]
      /\ conn \in [Clients -> {"none", "open", "closed"}] /\ 0 \notin Clients
  BY BoundsAssumption DEF TypeOK, Clients
<1>b. \A kind \in {"bind", "resume", "turn", "stop", "guard"} : kind \in Kinds
  BY DEF Kinds
<1>1. ASSUME UNCHANGED <<pc, client, armed, known>>, Settles,
             \A k \in Clients : conn[k] # "none" => conn'[k] # "none"
      PROVE  StagesOK'
  <2>1. \A t \in Turns, kind \in Kinds : wait[Req(t, kind)] = "none" => wait'[Req(t, kind)] = "none"
    BY <1>1, Requesting DEF Settles
  <2>2. ASSUME NEW t \in Turns
        PROVE  StageOK(t)'
    <3>1. StageOK(t)
      BY DEF StagesOK
    <3>2. client[t] # 0 => conn[client[t]] # "none" /\ client[t] \in Clients
      BY <1>a, <3>1 DEF StageOK
    <3> QED
      BY <1>1, <1>b, <2>1, <3>1, <3>2 DEF StageOK
  <2> QED
    BY <2>2 DEF StagesOK
<1>2. ASSUME NEW t \in Turns,
             \A u \in Turns \ {t} : /\ pc'[u] = pc[u] /\ client'[u] = client[u] /\ armed'[u] = armed[u]
                                    /\ known'[u] = known[u]
                                    /\ \A kind \in Kinds : wait'[Req(u, kind)] = wait[Req(u, kind)],
             UNCHANGED conn, StageOK(t)'
      PROVE  StagesOK'
  <2>1. ASSUME NEW u \in Turns \ {t}
        PROVE  StageOK(u)'
    <3>1. StageOK(u)
      BY DEF StagesOK
    <3> QED
      BY <1>2, <1>b, <3>1 DEF StageOK
  <2> QED
    BY <1>2, <2>1 DEF StagesOK
<1>3. ASSUME NEW t \in Turns,
             ExecuteTurn(t) \/ Ask(t) \/ (Decide(t) /\ Unanswered(t, client[t]) /\ writer[client[t]])
      PROVE  StagesOK'
  <2>1. /\ UNCHANGED <<client, armed, known, wait, conn>>
        /\ \/ pc[t] = "idle" /\ pc' = [pc EXCEPT ![t] = "serve"]
           \/ pc[t] = "watch" /\ pc' = [pc EXCEPT ![t] = "ask"]
           \/ pc[t] = "ask" /\ pc' = [pc EXCEPT ![t] = "watch"]
    BY <1>3 DEF ExecuteTurn, Ask, Decide, Becomes, link
  <2>2. StageOK(t)
    BY DEF StagesOK
  <2>3. StageOK(t)'
    BY <1>a, <1>b, <2>1, <2>2 DEF StageOK
  <2> QED
    BY <1>2, <1>a, <2>1, <2>3
<1>4. ASSUME NEW t \in Turns, UseClient(t)
      PROVE  StagesOK'
  <2>1. PICK kind \in {"bind", "resume"} : wait' = [wait EXCEPT ![Req(t, kind)] = Checked(current)]
    BY <1>4 DEF UseClient, Begin
  <2>2. /\ UNCHANGED <<armed, known, conn>> /\ pc[t] = "serve" /\ pc' = [pc EXCEPT ![t] = "bind"]
        /\ client' = [client EXCEPT ![t] = current]
        /\ current # 0 /\ conn[current] = "open"
    BY <1>4 DEF UseClient, InService, Becomes, link
  <2>3. \A u \in Turns, other \in Kinds :
          (u # t \/ other # kind) => wait'[Req(u, other)] = wait[Req(u, other)]
    BY <1>a, <2>1, Requesting
  <2>4. StageOK(t)
    BY DEF StagesOK
  <2>5. StageOK(t)'
    BY <1>a, <1>b, <2>2, <2>3, <2>4 DEF StageOK
  <2> QED
    BY <1>2, <1>a, <2>2, <2>3, <2>5
<1>5. ASSUME NEW t \in Turns, Bound(t)
      PROVE  StagesOK'
  <2>1. PICK kind \in {"bind", "resume"} :
          wait' = [wait EXCEPT ![Req(t, kind)] = "none", ![Req(t, "turn")] = Checked(client[t])]
    BY <1>5 DEF Bound
  <2>2. UNCHANGED <<armed, known, conn, client>> /\ pc[t] = "bind" /\ pc' = [pc EXCEPT ![t] = "start"]
    BY <1>5 DEF Bound, Becomes, link
  <2>3. \A u \in Turns, other \in Kinds :
          (u # t \/ other \notin {kind, "turn"}) => wait'[Req(u, other)] = wait[Req(u, other)]
    BY <1>a, <2>1, Requesting
  <2>4. StageOK(t)
    BY DEF StagesOK
  <2>5. StageOK(t)'
    BY <1>a, <1>b, <2>2, <2>3, <2>4 DEF StageOK
  <2> QED
    BY <1>2, <1>a, <2>2, <2>3, <2>5
<1>6. ASSUME NEW t \in Turns, Started(t)
      PROVE  StagesOK'
  <2>1. /\ wait' = [wait EXCEPT ![Req(t, "turn")] = "none"] /\ UNCHANGED <<conn, client>>
        /\ pc[t] = "start" /\ pc' = [pc EXCEPT ![t] = "watch"]
        /\ known' = [known EXCEPT ![t] = TRUE] /\ armed' = [armed EXCEPT ![t] = TRUE]
    BY <1>6 DEF Started, Becomes, link
  <2>2. /\ \A u \in Turns, other \in Kinds :
             (u # t \/ other # "turn") => wait'[Req(u, other)] = wait[Req(u, other)]
        /\ wait'[Req(t, "turn")] = "none"
    BY <1>a, <1>b, <2>1, Requesting
  <2>3. StageOK(t)
    BY DEF StagesOK
  <2>4. StageOK(t)'
    BY <1>a, <1>b, <2>1, <2>2, <2>3 DEF StageOK
  <2> QED
    BY <1>2, <1>a, <2>1, <2>2, <2>4
<1>7. ASSUME NEW t \in Turns, Interrupt(t)
      PROVE  StagesOK'
  <2>1. /\ wait' = [wait EXCEPT ![Req(t, "stop")] = Checked(client[t])]
        /\ UNCHANGED <<conn, client, armed, known>>
        /\ pc[t] = "watch" /\ pc' = [pc EXCEPT ![t] = "stop"]
    BY <1>7 DEF Interrupt, Begin, StayArmed, Becomes, link
  <2>2. \A u \in Turns, other \in Kinds :
          (u # t \/ other # "stop") => wait'[Req(u, other)] = wait[Req(u, other)]
    BY <1>a, <1>b, <2>1, Requesting
  <2>3. StageOK(t)
    BY DEF StagesOK
  <2>4. StageOK(t)'
    BY <1>a, <1>b, <2>1, <2>2, <2>3 DEF StageOK
  <2> QED
    BY <1>2, <1>a, <2>1, <2>2, <2>4
<1>8. ASSUME NEW t \in Turns, EndingStep(t)
      PROVE  StagesOK'
  <2>1. PICK guarding \in BOOLEAN : Ending(t, guarding)
    BY <1>8, Endings
  <2>2. /\ pc' = [pc EXCEPT ![t] = "ended"] /\ armed' = [armed EXCEPT ![t] = FALSE]
        /\ known' = known \/ known' = [known EXCEPT ![t] = FALSE]
        /\ UNCHANGED <<conn, client>> /\ pc[t] # "ended" /\ (guarding => armed[t])
    BY <2>1 DEF Ending, EndWith, Becomes, GuardFires
  <2>3. /\ \A u \in Turns, kind \in Kinds : u # t => wait'[Req(u, kind)] = wait[Req(u, kind)]
        /\ \A kind \in Kinds : kind # "guard" => wait'[Req(t, kind)] = "none"
        /\ wait'[Req(t, "guard")] = IF guarding THEN "checked" ELSE wait[Req(t, "guard")]
    BY <2>1, EndedWaits DEF Ending
  <2>4. StageOK(t)
    BY DEF StagesOK
  <2>5. StageOK(t)'
    BY <1>a, <1>b, <2>2, <2>3, <2>4 DEF StageOK
  <2> QED
    BY ZenonT(60), <1>2, <1>a, <2>2, <2>3, <2>5
<1> QED
  BY <1>1, <1>3, <1>4, <1>5, <1>6, <1>7, <1>8, OtherSteps DEF Next, TaskStep, EndingStep

-----------------------------------------------------------------------------
(***************************************************************************)
(* Pending requests                                                        *)
(***************************************************************************)
Tracked(r) == \A k \in Clients : r \in pending[k] <=> wait[r] = "waiting" /\ client[r.turn] = k

LEMMA TrackedNext ==
  ASSUME TypeOK', \A r \in Requests : Tracked(r)'
  PROVE  PendingHasWaiter'
<1>1. \A k \in Clients : pending'[k] \subseteq Requests
  BY DEF TypeOK
<1> QED
  BY <1>1 DEF PendingHasWaiter, Tracked

LEMMA ClosedPending ==
  ASSUME TypeOK, PendingHasWaiter, NEW k \in Clients, MarkClosed(k), client' = client
  PROVE  \A r \in Requests : Tracked(r)'
<1>a. pending \in [Clients -> SUBSET Requests]
  BY DEF TypeOK
<1>1. ASSUME NEW r \in Requests
      PROVE  Tracked(r)'
  <2>1. Tracked(r)
    BY PendingByRequest DEF Tracked
  <2>2. IF r \in pending[k] THEN wait[r] = "waiting" /\ wait'[r] \in {"none", "failed"}
                            ELSE wait'[r] = wait[r]
    BY ClosedWaits
  <2>3. \A j \in Clients : pending'[j] = IF j = k THEN {} ELSE pending[j]
    BY <1>a DEF MarkClosed, TellWaiters
  <2> QED
    BY <2>1, <2>2, <2>3 DEF Tracked
<1> QED
  BY <1>1

LEMMA PendingStep ==
  ASSUME TypeOK, StagesOK, PendingHasWaiter, TypeOK', Next
  PROVE  PendingHasWaiter'
<1>a. /\ pending \in [Clients -> SUBSET Requests] /\ 0 \notin Clients
      /\ client \in [Turns -> {0} \cup Clients]
      /\ wait \in [Requests -> {"none", "checked", "waiting", "ok", "failed"}]
      /\ \A r \in Requests : Tracked(r)
  <2>1. \A r \in Requests : Tracked(r)
    BY PendingByRequest DEF Tracked
  <2>2. 0 \notin Clients
    BY BoundsAssumption DEF Clients
  <2> QED
    BY <2>1, <2>2 DEF TypeOK
<1> SUFFICES \A r \in Requests : Tracked(r)'
  BY TrackedNext
<1>b. ASSUME NEW r \in Requests, wait'[r] = wait[r] \/ ("waiting" \notin {wait[r], wait'[r]}),
             client'[r.turn] = client[r.turn], \A k \in Clients : pending'[k] = pending[k]
      PROVE  Tracked(r)'
  BY <1>a, <1>b DEF Tracked
<1>1. ASSUME UNCHANGED <<pending, client, wait>>
      PROVE  \A r \in Requests : Tracked(r)'
  BY <1>1, <1>b
<1>2. ASSUME NEW t \in Turns, UseClient(t)
      PROVE  \A r \in Requests : Tracked(r)'
  <2>1. PICK kind \in {"bind", "resume"} : wait' = [wait EXCEPT ![Req(t, kind)] = Checked(current)]
    BY <1>2 DEF UseClient, Begin
  <2>2. UNCHANGED pending /\ client' = [client EXCEPT ![t] = current] /\ pc[t] = "serve"
    BY <1>2 DEF UseClient, link
  <2>3. \A other \in Kinds : wait[Req(t, other)] = "none"
    BY <2>2 DEF StagesOK, StageOK
  <2>4. ASSUME NEW r \in Requests
        PROVE  Tracked(r)'
    <3>1. CASE r.turn = t
      <4>1. wait[r] = "none" /\ wait'[r] \in {"none", "checked", "failed"}
        BY <1>a, <2>1, <2>3, <3>1, Requesting DEF Checked
      <4> QED
        BY <1>a, <2>2, <4>1 DEF Tracked
    <3>2. CASE r.turn # t
      <4>1. wait'[r] = wait[r]
        BY <1>a, <2>1, <3>2, Requesting DEF Req
      <4>2. client'[r.turn] = client[r.turn]
        BY <1>a, <2>2, <3>2, Requesting
      <4> QED
        BY <1>b, <2>2, <4>1, <4>2
    <3> QED
      BY <3>1, <3>2
  <2> QED
    BY <2>4
<1>3. ASSUME NEW t \in Turns, Bound(t) \/ Started(t) \/ Interrupt(t)
      PROVE  \A r \in Requests : Tracked(r)'
  <2>1. UNCHANGED <<pending, client>>
    BY <1>3 DEF Bound, Started, Interrupt, link
  <2>2. StageOK(t)
    BY DEF StagesOK
  <2>3. \A k : Checked(k) \in {"checked", "failed"}
    BY DEF Checked
  <2>4. CASE Bound(t)
    <3>1. PICK kind \in {"bind", "resume"} :
            /\ wait[Req(t, kind)] = "ok"
            /\ wait' = [wait EXCEPT ![Req(t, kind)] = "none", ![Req(t, "turn")] = Checked(client[t])]
      BY <2>4 DEF Bound
    <3>2. wait[Req(t, "turn")] = "none"
      BY <2>2, <2>4 DEF Bound, StageOK
    <3>3. \A r \in Requests : wait'[r] = wait[r] \/ ("waiting" \notin {wait[r], wait'[r]})
      BY <1>a, <2>3, <3>1, <3>2
    <3> QED
      BY <1>b, <2>1, <3>3
  <2>5. CASE Started(t)
    <3>1. wait[Req(t, "turn")] = "ok" /\ wait' = [wait EXCEPT ![Req(t, "turn")] = "none"]
      BY <2>5 DEF Started
    <3>2. \A r \in Requests : wait'[r] = wait[r] \/ ("waiting" \notin {wait[r], wait'[r]})
      BY <1>a, <3>1
    <3> QED
      BY <1>b, <2>1, <3>2
  <2>6. CASE Interrupt(t)
    <3>1. wait' = [wait EXCEPT ![Req(t, "stop")] = Checked(client[t])]
      BY <2>6 DEF Interrupt, Begin
    <3>2. wait[Req(t, "stop")] = "none"
      BY <2>2, <2>6 DEF Interrupt, StageOK
    <3>3. \A r \in Requests : wait'[r] = wait[r] \/ ("waiting" \notin {wait[r], wait'[r]})
      BY <1>a, <2>3, <3>1, <3>2
    <3> QED
      BY <1>b, <2>1, <3>3
  <2> QED
    BY <1>3, <2>4, <2>5, <2>6
<1>4. ASSUME NEW t \in Turns, EndingStep(t)
      PROVE  \A r \in Requests : Tracked(r)'
  <2>1. PICK guarding \in BOOLEAN : Ending(t, guarding)
    BY <1>4, Endings
  <2>2. /\ UNCHANGED client /\ pc[t] # "ended"
        /\ \A k \in Clients : pending'[k] = pending[k] \ Own(t)
        /\ \A r \in Requests : wait'[r] = IF r \in Own(t) THEN "none"
                                          ELSE IF guarding /\ r = Req(t, "guard") THEN "checked" ELSE wait[r]
    BY <2>1 DEF Ending, EndWith
  <2>3. wait[Req(t, "guard")] = "none"
    BY <2>2 DEF StagesOK, StageOK
  <2>4. ASSUME NEW r \in Requests
        PROVE  Tracked(r)'
    <3>1. CASE r \in Own(t)
      <4>1. wait'[r] = "none" /\ \A k \in Clients : r \notin pending'[k]
        BY <2>2, <3>1
      <4> QED
        BY <4>1 DEF Tracked
    <3>2. CASE r \notin Own(t)
      <4>1. wait'[r] = wait[r] \/ ("waiting" \notin {wait[r], wait'[r]})
        BY <2>2, <2>3, <3>2
      <4>2. \A k \in Clients : r \in pending'[k] <=> r \in pending[k]
        BY <2>2, <3>2
      <4> QED
        BY <1>a, <2>2, <4>1, <4>2 DEF Tracked
    <3> QED
      BY <3>1, <3>2
  <2> QED
    BY <2>4
<1>5. ASSUME NEW r \in Requests, RequestStep(r)
      PROVE  \A s \in Requests : Tracked(s)'
  <2>1. UNCHANGED client /\ client[r.turn] \in Clients
    BY SMTT(60), <1>5, HasClient DEF RequestStep, Submit, Expire, task
  <2>2. \/ /\ pending' = [pending EXCEPT ![client[r.turn]] = @ \cup {r}]
           /\ wait' = [wait EXCEPT ![r] = "waiting"]
        \/ /\ pending' = [pending EXCEPT ![client[r.turn]] = @ \ {r}]
           /\ wait' = [wait EXCEPT ![r] = Settled(r, "failed")]
        \/ /\ UNCHANGED pending /\ wait[r] = "checked"
           /\ wait' = [wait EXCEPT ![r] = Settled(r, "failed")]
    BY <1>5 DEF RequestStep, Submit, Expire
  <2>3. Settled(r, "failed") \in {"none", "failed"}
    BY DEF Settled
  <2>4. ASSUME NEW s \in Requests
        PROVE  Tracked(s)'
    <3>1. CASE s = r
      BY <1>a, <2>1, <2>2, <2>3, <3>1 DEF Tracked
    <3>2. CASE s # r
      <4>1. wait'[s] = wait[s] /\ \A k \in Clients : s \in pending'[k] <=> s \in pending[k]
        BY <1>a, <2>1, <2>2, <3>2
      <4> QED
        BY <1>a, <2>1, <4>1 DEF Tracked
    <3> QED
      BY <3>1, <3>2
  <2> QED
    BY <2>4
<1>6. ASSUME NEW k \in Clients, ReadLine(k)
      PROVE  \A r \in Requests : Tracked(r)'
  <2> DEFINE m == Head(fromChild[k])
  <2>1. UNCHANGED client /\ Incoming(k, m)
    BY <1>6 DEF ReadLine
  <2>2. m \in Lines
    BY <1>6, Taken DEF ReadLine, TypeOK
  <2> HIDE DEF m
  <2>3. CASE m.kind \in {"ok", "failed"}
    <3> DEFINE q == Req(m.turn, m.to)
    <3>1. q \in Requests
      BY <2>2, <2>3 DEF Lines, Req, Requests
    <3>2. \/ UNCHANGED <<wait, pending>>
          \/ /\ q \in pending[k] /\ wait' = [wait EXCEPT ![q] = Settled(q, m.kind)]
             /\ pending' = [pending EXCEPT ![k] = @ \ {q}]
      BY <2>1, <2>3 DEF Incoming
    <3>3. Settled(q, m.kind) \in {"none", "ok", "failed"}
      BY <2>3 DEF Settled
    <3> HIDE DEF q
    <3>4. ASSUME NEW r \in Requests, ~UNCHANGED <<wait, pending>>
          PROVE  Tracked(r)'
      <4>1. CASE r = q
        BY <1>a, <2>1, <3>1, <3>2, <3>3, <3>4, <4>1 DEF Tracked
      <4>2. CASE r # q
        <5>1. wait'[r] = wait[r] /\ \A j \in Clients : r \in pending'[j] <=> r \in pending[j]
          BY <1>a, <3>2, <3>4, <4>2
        <5> QED
          BY <1>a, <2>1, <5>1 DEF Tracked
      <4> QED
        BY <4>1, <4>2
    <3> QED
      BY <1>1, <2>1, <3>4
  <2>4. CASE m.kind \notin {"ok", "failed"}
    <3>1. UNCHANGED <<wait, pending>> \/ MarkClosed(k)
      BY <2>1, <2>4 DEF Incoming, Close
    <3> QED
      BY <1>1, <2>1, <3>1, ClosedPending
  <2> QED
    BY <2>3, <2>4
<1>7. ASSUME NEW k \in Clients,
             ReadEnd(k) \/ WriterEnds(k) \/ KillChild(k) \/ ChildReaped(k)
      PROVE  \A r \in Requests : Tracked(r)'
  <2>1. UNCHANGED client /\ (UNCHANGED <<wait, pending>> \/ MarkClosed(k))
    BY SMTT(60), <1>7 DEF ReadEnd, WriterEnds, KillChild, ChildReaped, Close, task, link
  <2> QED
    BY <1>1, <2>1, ClosedPending
<1>8. ASSUME \/ \E t \in Turns : \/ ExecuteTurn(t) \/ SpawnClient(t) \/ Cancel(t) \/ Ask(t)
                                 \/ ChildAsks(t) \/ ChildCompletes(t)
                                 \/ (Decide(t) /\ Unanswered(t, client[t]) /\ writer[client[t]])
             \/ \E k \in Clients : ChildReads(k) \/ ChildExits(k) \/ ChildFails(k)
             \/ ShutdownBegins \/ ShutdownStep
      PROVE  UNCHANGED <<pending, client, wait>>
  BY ZenonT(60), <1>8 DEF ExecuteTurn, SpawnClient, Cancel, Ask, ChildAsks, ChildCompletes, Decide,
    ChildReads, ChildExits, ChildFails, ShutdownBegins, ShutdownStep, ShutdownKills, ShutdownEnds, task, link
<1> QED
  BY <1>1, <1>2, <1>3, <1>4, <1>5, <1>6, <1>7, <1>8 DEF Next, TaskStep, ClientStep, EndingStep

-----------------------------------------------------------------------------
(***************************************************************************)
(* Requests on a closed client                                             *)
(***************************************************************************)
\* Nobody starts to wait, and no client is closed.
LEMMA NobodyWaits ==
  ASSUME ClosedFreesWaiters, UNCHANGED late,
         \A r \in Requests : wait'[r] = "waiting" =>
           wait[r] = "waiting" /\ client'[r.turn] = client[r.turn],
         \A r \in Requests : client[r.turn] # 0 /\ conn'[client[r.turn]] = "closed" =>
           conn[client[r.turn]] = "closed"
  PROVE  ClosedFreesWaiters'
  BY DEF ClosedFreesWaiters, Lost

LEMMA ClosingFrees ==
  ASSUME TypeOK, StagesOK, PendingHasWaiter, ClosedFreesWaiters, NEW k \in Clients,
         MarkClosed(k), UNCHANGED <<client, late>>
  PROVE  ClosedFreesWaiters'
<1>a. conn \in [Clients -> {"none", "open", "closed"}]
  BY DEF TypeOK
<1>1. ASSUME NEW r \in Requests, wait'[r] = "waiting", Lost(r.turn)'
      PROVE  r \in late'
  <2>1. r \notin pending[k] /\ wait[r] = "waiting"
    BY <1>1, ClosedWaits
  <2>2. client[r.turn] \in Clients /\ client[r.turn] # k
    BY <2>1, HasClient, PendingByRequest
  <2>3. conn'[client[r.turn]] = conn[client[r.turn]]
    BY <1>a, <2>2 DEF MarkClosed
  <2>4. Lost(r.turn)
    BY <1>1, <2>3 DEF Lost
  <2> QED
    BY <2>1, <2>4 DEF ClosedFreesWaiters
<1> QED
  BY <1>1 DEF ClosedFreesWaiters

LEMMA FreedStep ==
  ASSUME TypeOK, StagesOK, PendingHasWaiter, ClosedFreesWaiters, Next
  PROVE  ClosedFreesWaiters'
<1>a. /\ 0 \notin Clients /\ client \in [Turns -> {0} \cup Clients]
      /\ wait \in [Requests -> {"none", "checked", "waiting", "ok", "failed"}]
      /\ conn \in [Clients -> {"none", "open", "closed"}]
  BY BoundsAssumption DEF TypeOK, Clients
<1>b. ASSUME UNCHANGED <<late, client, conn>>,
             \A r \in Requests : wait'[r] = wait[r] \/ wait'[r] # "waiting"
      PROVE  ClosedFreesWaiters'
  BY <1>b, NobodyWaits
<1>c. \A k : Checked(k) # "waiting"
  BY DEF Checked
<1>1. ASSUME NEW t \in Turns, UseClient(t)
      PROVE  ClosedFreesWaiters'
  <2>1. PICK kind \in {"bind", "resume"} : wait' = [wait EXCEPT ![Req(t, kind)] = Checked(current)]
    BY <1>1 DEF UseClient, Begin
  <2>2. /\ UNCHANGED <<conn, late>> /\ pc[t] = "serve"
        /\ client' = [client EXCEPT ![t] = current]
    BY <1>1 DEF UseClient, link, service
  <2>3. \A other \in Kinds : wait[Req(t, other)] = "none"
    BY <2>2 DEF StagesOK, StageOK
  <2>4. ASSUME NEW r \in Requests, wait'[r] = "waiting"
        PROVE  wait[r] = "waiting" /\ client'[r.turn] = client[r.turn]
    <3>1. wait[r] = "waiting"
      BY <1>a, <1>c, <2>1, <2>4
    <3>2. r.turn # t /\ r.turn \in Turns
      BY <2>3, <3>1, Requesting
    <3> QED
      BY <1>a, <2>2, <3>1, <3>2
  <2> QED
    BY <2>2, <2>4, NobodyWaits
<1>2. ASSUME NEW t \in Turns, Bound(t) \/ Started(t) \/ Interrupt(t)
      PROVE  ClosedFreesWaiters'
  <2>1. UNCHANGED <<late, client, conn>>
    BY <1>2 DEF Bound, Started, Interrupt, link, service
  <2>2. \A r \in Requests : wait'[r] = wait[r] \/ wait'[r] # "waiting"
    BY <1>2, <1>a, <1>c DEF Bound, Started, Interrupt, Begin
  <2> QED
    BY <1>b, <2>1, <2>2
<1>3. ASSUME NEW t \in Turns, EndingStep(t)
      PROVE  ClosedFreesWaiters'
  <2>1. PICK guarding \in BOOLEAN : Ending(t, guarding)
    BY <1>3, Endings
  <2>2. UNCHANGED <<client, conn>> /\ \A r \in Requests : wait'[r] = wait[r] \/ wait'[r] # "waiting"
    BY <2>1 DEF Ending, EndWith
  <2>3. UNCHANGED late
    BY <1>3 DEF EndingStep, SpawnFails, RequestFails, ExecuteFails, Notice, DropFuture, Interrupted,
                AskCancelled, Decide, Ends, service
  <2> QED
    BY <1>b, <2>2, <2>3
<1>4. ASSUME NEW r \in Requests, Submit(r)
      PROVE  ClosedFreesWaiters'
  <2>1. UNCHANGED <<client, conn>> /\ client[r.turn] \in Clients
    BY <1>4, HasClient DEF Submit, task
  <2>2. CASE writer[client[r.turn]]
    <3>1. /\ wait' = [wait EXCEPT ![r] = "waiting"]
          /\ late' = IF conn[client[r.turn]] = "closed" THEN late \cup {r} ELSE late
      BY <1>4, <2>2 DEF Submit
    <3>2. ASSUME NEW q \in Requests, wait'[q] = "waiting", Lost(q.turn)'
          PROVE  q \in late'
      <4>1. CASE q = r
        BY <2>1, <3>1, <3>2, <4>1 DEF Lost
      <4>2. CASE q # r
        <5>1. wait[q] = "waiting" /\ Lost(q.turn)
          BY <1>a, <2>1, <3>1, <3>2, <4>2 DEF Lost
        <5> QED
          BY <3>1, <5>1 DEF ClosedFreesWaiters
      <4> QED
        BY <4>1, <4>2
    <3> QED
      BY <3>2 DEF ClosedFreesWaiters
  <2>3. CASE ~writer[client[r.turn]]
    <3>1. UNCHANGED late /\ wait' = [wait EXCEPT ![r] = Settled(r, "failed")]
      BY <1>4, <2>3 DEF Submit
    <3>2. Settled(r, "failed") # "waiting"
      BY DEF Settled
    <3> QED
      BY <1>a, <1>b, <2>1, <3>1, <3>2
  <2> QED
    BY <2>2, <2>3
<1>5. ASSUME NEW r \in Requests, Expire(r)
      PROVE  ClosedFreesWaiters'
  <2>1. UNCHANGED <<late, client, conn>>
    BY <1>5 DEF Expire, task, service
  <2>2. \A q \in Requests : wait'[q] = wait[q] \/ wait'[q] # "waiting"
    BY <1>5, <1>a DEF Expire, Settled
  <2> QED
    BY <1>b, <2>1, <2>2
<1>6. ASSUME NEW k \in Clients, ReadLine(k)
      PROVE  ClosedFreesWaiters'
  <2> DEFINE m == Head(fromChild[k])
  <2>1. UNCHANGED <<client, late>> /\ Incoming(k, m)
    BY <1>6 DEF ReadLine, service
  <2>2. CASE m.kind \in {"ok", "failed"}
    <3> DEFINE q == Req(m.turn, m.to)
    <3>1. UNCHANGED conn /\ (UNCHANGED wait \/ wait' = [wait EXCEPT ![q] = Settled(q, m.kind)])
      BY <2>1, <2>2 DEF Incoming
    <3>2. Settled(q, m.kind) # "waiting"
      BY <2>2 DEF Settled
    <3> QED
      BY SMTT(60), <1>a, <1>b, <2>1, <3>1, <3>2
  <2>3. CASE m.kind \notin {"ok", "failed"}
    <3>1. UNCHANGED <<wait, conn>> \/ MarkClosed(k)
      BY <2>1, <2>3 DEF Incoming, Close
    <3> QED
      BY SMTT(60), <1>b, <2>1, <3>1, ClosingFrees
  <2> QED
    BY <2>2, <2>3
<1>7. ASSUME NEW k \in Clients,
             ReadEnd(k) \/ WriterEnds(k) \/ KillChild(k) \/ ChildReaped(k)
      PROVE  ClosedFreesWaiters'
  <2>1. UNCHANGED <<client, late>>
    BY <1>7 DEF ReadEnd, WriterEnds, KillChild, ChildReaped, task, service
  <2>2. UNCHANGED <<wait, conn>> \/ MarkClosed(k)
    BY SMTT(60), <1>7 DEF ReadEnd, WriterEnds, KillChild, ChildReaped, Close, link
  <2> QED
    BY <1>b, <2>1, <2>2, ClosingFrees
<1>8. ASSUME NEW t \in Turns, SpawnClient(t)
      PROVE  ClosedFreesWaiters'
  <2>1. UNCHANGED <<wait, client, late>> /\ \E k \in Clients : conn' = [conn EXCEPT ![k] = "open"]
    BY <1>8 DEF SpawnClient, task
  <2>2. \A r \in Requests : client[r.turn] # 0 /\ conn'[client[r.turn]] = "closed" =>
          conn[client[r.turn]] = "closed"
    BY <1>a, <2>1, Requesting
  <2> QED
    BY <2>1, <2>2, NobodyWaits
<1>9. ASSUME \/ \E t \in Turns : \/ ExecuteTurn(t) \/ Cancel(t) \/ Ask(t) \/ ChildAsks(t) \/ ChildCompletes(t)
                                 \/ (Decide(t) /\ Unanswered(t, client[t]) /\ writer[client[t]])
             \/ \E k \in Clients : ChildReads(k) \/ ChildExits(k) \/ ChildFails(k)
             \/ ShutdownBegins \/ ShutdownStep
      PROVE  UNCHANGED <<late, client, conn, wait>>
  BY ZenonT(60), <1>9 DEF ExecuteTurn, Cancel, Ask, ChildAsks, ChildCompletes, Decide, ChildReads,
    ChildExits, ChildFails, ShutdownBegins, ShutdownStep, ShutdownKills, ShutdownEnds, task, link, service
<1>10. UNCHANGED <<late, client, conn, wait>> => ClosedFreesWaiters'
  BY <1>b
<1> QED
  BY <1>1, <1>2, <1>3, <1>4, <1>5, <1>6, <1>7, <1>8, <1>9, <1>10
     DEF Next, TaskStep, RequestStep, ClientStep, EndingStep

-----------------------------------------------------------------------------
(***************************************************************************)
(* The frame that starts a remote Turn, and the reply to it                *)
(***************************************************************************)
\* Of the frames to k, those behind the first d remain, and no turn/start of t
\* is added.
Remain(k, t, d) ==
  \A i \in DOMAIN toChild'[k] : toChild'[k][i] = TurnFrame(t) =>
    i + d \in DOMAIN toChild[k] /\ toChild[k][i + d] = TurnFrame(t)

\* No reply to the turn/start of t is added.
NoReply(t) ==
  \A k \in Clients : \A i \in DOMAIN fromChild'[k] : fromChild'[k][i] \in Replies(t) =>
    \E j \in DOMAIN fromChild[k] : fromChild[k][j] \in Replies(t)

Replied(t) == \E k \in Clients : \E i \in DOMAIN fromChild[k] : fromChild[k][i] \in Replies(t)

LEMMA FrameKept ==
  ASSUME TypeOK, TypeOK', NEW t \in Turns, FrameOK(t),
         \A k \in Clients : \E d \in Nat : Remain(k, t, d),
         NoReply(t),
         NotSent(t)' => NotSent(t),
         ~NotSent(t) => client'[t] = client[t],
         ~NotSent(t) /\ ~known[t] /\ wait[Req(t, "turn")] # "ok" /\ ~Replied(t)
           => ~known'[t] /\ wait'[Req(t, "turn")] # "ok"
  PROVE  FrameOK(t)'
<1>1. ASSUME NEW k \in Clients, NEW i \in DOMAIN toChild'[k], toChild'[k][i] = TurnFrame(t)
      PROVE  /\ client'[t] = k /\ ~NotSent(t)' /\ ~known'[t] /\ wait'[Req(t, "turn")] # "ok"
             /\ \A j \in DOMAIN toChild'[k] : toChild'[k][j] = TurnFrame(t) => i = j
             /\ \A l \in Clients : \A j \in DOMAIN fromChild'[l] : fromChild'[l][j] \notin Replies(t)
  <2>1. PICK d \in Nat : Remain(k, t, d)
    OBVIOUS
  <2>2. i + d \in DOMAIN toChild[k] /\ toChild[k][i + d] = TurnFrame(t)
    BY <1>1, <2>1 DEF Remain
  <2>3. /\ client[t] = k /\ ~NotSent(t) /\ ~known[t] /\ wait[Req(t, "turn")] # "ok" /\ ~Replied(t)
        /\ \A j \in DOMAIN toChild[k] : toChild[k][j] = TurnFrame(t) => i + d = j
    BY <2>2 DEF FrameOK, Replied
  <2>4. ASSUME NEW j \in DOMAIN toChild'[k], toChild'[k][j] = TurnFrame(t)
        PROVE  i = j
    <3>1. j + d \in DOMAIN toChild[k] /\ toChild[k][j + d] = TurnFrame(t)
      BY <2>1, <2>4 DEF Remain
    <3>2. i + d = j + d
      BY <2>3, <3>1
    <3>3. toChild'[k] \in Seq(Frames)
      BY DEF TypeOK
    <3>4. DOMAIN toChild'[k] \subseteq Nat
      BY <3>3
    <3> QED
      BY <3>2, <3>4
  <2>5. \A l \in Clients : \A j \in DOMAIN fromChild'[l] : fromChild'[l][j] \notin Replies(t)
    BY <2>3 DEF NoReply, Replied
  <2> QED
    BY <2>3, <2>4, <2>5
<1>2. ASSUME NotSent(t)'
      PROVE  \A l \in Clients : \A j \in DOMAIN fromChild'[l] : fromChild'[l][j] \notin Replies(t)
  BY <1>2 DEF NoReply, FrameOK
<1> QED
  BY <1>1, <1>2 DEF FrameOK, Replies, TurnFrame

\* Queues that stay, grow by another frame, or are cut.
LEMMA QueueRemains ==
  ASSUME TypeOK, NEW t \in Turns, NEW k \in Clients,
         \/ toChild'[k] = toChild[k]
         \/ toChild'[k] = <<>>
         \/ \E f : toChild'[k] = Append(toChild[k], f) /\ f # TurnFrame(t)
         \/ \E i \in DOMAIN toChild[k] : toChild'[k] = SubSeq(toChild[k], 1, i)
  PROVE  Remain(k, t, 0)
<1> DEFINE q == toChild[k]
<1>1. q \in Seq(Frames)
  BY DEF TypeOK
<1>2. \A i \in DOMAIN q : i + 0 = i
  BY <1>1
<1>3. CASE toChild'[k] = toChild[k]
  BY <1>2, <1>3 DEF Remain
<1>4. CASE toChild'[k] = <<>>
  BY <1>4 DEF Remain
<1>5. CASE \E f : toChild'[k] = Append(toChild[k], f) /\ f # TurnFrame(t)
  <2>1. PICK f : toChild'[k] = Append(q, f) /\ f # TurnFrame(t)
    BY <1>5
  <2>2. \A i \in DOMAIN Append(q, f) : (i \in DOMAIN q /\ Append(q, f)[i] = q[i]) \/ Append(q, f)[i] = f
    BY <1>1, Appended
  <2> QED
    BY <1>2, <2>1, <2>2 DEF Remain
<1>6. CASE \E i \in DOMAIN toChild[k] : toChild'[k] = SubSeq(toChild[k], 1, i)
  <2>1. PICK n \in DOMAIN q : toChild'[k] = SubSeq(q, 1, n)
    BY <1>6
  <2>2. /\ DOMAIN SubSeq(q, 1, n) = 1..n /\ DOMAIN q = 1..Len(q) /\ n \in 1..Len(q) /\ Len(q) \in Nat
        /\ \A i \in 1..n : SubSeq(q, 1, n)[i] = q[i]
    BY <1>1
  <2>3. \A i \in DOMAIN SubSeq(q, 1, n) : i \in DOMAIN q /\ SubSeq(q, 1, n)[i] = q[i]
    BY <2>2
  <2> QED
    BY <1>2, <2>1, <2>3 DEF Remain
<1> QED
  BY <1>3, <1>4, <1>5, <1>6

LEMMA SaysNoReply ==
  ASSUME TypeOK, NEW t \in Turns, NEW k \in Clients, NEW lines \in Seq(Lines), Says(k, lines),
         \A i \in DOMAIN lines : lines[i] \notin Replies(t)
  PROVE  NoReply(t)
<1>1. fromChild[k] \in Seq(Lines) /\ fromChild \in [Clients -> Seq(Lines)]
  BY DEF TypeOK
<1>2. \A i \in DOMAIN (fromChild[k] \o lines) :
        \/ \E j \in DOMAIN fromChild[k] : (fromChild[k] \o lines)[i] = fromChild[k][j]
        \/ \E j \in DOMAIN lines : (fromChild[k] \o lines)[i] = lines[j]
  BY SMTT(60), <1>1, Joined
<1>3. \A l \in Clients : \/ fromChild'[l] = fromChild[l]
                         \/ fromChild'[l] = <<>>
                         \/ (l = k /\ fromChild'[l] = fromChild[k] \o lines)
  BY <1>1 DEF Says
<1>4. ASSUME NEW l \in Clients, NEW i \in DOMAIN fromChild'[l], fromChild'[l][i] \in Replies(t)
      PROVE  \E j \in DOMAIN fromChild[l] : fromChild[l][j] \in Replies(t)
  <2>1. CASE fromChild'[l] = fromChild[l]
    BY <1>4, <2>1
  <2>2. CASE fromChild'[l] = <<>>
    BY <1>4, <2>2
  <2>3. CASE l = k /\ fromChild'[l] = fromChild[k] \o lines
    BY <1>2, <1>4, <2>3
  <2> QED
    BY <1>3, <2>1, <2>2, <2>3
<1> QED
  BY <1>4 DEF NoReply

\* A step of execute is of one Turn, and what it queues starts no remote Turn.
ExecuteStep(u) ==
  \/ ExecuteTurn(u) \/ Ask(u) \/ UseClient(u) \/ Bound(u) \/ Started(u) \/ Interrupt(u) \/ EndingStep(u)
  \/ (Decide(u) /\ Unanswered(u, client[u]) /\ writer[client[u]])

LEMMA OwnTurnOnly ==
  ASSUME TypeOK, NEW u \in Turns, ExecuteStep(u), NEW t \in Turns, t # u
  PROVE  /\ pc'[t] = pc[t] /\ client'[t] = client[t] /\ known'[t] = known[t]
         /\ \A kind \in Kinds : wait'[Req(t, kind)] = wait[Req(t, kind)]
<1>a. /\ client \in [Turns -> {0} \cup Clients] /\ known \in [Turns -> BOOLEAN]
      /\ pc \in [Turns -> {"idle", "serve", "bind", "start", "watch", "ask", "stop", "ended"}]
      /\ wait \in [Requests -> {"none", "checked", "waiting", "ok", "failed"}]
  BY DEF TypeOK
<1>1. CASE EndingStep(u)
  <2>1. PICK guarding \in BOOLEAN : Ending(u, guarding)
    BY <1>1, Endings
  <2>2. \A kind \in Kinds : wait'[Req(t, kind)] = wait[Req(t, kind)]
    BY <2>1, EndedWaits DEF Ending
  <2> QED
    BY <1>a, <2>1, <2>2 DEF Ending, EndWith, Becomes
<1>2. CASE UseClient(u) \/ Interrupt(u) \/ Started(u)
  <2>1. \E kind, w : wait' = [wait EXCEPT ![Req(u, kind)] = w]
    <3>1. CASE UseClient(u)
      BY <3>1 DEF UseClient, Begin
    <3>2. CASE Interrupt(u)
      BY <3>2 DEF Interrupt, Begin
    <3>3. CASE Started(u)
      BY <3>3 DEF Started
    <3> QED
      BY <1>2, <3>1, <3>2, <3>3
  <2>2. \A kind \in Kinds : wait'[Req(t, kind)] = wait[Req(t, kind)]
    BY <1>a, <2>1, Requesting
  <2>3. pc'[t] = pc[t] /\ client'[t] = client[t] /\ known'[t] = known[t]
    BY <1>a, <1>2 DEF UseClient, Interrupt, Started, Becomes
  <2> QED
    BY <2>2, <2>3
<1>3. CASE Bound(u)
  <2>1. \E kind, w : wait' = [wait EXCEPT ![Req(u, kind)] = "none", ![Req(u, "turn")] = w]
    BY <1>3 DEF Bound
  <2>2. \A kind \in Kinds : wait'[Req(t, kind)] = wait[Req(t, kind)]
    BY <1>a, <2>1, Requesting
  <2> QED
    BY <1>a, <1>3, <2>2 DEF Bound, Becomes
<1>4. CASE ExecuteTurn(u) \/ Ask(u) \/ (Decide(u) /\ Unanswered(u, client[u]) /\ writer[client[u]])
  BY <1>a, <1>4 DEF ExecuteTurn, Ask, Decide, Becomes
<1> QED
  BY <1>1, <1>2, <1>3, <1>4 DEF ExecuteStep

LEMMA ExecuteQueues ==
  ASSUME TypeOK, NEW u \in Turns, ExecuteStep(u)
  PROVE  /\ UNCHANGED <<conn, writer, fromChild, remote>>
         /\ \/ UNCHANGED toChild
            \/ \E what \in {"answer", "reject"} :
                 toChild' = [toChild EXCEPT ![client[u]] = Append(@, [kind |-> what, turn |-> u])]
<1>1. CASE EndingStep(u)
  BY <1>1, Endings DEF Ending
<1>2. CASE ~EndingStep(u)
  BY <1>2 DEF ExecuteStep, ExecuteTurn, Ask, UseClient, Bound, Started, Interrupt, Decide, Answer,
    link, sidecar
<1> QED
  BY <1>1, <1>2

LEMMA AnswerRemains ==
  ASSUME TypeOK, NEW u,
         \/ UNCHANGED toChild
         \/ \E what \in {"answer", "reject"} :
              toChild' = [toChild EXCEPT ![client[u]] = Append(@, [kind |-> what, turn |-> u])],
         NEW t \in Turns, NEW k \in Clients
  PROVE  Remain(k, t, 0)
<1>1. \A what \in {"answer", "reject"} : [kind |-> what, turn |-> u] # TurnFrame(t)
  BY DEF TurnFrame
<1>2. \/ toChild'[k] = toChild[k]
      \/ \E f : toChild'[k] = Append(toChild[k], f) /\ f # TurnFrame(t)
  <2>1. toChild \in [Clients -> Seq(Frames)]
    BY DEF TypeOK
  <2>2. CASE UNCHANGED toChild
    BY <2>2
  <2>3. ASSUME NEW what \in {"answer", "reject"},
               toChild' = [toChild EXCEPT ![client[u]] = Append(@, [kind |-> what, turn |-> u])]
        PROVE  \/ toChild'[k] = toChild[k]
               \/ toChild'[k] = Append(toChild[k], [kind |-> what, turn |-> u])
    BY <2>1, <2>3
  <2> QED
    BY <1>1, <2>2, <2>3
<1> QED
  BY <1>2, QueueRemains

LEMMA ExecuteFrames ==
  ASSUME TypeOK, TypeOK', StagesOK, NEW t \in Turns, FrameOK(t), NEW u \in Turns, ExecuteStep(u)
  PROVE  FrameOK(t)'
<1>a. /\ client \in [Turns -> {0} \cup Clients] /\ known \in [Turns -> BOOLEAN]
      /\ pc \in [Turns -> {"idle", "serve", "bind", "start", "watch", "ask", "stop", "ended"}]
      /\ wait \in [Requests -> {"none", "checked", "waiting", "ok", "failed"}]
      /\ StageOK(t) /\ {"turn", "stop"} \subseteq Kinds
  BY DEF TypeOK, StagesOK, Kinds
<1>1. /\ \A k \in Clients : Remain(k, t, 0)
      /\ NoReply(t)
  <2>1. UNCHANGED fromChild
    BY ExecuteQueues
  <2> QED
    BY <2>1, ExecuteQueues, AnswerRemains DEF NoReply
<1>2. ASSUME NotSent(t)' => NotSent(t), ~NotSent(t) => client'[t] = client[t],
             ~NotSent(t) /\ ~known[t] /\ wait[Req(t, "turn")] # "ok" /\ ~Replied(t)
               => ~known'[t] /\ wait'[Req(t, "turn")] # "ok"
      PROVE  FrameOK(t)'
  <2>1. \A k \in Clients : \E d \in Nat : Remain(k, t, d)
    BY <1>1
  <2> QED
    BY <1>1, <1>2, <2>1, FrameKept
<1>3. CASE t # u
  BY <1>a, <1>2, <1>3, OwnTurnOnly DEF NotSent
<1>4. CASE t = u /\ EndingStep(u)
  <2>1. PICK guarding \in BOOLEAN : Ending(t, guarding)
    BY <1>4, Endings
  <2>2. /\ pc'[t] = "ended" /\ client' = client
        /\ ~known[t] => ~known'[t]
    BY <1>a, <2>1 DEF Ending, EndWith, Becomes
  <2>3. wait'[Req(t, "turn")] = "none"
    <3>1. EndWith(t, guarding) /\ "turn" \in Kinds
      BY <2>1 DEF Ending, Kinds
    <3> QED
      BY <3>1, EndedWaits
  <2> QED
    BY <1>2, <2>2, <2>3 DEF NotSent
<1>5. CASE t = u /\ UseClient(u)
  <2>1. NotSent(t)
    BY <1>5 DEF UseClient, NotSent
  <2> QED
    BY <1>2, <2>1
<1>6. CASE t = u /\ Bound(u)
  <2>1. NotSent(t)
    BY <1>6 DEF Bound, NotSent
  <2> QED
    BY <1>2, <2>1
<1>7. CASE t = u /\ Started(u)
  <2>1. /\ pc'[t] = "watch" /\ client' = client /\ wait'[Req(t, "turn")] = "none"
        /\ wait[Req(t, "turn")] = "ok"
    BY <1>a, <1>7, Requesting DEF Started, Becomes
  <2> QED
    BY <1>2, <2>1 DEF NotSent
<1>8. CASE t = u /\ Interrupt(u)
  <2>1. UNCHANGED <<client, known>> /\ pc'[t] = "stop" /\ wait'[Req(t, "turn")] = wait[Req(t, "turn")]
        /\ pc[t] = "watch"
    BY <1>a, <1>8, Requesting DEF Interrupt, Begin, Becomes
  <2> QED
    BY <1>2, <2>1 DEF NotSent
<1>9. CASE t = u /\ (ExecuteTurn(u) \/ Ask(u) \/ (Decide(u) /\ Unanswered(u, client[u]) /\ writer[client[u]]))
  <2>1. /\ UNCHANGED <<client, known, wait>>
        /\ \/ pc[t] = "idle"
           \/ pc'[t] \in {"ask", "watch"}
    BY <1>a, <1>9 DEF ExecuteTurn, Ask, Decide, Becomes
  <2> QED
    BY <1>2, <2>1 DEF NotSent
<1> QED
  BY <1>3, <1>4, <1>5, <1>6, <1>7, <1>8, <1>9 DEF ExecuteStep

\* The steps that leave the stages of the Turns alone.
LEMMA QuietFrames ==
  ASSUME TypeOK, TypeOK', NEW t \in Turns, FrameOK(t), UNCHANGED <<pc, client, known>>, Settles,
         \A k \in Clients : \E d \in Nat : Remain(k, t, d),
         NoReply(t),
         ~NotSent(t) /\ wait[Req(t, "turn")] # "ok" /\ ~Replied(t) => wait'[Req(t, "turn")] # "ok"
  PROVE  FrameOK(t)'
<1>1. Req(t, "turn") \in Requests
  BY DEF Requests, Req, Kinds
<1>2. NotSent(t)' => NotSent(t)
  BY <1>1 DEF NotSent, Settles
<1> QED
  BY <1>2, FrameKept

\* turn/start is sent.
LEMMA SubmitFrames ==
  ASSUME TypeOK, TypeOK', StagesOK, PendingHasWaiter, NEW t \in Turns, FrameOK(t),
         NEW r \in Requests, Submit(r)
  PROVE  FrameOK(t)'
<1> DEFINE k == client[r.turn]
<1>a. /\ UNCHANGED <<pc, client, known, fromChild>> /\ wait[r] = "checked"
      /\ toChild \in [Clients -> Seq(Frames)]
      /\ wait \in [Requests -> {"none", "checked", "waiting", "ok", "failed"}]
  BY DEF Submit, TypeOK, task
<1>b. k \in Clients /\ r.turn \in Turns /\ r.kind \in Kinds /\ r = Req(r.turn, r.kind)
  BY <1>a, HasClient, Requesting
<1>c. Settles
  <2>1. RequestStep(r)
    BY DEF RequestStep
  <2> QED
    BY <2>1, OtherSteps
<1>d. Req(t, "turn") \in Requests /\ (wait'[Req(t, "turn")] # "ok" \/ wait[Req(t, "turn")] = "ok")
  <2>1. Req(t, "turn") \in Requests
    BY DEF Requests, Req, Kinds
  <2>2. \E w \in {"none", "waiting", "failed"} : wait' = [wait EXCEPT ![r] = w]
    BY DEF Submit, Settled
  <2> QED
    BY <1>a, <2>1, <2>2
<1>1. CASE UNCHANGED toChild \/ r # Req(t, "turn")
  <2>1. \A l \in Clients : \/ toChild'[l] = toChild[l]
                           \/ \E f : toChild'[l] = Append(toChild[l], f) /\ f # TurnFrame(t)
    <3>1. CASE UNCHANGED toChild
      BY <3>1
    <3>2. CASE ~UNCHANGED toChild
      <4>1. toChild' = [toChild EXCEPT ![k] = Append(@, [kind |-> r.kind, turn |-> r.turn])]
        BY <3>2 DEF Submit
      <4>2. [kind |-> r.kind, turn |-> r.turn] # TurnFrame(t)
        BY <1>1, <1>b, <3>2 DEF TurnFrame
      <4> QED
        BY <1>a, <1>b, <4>1, <4>2
    <3> QED
      BY <3>1, <3>2
  <2>2. \A l \in Clients : Remain(l, t, 0)
    BY <2>1, QueueRemains
  <2>3. \A l \in Clients : \E d \in Nat : Remain(l, t, d)
    BY <2>2
  <2>4. NoReply(t)
    BY <1>a DEF NoReply
  <2> QED
    BY <1>a, <1>c, <1>d, <2>3, <2>4, QuietFrames
<1>2. CASE ~UNCHANGED toChild /\ r = Req(t, "turn")
  <2>1. r.turn = t /\ r.kind = "turn"
    BY <1>2 DEF Req
  <2>2. /\ toChild' = [toChild EXCEPT ![k] = Append(@, TurnFrame(t))]
        /\ wait' = [wait EXCEPT ![r] = "waiting"]
    BY <1>2, <2>1 DEF Submit, TurnFrame
  <2>3. wait'[Req(t, "turn")] = "waiting" /\ NotSent(t)
    BY <1>2, <1>a, <2>2 DEF NotSent
  <2>4. pc[t] = "start" /\ ~known[t]
    BY <1>2, <1>a DEF StagesOK, StageOK
  <2>5. /\ \A l \in Clients : \A i \in DOMAIN toChild[l] : toChild[l][i] # TurnFrame(t)
        /\ \A l \in Clients : \A j \in DOMAIN fromChild[l] : fromChild[l][j] \notin Replies(t)
    BY <2>3 DEF FrameOK
  <2>6. ~NotSent(t)'
    BY <1>a, <2>3, <2>4 DEF NotSent
  <2>7. \A l \in Clients : \A i \in DOMAIN toChild'[l] : toChild'[l][i] = TurnFrame(t) =>
          l = k /\ i = Len(toChild[k]) + 1
    <3>1. \A l \in Clients : l # k => toChild'[l] = toChild[l]
      BY <1>a, <2>2
    <3>2. toChild'[k] = Append(toChild[k], TurnFrame(t)) /\ toChild[k] \in Seq(Frames)
      BY <1>a, <1>b, <2>2
    <3>3. /\ DOMAIN toChild'[k] = 1..(Len(toChild[k]) + 1) /\ DOMAIN toChild[k] = 1..Len(toChild[k])
          /\ Len(toChild[k]) \in Nat
          /\ \A i \in 1..Len(toChild[k]) : toChild'[k][i] = toChild[k][i]
      BY <3>2, Appended
    <3>4. \A i \in DOMAIN toChild'[k] : toChild'[k][i] = TurnFrame(t) => i = Len(toChild[k]) + 1
      BY SMTT(60), <1>b, <2>5, <3>3
    <3> QED
      BY <2>5, <3>1, <3>4
  <2> QED
    BY <1>a, <2>1, <2>3, <2>4, <2>5, <2>6, <2>7 DEF FrameOK, Replies, TurnFrame
<1> QED
  BY <1>1, <1>2

\* The sidecar takes a frame.
LEMMA ReadsFrames ==
  ASSUME TypeOK, TypeOK', NEW t \in Turns, FrameOK(t), NEW k \in Clients, ChildReads(k)
  PROVE  FrameOK(t)'
<1> DEFINE f == Head(toChild[k])
<1>a. /\ UNCHANGED <<pc, client, known, wait>> /\ toChild[k] \in Seq(Frames) /\ toChild[k] # <<>>
      /\ toChild \in [Clients -> Seq(Frames)] /\ toChild' = [toChild EXCEPT ![k] = Tail(@)]
  BY DEF ChildReads, TypeOK, task
<1>b. /\ f \in Frames /\ f = toChild[k][1] /\ 1 \in DOMAIN toChild[k]
      /\ \A i \in DOMAIN toChild'[k] : i + 1 \in DOMAIN toChild[k] /\ toChild'[k][i] = toChild[k][i + 1]
  <2>1. toChild'[k] = Tail(toChild[k])
    BY <1>a
  <2> QED
    BY <1>a, <2>1, Taken
<1>1. Remain(k, t, 1) /\ \A l \in Clients : l # k => Remain(l, t, 0)
  <2>1. \A l \in Clients : l # k => toChild'[l] = toChild[l]
    BY <1>a
  <2> QED
    BY <1>b, <2>1, QueueRemains DEF Remain
<1>2. CASE f = TurnFrame(t)
  <2>1. /\ client[t] = k /\ ~NotSent(t)
        /\ \A j \in DOMAIN toChild[k] : toChild[k][j] = TurnFrame(t) => 1 = j
    BY <1>2, <1>b DEF FrameOK
  <2>2. ASSUME NEW l \in Clients, NEW i \in DOMAIN toChild'[l]
        PROVE  toChild'[l][i] # TurnFrame(t)
    <3>1. CASE l = k
      <4>1. DOMAIN toChild'[k] \subseteq Nat \ {0}
        <5>1. toChild'[k] \in Seq(Frames)
          BY DEF TypeOK
        <5> QED
          BY <5>1
      <4>2. i + 1 # 1
        BY <2>2, <3>1, <4>1
      <4> QED
        BY <1>b, <2>1, <2>2, <3>1, <4>2
    <3>2. CASE l # k
      <4>1. toChild'[l] = toChild[l]
        BY <1>a, <3>2
      <4> QED
        BY <2>1, <2>2, <3>2, <4>1 DEF FrameOK
    <3> QED
      BY <3>1, <3>2
  <2>3. ~NotSent(t)'
    BY <1>a, <2>1 DEF NotSent
  <2> QED
    BY <2>2, <2>3 DEF FrameOK, TurnFrame
<1>3. CASE f # TurnFrame(t)
  <2>1. f.kind = "turn" => f.turn # t
    <3>1. ASSUME f.kind = "turn", f.turn = t
          PROVE  f = TurnFrame(t)
      BY <1>b, <3>1 DEF Frames, TurnFrame
    <3> QED
      BY <1>3, <3>1
  <2>2. \A ok : Reply(f, ok) \notin Replies(t)
    <3>1. \A ok : Reply(f, ok).turn = f.turn /\ Reply(f, ok).to = f.kind
      BY DEF Reply
    <3>2. \A m \in Replies(t) : m.turn = t /\ m.to = "turn"
      BY DEF Replies
    <3> QED
      BY <2>1, <3>1, <3>2
  <2>3. Event(f.turn, "interrupted") \notin Replies(t)
    <3>1. \A m \in Replies(t) : m.to = "turn"
      BY DEF Replies
    <3>2. Event(f.turn, "interrupted").to = "none"
      BY DEF Event
    <3> QED
      BY <3>1, <3>2
  <2>4. NoReply(t)
    <3>1. CASE f.kind \in Kinds
      <4>1. f.turn \in Turns
        BY <1>b, <3>1 DEF Frames, Kinds
      <4>2. \A ok \in BOOLEAN : Reply(f, ok) \in Lines
        BY <3>1, <4>1 DEF Reply, Lines
      <4>3. Event(f.turn, "interrupted") \in Lines
        BY <4>1 DEF Event, Lines
      <4>4. \E ok \in BOOLEAN :
              Says(k, <<Reply(f, ok)>>) \/ Says(k, <<Event(f.turn, "interrupted"), Reply(f, ok)>>)
        BY <3>1 DEF ChildReads, Kinds
      <4>5. PICK ok \in BOOLEAN :
              Says(k, <<Reply(f, ok)>>) \/ Says(k, <<Event(f.turn, "interrupted"), Reply(f, ok)>>)
        BY <4>4
      <4> DEFINE a == Reply(f, ok)  b == Event(f.turn, "interrupted")
      <4>6. /\ a \in Lines /\ b \in Lines /\ a \notin Replies(t) /\ b \notin Replies(t)
            /\ (Says(k, <<a>>) \/ Says(k, <<b, a>>))
        BY <2>2, <2>3, <4>2, <4>3, <4>5
      <4> HIDE DEF a, b
      <4>7. /\ <<a>> \in Seq(Lines) /\ \A i \in DOMAIN <<a>> : <<a>>[i] = a
            /\ <<b, a>> \in Seq(Lines) /\ \A i \in DOMAIN <<b, a>> : <<b, a>>[i] \in {a, b}
        BY <4>6
      <4>8. CASE Says(k, <<a>>)
        BY <4>6, <4>7, <4>8, SaysNoReply
      <4>9. CASE Says(k, <<b, a>>)
        <5>1. \A i \in DOMAIN <<b, a>> : <<b, a>>[i] \notin Replies(t)
          BY <4>6, <4>7
        <5> QED
          BY <4>7, <4>9, <5>1, SaysNoReply
      <4> QED
        BY <4>6, <4>8, <4>9
    <3>2. CASE f.kind \notin Kinds
      <4>1. UNCHANGED fromChild
        BY <3>2 DEF ChildReads, Kinds
      <4> QED
        BY <4>1 DEF NoReply
    <3> QED
      BY <3>1, <3>2
  <2>5. \A l \in Clients : \E d \in Nat : Remain(l, t, d)
    <3>1. 1 \in Nat /\ 0 \in Nat
      OBVIOUS
    <3> QED
      BY <1>1, <3>1
  <2>6. Settles
    BY <1>a DEF Settles
  <2> QED
    BY <1>a, <2>4, <2>5, <2>6, QuietFrames
<1> QED
  BY <1>2, <1>3

\* A line is read: its reply, if it is one, was in the queue.
LEMMA LineFrames ==
  ASSUME TypeOK, TypeOK', PendingHasWaiter, NEW t \in Turns, FrameOK(t), NEW k \in Clients, ReadLine(k)
  PROVE  FrameOK(t)'
<1> DEFINE m == Head(fromChild[k])
<1>a. /\ fromChild[k] \in Seq(Lines) /\ fromChild[k] # <<>> /\ fromChild \in [Clients -> Seq(Lines)]
      /\ toChild \in [Clients -> Seq(Frames)]
      /\ wait \in [Requests -> {"none", "checked", "waiting", "ok", "failed"}]
      /\ UNCHANGED <<pc, client, known>> /\ Incoming(k, m)
      /\ fromChild' = [fromChild EXCEPT ![k] = IF reader'[k] THEN Tail(@) ELSE <<>>]
  BY DEF ReadLine, TypeOK
<1>b. Settles
  <2>1. ClientStep(k)
    BY DEF ClientStep
  <2> QED
    BY <2>1, OtherSteps
<1>c. /\ m \in Lines /\ m = fromChild[k][1] /\ 1 \in DOMAIN fromChild[k]
      /\ \A i \in DOMAIN Tail(fromChild[k]) :
           i + 1 \in DOMAIN fromChild[k] /\ Tail(fromChild[k])[i] = fromChild[k][i + 1]
  BY <1>a, Taken
<1>1. NoReply(t)
  <2>1. ASSUME NEW l \in Clients, NEW i \in DOMAIN fromChild'[l], fromChild'[l][i] \in Replies(t)
        PROVE  \E j \in DOMAIN fromChild[l] : fromChild[l][j] \in Replies(t)
    <3>1. CASE l = k /\ fromChild'[l] = Tail(fromChild[k])
      BY <1>c, <2>1, <3>1
    <3>2. CASE fromChild'[l] = <<>>
      BY <2>1, <3>2
    <3>3. CASE fromChild'[l] = fromChild[l]
      BY <2>1, <3>3
    <3> QED
      BY <1>a, <3>1, <3>2, <3>3
  <2> QED
    BY <2>1 DEF NoReply
<1>2. \A l \in Clients : \E d \in Nat : Remain(l, t, d)
  <2>1. \A l \in Clients : \/ toChild'[l] = toChild[l]
                           \/ \E f : toChild'[l] = Append(toChild[l], f) /\ f # TurnFrame(t)
    <3>1. \/ UNCHANGED toChild
          \/ toChild' = [toChild EXCEPT ![k] = Append(@, [kind |-> "reject", turn |-> m.turn])]
      BY <1>a DEF Incoming
    <3>2. [kind |-> "reject", turn |-> m.turn] # TurnFrame(t)
      BY DEF TurnFrame
    <3>3. CASE UNCHANGED toChild
      BY <3>3
    <3>4. CASE toChild' = [toChild EXCEPT ![k] = Append(@, [kind |-> "reject", turn |-> m.turn])]
      BY <1>a, <3>2, <3>4
    <3> QED
      BY <3>1, <3>3, <3>4
  <2>2. \A l \in Clients : Remain(l, t, 0)
    BY <2>1, QueueRemains
  <2> QED
    BY <2>2
<1>3. ASSUME wait[Req(t, "turn")] # "ok", wait'[Req(t, "turn")] = "ok"
      PROVE  Replied(t)
  <2>1. Req(t, "turn") \in Requests
    BY DEF Requests, Req, Kinds
  <2>2. CASE m.kind \in {"ok", "failed"}
    <3>1. m.turn = t /\ m.to = "turn"
      <4>1. \/ UNCHANGED wait
            \/ wait' = [wait EXCEPT ![Req(m.turn, m.to)] = Settled(Req(m.turn, m.to), m.kind)]
        BY <1>a, <2>2 DEF Incoming
      <4>2. Req(m.turn, m.to) = Req(t, "turn")
        BY <1>3, <1>a, <2>1, <4>1
      <4> QED
        BY <4>2 DEF Req
    <3>2. m \in Replies(t)
      BY <1>c, <2>2, <3>1 DEF Lines, Replies
    <3> QED
      BY <1>c, <3>2 DEF Replied
  <2>3. CASE m.kind \notin {"ok", "failed"}
    <3>1. UNCHANGED wait \/ MarkClosed(k)
      BY <1>a, <2>3 DEF Incoming, Close
    <3>2. wait'[Req(t, "turn")] # "ok"
      BY <1>3, <2>1, <3>1, ClosedWaits
    <3> QED
      BY <1>3, <3>2
  <2> QED
    BY <2>2, <2>3
<1> QED
  BY <1>1, <1>2, <1>3, <1>a, <1>b, QuietFrames

\* All others.
LEMMA OtherFrames ==
  ASSUME TypeOK, TypeOK', StagesOK, PendingHasWaiter, NEW t \in Turns, FrameOK(t),
         \/ \E u \in Turns : SpawnClient(u) \/ Cancel(u) \/ ChildAsks(u) \/ ChildCompletes(u)
         \/ \E r \in Requests : Expire(r)
         \/ \E k \in Clients : \/ ReadEnd(k) \/ WriterEnds(k) \/ KillChild(k) \/ ChildReaped(k)
                               \/ ChildExits(k) \/ ChildFails(k)
         \/ ShutdownBegins \/ ShutdownStep
  PROVE  FrameOK(t)'
<1>a. /\ UNCHANGED <<pc, client, known>> /\ Settles
      /\ toChild \in [Clients -> Seq(Frames)] /\ client \in [Turns -> {0} \cup Clients]
  BY SMTT(60), OtherSteps DEF ClientStep, RequestStep, TypeOK
<1>b. Req(t, "turn") \in Requests
  BY DEF Requests, Req, Kinds
<1>c. ASSUME \A k \in Clients : Remain(k, t, 0), NoReply(t),
             wait[Req(t, "turn")] = "ok" \/ wait'[Req(t, "turn")] # "ok"
      PROVE  FrameOK(t)'
  <2>1. \A k \in Clients : \E d \in Nat : Remain(k, t, d)
    BY <1>c
  <2> QED
    BY <1>a, <1>c, <2>1, QuietFrames
<1>d. /\ UNCHANGED toChild => \A k \in Clients : Remain(k, t, 0)
      /\ UNCHANGED fromChild => NoReply(t)
      /\ UNCHANGED wait => wait[Req(t, "turn")] = "ok" \/ wait'[Req(t, "turn")] # "ok"
  BY QueueRemains DEF NoReply
<1>e. ASSUME NEW k \in Clients, MarkClosed(k)
      PROVE  wait[Req(t, "turn")] = "ok" \/ wait'[Req(t, "turn")] # "ok"
  BY <1>b, <1>e, ClosedWaits
<1>1. CASE \E u \in Turns : SpawnClient(u) \/ Cancel(u)
  <2>1. UNCHANGED <<toChild, fromChild, wait>>
    BY <1>1 DEF SpawnClient, Cancel, sidecar
  <2> QED
    BY <1>c, <1>d, <2>1
<1>2. CASE \E u \in Turns : ChildAsks(u) \/ ChildCompletes(u)
  <2>1. PICK u \in Turns : ChildAsks(u) \/ ChildCompletes(u)
    BY <1>2
  <2>2. UNCHANGED <<toChild, wait>> /\ client[u] \in Clients
    BY <1>a, <2>1 DEF ChildAsks, ChildCompletes, RemoteAlive
  <2>3. PICK what \in {"request", "completed"} : Says(client[u], <<Event(u, what)>>)
    BY <2>1 DEF ChildAsks, ChildCompletes
  <2>4. /\ <<Event(u, what)>> \in Seq(Lines)
        /\ \A i \in DOMAIN <<Event(u, what)>> : <<Event(u, what)>>[i] \notin Replies(t)
    BY DEF Event, Lines, Replies
  <2>5. NoReply(t)
    BY <2>2, <2>3, <2>4, SaysNoReply
  <2> QED
    BY <1>c, <1>d, <2>2, <2>5
<1>3. CASE \E r \in Requests : Expire(r)
  <2>1. PICK r \in Requests : Expire(r)
    BY <1>3
  <2>2. UNCHANGED <<toChild, fromChild>> /\ wait' = [wait EXCEPT ![r] = Settled(r, "failed")]
    BY <2>1 DEF Expire, sidecar
  <2>3. wait[Req(t, "turn")] = "ok" \/ wait'[Req(t, "turn")] # "ok"
    BY <1>b, <2>2 DEF Settled, TypeOK
  <2> QED
    BY <1>c, <1>d, <2>2, <2>3
<1>4. ASSUME NEW k \in Clients, ReadEnd(k) \/ ChildReaped(k)
      PROVE  FrameOK(t)'
  <2>1. UNCHANGED <<toChild, fromChild>> /\ (UNCHANGED wait \/ MarkClosed(k))
    BY <1>4 DEF ReadEnd, ChildReaped, Close, sidecar
  <2> QED
    BY <1>c, <1>d, <1>e, <2>1
<1>5. ASSUME NEW k \in Clients, WriterEnds(k)
      PROVE  FrameOK(t)'
  <2>1. /\ UNCHANGED fromChild /\ (UNCHANGED wait \/ MarkClosed(k))
        /\ \/ toChild' = [toChild EXCEPT ![k] = <<>>]
           \/ \E i \in DOMAIN toChild[k] : toChild' = [toChild EXCEPT ![k] = SubSeq(@, 1, i)]
    BY <1>5 DEF WriterEnds, Close
  <2>2. \A l \in Clients : \/ toChild'[l] = toChild[l] \/ toChild'[l] = <<>>
                           \/ \E i \in DOMAIN toChild[l] : toChild'[l] = SubSeq(toChild[l], 1, i)
    BY ZenonT(60), <1>a, <2>1
  <2>3. \A l \in Clients : Remain(l, t, 0)
    BY <2>2, QueueRemains
  <2> QED
    BY <1>c, <1>d, <1>e, <2>1, <2>3
<1>6. ASSUME NEW k \in Clients, Dies(k), UNCHANGED <<fromChild, wait>>
      PROVE  FrameOK(t)'
  <2>1. \A l \in Clients : toChild'[l] = toChild[l] \/ toChild'[l] = <<>>
    BY <1>a, <1>6 DEF Dies
  <2>2. \A l \in Clients : Remain(l, t, 0)
    BY <2>1, QueueRemains
  <2> QED
    BY <1>c, <1>d, <1>6, <2>2
<1>7. ASSUME NEW k \in Clients, KillChild(k) \/ ChildExits(k) \/ ChildFails(k)
      PROVE  FrameOK(t)'
  <2>1. CASE Dies(k) /\ UNCHANGED <<fromChild, wait>>
    BY <1>6, <2>1
  <2>2. CASE Says(k, <<Event(0, "garbage")>>) /\ UNCHANGED <<toChild, wait>>
    <3>1. /\ <<Event(0, "garbage")>> \in Seq(Lines)
          /\ \A i \in DOMAIN <<Event(0, "garbage")>> : <<Event(0, "garbage")>>[i] \notin Replies(t)
      BY DEF Event, Lines, Replies
    <3>2. NoReply(t)
      BY <2>2, <3>1, SaysNoReply
    <3> QED
      BY <1>c, <1>d, <2>2, <3>2
  <2> QED
    BY <1>7, <2>1, <2>2 DEF KillChild, ChildExits, ChildFails
<1>8. CASE ShutdownBegins
  <2>1. UNCHANGED <<fromChild, wait>>
    BY <1>8 DEF ShutdownBegins
  <2>2. \A l \in Clients : \/ toChild'[l] = toChild[l]
                           \/ \E f : toChild'[l] = Append(toChild[l], f) /\ f # TurnFrame(t)
    <3>1. CloseFrame # TurnFrame(t)
      BY DEF CloseFrame, TurnFrame
    <3>2. UNCHANGED toChild \/ toChild' = [toChild EXCEPT ![current] = Append(@, CloseFrame)]
      BY <1>8 DEF ShutdownBegins
    <3> QED
      BY <1>a, <3>1, <3>2
  <2>3. \A l \in Clients : Remain(l, t, 0)
    BY <2>2, QueueRemains
  <2> QED
    BY <1>c, <1>d, <2>1, <2>3
<1>9. CASE ShutdownStep
  <2>1. UNCHANGED <<toChild, fromChild, wait>>
    BY <1>9 DEF ShutdownStep, ShutdownKills, ShutdownEnds, sidecar
  <2> QED
    BY <1>c, <1>d, <2>1
<1> QED
  BY <1>1, <1>2, <1>3, <1>4, <1>5, <1>7, <1>8, <1>9

LEMMA FramesStep ==
  ASSUME TypeOK, TypeOK', StagesOK, PendingHasWaiter, FramesOK, Next
  PROVE  FramesOK'
<1>1. ASSUME NEW t \in Turns
      PROVE  FrameOK(t)'
  <2>1. FrameOK(t)
    BY DEF FramesOK
  <2> QED
    BY <2>1, ExecuteFrames, SubmitFrames, ReadsFrames, LineFrames, OtherFrames
    DEF Next, TaskStep, ClientStep, RequestStep, ExecuteStep, EndingStep
<1> QED
  BY <1>1 DEF FramesOK

-----------------------------------------------------------------------------
(***************************************************************************)
(* Turns that have stopped                                                 *)
(***************************************************************************)
\* The frames to k stay on their way.
Stay(k) == \A i \in DOMAIN toChild[k] : \E j \in DOMAIN toChild'[k] : toChild'[k][j] = toChild[k][i]

LEMMA QueueStays ==
  ASSUME TypeOK, NEW k \in Clients,
         toChild'[k] = toChild[k] \/ \E f : toChild'[k] = Append(toChild[k], f)
  PROVE  Stay(k)
<1>1. toChild[k] \in Seq(Frames)
  BY DEF TypeOK
<1>2. CASE toChild'[k] = toChild[k]
  BY <1>2 DEF Stay
<1>3. CASE \E f : toChild'[k] = Append(toChild[k], f)
  <2>1. PICK f : toChild'[k] = Append(toChild[k], f)
    BY <1>3
  <2>2. \A i \in DOMAIN toChild[k] : i \in DOMAIN toChild'[k] /\ toChild'[k][i] = toChild[k][i]
    BY SMTT(60), <1>1, <2>1, Appended
  <2> QED
    BY <2>2 DEF Stay
<1> QED
  BY <1>2, <1>3

\* The interruption is still to be sent, or its frame is still on its way.
LEMMA StaysOnItsWay ==
  ASSUME NEW t \in Turns, InterruptionOnItsWay(t), client'[t] = client[t],
         \A kind \in {"stop", "guard"} :
           wait[Req(t, kind)] = "checked" => wait'[Req(t, kind)] = "checked",
         Stay(client[t])
  PROVE  InterruptionOnItsWay(t)'
<1>1. CASE \E kind \in {"stop", "guard"} : wait[Req(t, kind)] = "checked"
  BY <1>1 DEF InterruptionOnItsWay
<1>2. CASE \E i \in DOMAIN toChild[client[t]] :
             toChild[client[t]][i].turn = t /\ toChild[client[t]][i].kind \in {"stop", "guard"}
  <2>1. PICK i \in DOMAIN toChild[client[t]] :
          toChild[client[t]][i].turn = t /\ toChild[client[t]][i].kind \in {"stop", "guard"}
    BY <1>2
  <2>2. PICK j \in DOMAIN toChild'[client[t]] : toChild'[client[t]][j] = toChild[client[t]][i]
    BY <2>1 DEF Stay
  <2> QED
    BY <2>1, <2>2 DEF InterruptionOnItsWay
<1> QED
  BY <1>1, <1>2 DEF InterruptionOnItsWay

Stopped(t) == pc[t] \in {"stop", "ended"} /\ Live(t)

LEMMA ExecuteStops ==
  ASSUME TypeOK, StagesOK, StagesOK', StoppedTurnsOK, NEW u \in Turns, ExecuteStep(u),
         NEW t \in Turns, Stopped(t)'
  PROVE  InterruptionOnItsWay(t)'
<1>a. /\ client \in [Turns -> {0} \cup Clients] /\ known \in [Turns -> BOOLEAN]
      /\ pc \in [Turns -> {"idle", "serve", "bind", "start", "watch", "ask", "stop", "ended"}]
      /\ wait \in [Requests -> {"none", "checked", "waiting", "ok", "failed"}]
      /\ toChild \in [Clients -> Seq(Frames)] /\ StageOK(t)
      /\ {"stop", "guard"} \subseteq Kinds
  BY DEF TypeOK, StagesOK, Kinds
<1>b. /\ UNCHANGED <<conn, writer, remote>>
      /\ \A k \in Clients : toChild'[k] = toChild[k] \/ \E f : toChild'[k] = Append(toChild[k], f)
  <2>1. UNCHANGED toChild \/ \E f : toChild' = [toChild EXCEPT ![client[u]] = Append(@, f)]
    BY ExecuteQueues
  <2>2. UNCHANGED <<conn, writer, remote>>
    BY ExecuteQueues
  <2>3. CASE UNCHANGED toChild
    BY <2>2, <2>3
  <2>4. ASSUME NEW f, toChild' = [toChild EXCEPT ![client[u]] = Append(@, f)], NEW k \in Clients
        PROVE  toChild'[k] = toChild[k] \/ toChild'[k] = Append(toChild[k], f)
    BY <1>a, <2>4
  <2> QED
    BY <2>1, <2>2, <2>3, <2>4
<1>c. \A k \in Clients : Stay(k)
  BY <1>b, QueueStays
<1>d. /\ pc'[t] \in {"stop", "ended"} /\ known'[t] /\ remote[t] \in Unfinished
      /\ conn[client'[t]] = "open" /\ writer[client'[t]]
  BY <1>b DEF Stopped, Live
<1>1. ASSUME Stopped(t), client'[t] = client[t],
             \A kind \in {"stop", "guard"} :
               wait[Req(t, kind)] = "checked" => wait'[Req(t, kind)] = "checked"
      PROVE  InterruptionOnItsWay(t)'
  <2>1. InterruptionOnItsWay(t)
    BY <1>1 DEF StoppedTurnsOK, Stopped
  <2>2. client[t] \in Clients
    BY <1>1, <1>a DEF Stopped, Live, StageOK
  <2> QED
    BY <1>1, <1>c, <2>1, <2>2, StaysOnItsWay
<1>2. CASE t # u
  <2>1. /\ pc'[t] = pc[t] /\ client'[t] = client[t] /\ known'[t] = known[t]
        /\ \A kind \in Kinds : wait'[Req(t, kind)] = wait[Req(t, kind)]
    BY <1>2, OwnTurnOnly
  <2>2. Stopped(t)
    BY <1>d, <2>1 DEF Stopped, Live
  <2> QED
    BY <1>1, <1>a, <2>1, <2>2
<1>3. CASE t = u /\ EndingStep(u)
  <2>1. PICK guarding \in BOOLEAN : Ending(t, guarding)
    BY <1>3, Endings
  <2>2. client' = client /\ known[t] /\ pc[t] # "ended"
    BY <1>a, <1>d, <2>1 DEF Ending
  <2>3. armed[t] /\ wait[Req(t, "guard")] = "none"
    BY <1>a, <2>2 DEF StageOK
  <2>4. wait'[Req(t, "guard")] = IF guarding THEN "checked" ELSE wait[Req(t, "guard")]
    BY <2>1, EndedWaits DEF Ending
  <2>5. GuardFires(t)
    BY <1>d, <2>2, <2>3 DEF GuardFires
  <2>6. CASE guarding
    BY <2>4, <2>6 DEF InterruptionOnItsWay
  <2>7. CASE ~guarding
    <3>1. pc[t] = "stop" /\ wait[Req(t, "stop")] \in {"ok", "failed"}
      BY <1>d, <2>1, <2>5, <2>7 DEF Ending
    <3>2. Stopped(t)
      BY <1>d, <2>2, <3>1 DEF Stopped, Live
    <3>3. \A kind \in {"stop", "guard"} : wait[Req(t, kind)] # "checked"
      BY <2>3, <3>1
    <3> QED
      BY <1>1, <2>2, <3>2, <3>3
  <2> QED
    BY <2>6, <2>7
<1>4. CASE t = u /\ Interrupt(u)
  <2>1. client' = client /\ wait' = [wait EXCEPT ![Req(t, "stop")] = Checked(client[t])]
    BY <1>4 DEF Interrupt, Begin
  <2>2. Checked(client[t]) = "checked"
    BY <1>d, <2>1 DEF Checked
  <2>3. Req(t, "stop") \in Requests
    BY DEF Req, Requests, Kinds
  <2>4. wait'[Req(t, "stop")] = "checked"
    BY <1>a, <2>1, <2>2, <2>3
  <2> QED
    BY <2>4 DEF InterruptionOnItsWay
<1>5. CASE t = u /\ ~EndingStep(u) /\ ~Interrupt(u)
  <2>1. pc'[t] \notin {"stop", "ended"}
    BY <1>a, <1>5 DEF ExecuteStep, ExecuteTurn, Ask, UseClient, Bound, Started, Decide, Becomes
  <2> QED
    BY <1>d, <2>1
<1> QED
  BY <1>2, <1>3, <1>4, <1>5

\* A request is sent.
LEMMA SubmitStops ==
  ASSUME TypeOK, StagesOK, StoppedTurnsOK, NEW r \in Requests, Submit(r), NEW t \in Turns, Stopped(t)'
  PROVE  InterruptionOnItsWay(t)'
<1> DEFINE k == client[r.turn]
<1>a. /\ UNCHANGED <<pc, client, known, conn, writer, remote>> /\ wait[r] = "checked"
      /\ toChild \in [Clients -> Seq(Frames)]
      /\ wait \in [Requests -> {"none", "checked", "waiting", "ok", "failed"}]
      /\ client \in [Turns -> {0} \cup Clients] /\ StageOK(t)
  BY DEF Submit, TypeOK, StagesOK, task
<1>b. k \in Clients /\ r = Req(r.turn, r.kind) /\ r.turn \in Turns /\ r.kind \in Kinds
  BY <1>a, HasClient, Requesting
<1>c. Stopped(t) /\ client[t] \in Clients /\ writer[client[t]] /\ InterruptionOnItsWay(t)
  BY <1>a DEF Stopped, Live, StageOK, StoppedTurnsOK
<1>1. CASE r.turn = t /\ r.kind \in {"stop", "guard"}
  <2>1. toChild' = [toChild EXCEPT ![k] = Append(@, [kind |-> r.kind, turn |-> r.turn])]
    BY <1>c, <1>1 DEF Submit
  <2>2. toChild'[k] = Append(toChild[k], [kind |-> r.kind, turn |-> r.turn]) /\ toChild[k] \in Seq(Frames)
    BY <1>a, <1>b, <2>1
  <2>3. \E i \in DOMAIN toChild'[k] : toChild'[k][i] = [kind |-> r.kind, turn |-> r.turn]
    BY SMTT(60), <2>2, Appended
  <2>4. PICK i \in DOMAIN toChild'[k] : toChild'[k][i] = [kind |-> r.kind, turn |-> r.turn]
    BY <2>3
  <2>5. toChild'[k][i].turn = t /\ toChild'[k][i].kind \in {"stop", "guard"} /\ client'[t] = k
    BY <1>1, <1>a, <2>4
  <2> QED
    BY <2>5 DEF InterruptionOnItsWay
<1>2. CASE ~(r.turn = t /\ r.kind \in {"stop", "guard"})
  <2>1. \A kind \in {"stop", "guard"} : Req(t, kind) # r
    BY <1>2 DEF Req
  <2>2. \E w : wait' = [wait EXCEPT ![r] = w]
    BY SMTT(60) DEF Submit
  <2>3. \A kind \in {"stop", "guard"} :
          Req(t, kind) \in Requests /\ wait'[Req(t, kind)] = wait[Req(t, kind)]
    BY <1>a, <2>1, <2>2 DEF Req, Requests, Kinds
  <2>4. UNCHANGED toChild \/ toChild' = [toChild EXCEPT ![k] = Append(@, [kind |-> r.kind, turn |-> r.turn])]
    BY DEF Submit
  <2>5. \/ toChild'[client[t]] = toChild[client[t]]
        \/ \E f : toChild'[client[t]] = Append(toChild[client[t]], f)
    <3> DEFINE g == [kind |-> r.kind, turn |-> r.turn]
    <3>1. UNCHANGED toChild \/ toChild' = [toChild EXCEPT ![k] = Append(@, g)]
      BY <2>4
    <3> HIDE DEF g, k
    <3>2. \/ toChild'[client[t]] = toChild[client[t]]
          \/ toChild'[client[t]] = Append(toChild[client[t]], g)
      BY <1>a, <1>c, <3>1
    <3> QED
      BY <3>2
  <2>6. Stay(client[t])
    BY <1>c, <2>5, QueueStays
  <2> QED
    BY <1>a, <1>c, <2>3, <2>6, StaysOnItsWay
<1> QED
  BY <1>1, <1>2

\* The sidecar takes a frame: one that interrupts a remote Turn ends it.
LEMMA ReadsStops ==
  ASSUME TypeOK, StagesOK, FramesOK, StoppedTurnsOK, NEW k \in Clients, ChildReads(k),
         NEW t \in Turns, Stopped(t)'
  PROVE  InterruptionOnItsWay(t)'
<1> DEFINE f == Head(toChild[k])
<1>a. /\ UNCHANGED <<pc, client, known, wait, conn, writer>> /\ toChild[k] \in Seq(Frames) /\ toChild[k] # <<>>
      /\ toChild \in [Clients -> Seq(Frames)] /\ toChild' = [toChild EXCEPT ![k] = Tail(@)]
      /\ remote \in [Turns -> Unfinished \cup {"none", "completed", "interrupted"}]
      /\ client \in [Turns -> {0} \cup Clients] /\ StageOK(t)
  BY DEF ChildReads, TypeOK, StagesOK, task, link
<1>b. /\ f \in Frames /\ f = toChild[k][1] /\ 1 \in DOMAIN toChild[k]
      /\ DOMAIN toChild[k] = 1..Len(toChild[k]) /\ Len(toChild[k]) \in Nat
      /\ DOMAIN Tail(toChild[k]) = 1..(Len(toChild[k]) - 1)
      /\ \A i \in 1..(Len(toChild[k]) - 1) : Tail(toChild[k])[i] = toChild[k][i + 1]
  BY <1>a, Taken
<1>c. /\ pc[t] \in {"stop", "ended"} /\ known[t] /\ remote'[t] \in Unfinished /\ client[t] \in Clients
      /\ conn[client[t]] = "open" /\ writer[client[t]]
  BY <1>a DEF Stopped, Live, StageOK
<1>1. f # TurnFrame(t)
  BY <1>b, <1>c DEF FramesOK, FrameOK
<1>2. f.kind = "turn" => f.turn # t
  <2>1. ASSUME f.kind = "turn", f.turn = t
        PROVE  f = TurnFrame(t)
    BY <1>b, <2>1 DEF Frames, TurnFrame
  <2> QED
    BY <1>1, <2>1
<1>3. remote[t] \in Unfinished /\ ~(f.kind \in {"stop", "guard"} /\ f.turn = t)
  <2> HIDE DEF f
  <2>1. CASE f.kind \in {"bind", "resume", "close"}
    BY <1>c, <2>1 DEF ChildReads, f
  <2>2. CASE f.kind = "turn"
    <3>1. remote' = [remote EXCEPT ![f.turn] = "running"]
      BY <2>2 DEF ChildReads, f
    <3> QED
      BY SMTT(60), <1>a, <1>c, <1>2, <2>2, <3>1
  <2>3. CASE f.kind \in {"stop", "guard"}
    <3>1. IF remote[f.turn] \in Unfinished THEN remote' = [remote EXCEPT ![f.turn] = "interrupted"]
                                           ELSE UNCHANGED remote
      BY <2>3 DEF ChildReads, f
    <3>2. "interrupted" \notin Unfinished
      BY DEF Unfinished
    <3> QED
      BY <1>a, <1>c, <3>1, <3>2
  <2>4. CASE f.kind \in {"answer", "reject"}
    <3>1. remote' = [remote EXCEPT ![f.turn] = IF @ = "asking" THEN "resumed" ELSE @]
      BY <2>4 DEF ChildReads, f
    <3> QED
      BY SMTT(60), <1>a, <1>c, <2>4, <3>1 DEF Unfinished
  <2>5. f.kind \in {"bind", "resume", "close", "turn", "stop", "guard", "answer", "reject"}
    BY <1>b DEF Frames, Kinds
  <2> QED
    BY SMTT(60), <2>1, <2>2, <2>3, <2>4, <2>5
<1>4. InterruptionOnItsWay(t)
  BY <1>c, <1>3 DEF StoppedTurnsOK, Live
<1>5. CASE \E kind \in {"stop", "guard"} : wait[Req(t, kind)] = "checked"
  BY <1>a, <1>5 DEF InterruptionOnItsWay
<1>6. CASE \E i \in DOMAIN toChild[client[t]] :
             toChild[client[t]][i].turn = t /\ toChild[client[t]][i].kind \in {"stop", "guard"}
  <2>1. PICK i \in DOMAIN toChild[client[t]] :
          toChild[client[t]][i].turn = t /\ toChild[client[t]][i].kind \in {"stop", "guard"}
    BY <1>6
  <2>2. CASE client[t] # k
    BY <1>a, <2>1, <2>2 DEF InterruptionOnItsWay
  <2>3. CASE client[t] = k
    <3>1. i # 1
      BY <1>b, <1>3, <2>1, <2>3
    <3>2. i - 1 \in 1..(Len(toChild[k]) - 1) /\ (i - 1) + 1 = i
      BY <1>b, <2>1, <2>3, <3>1
    <3>3. i - 1 \in DOMAIN Tail(toChild[k]) /\ Tail(toChild[k])[i - 1] = toChild[k][i]
      BY <1>b, <3>2
    <3>4. client'[t] = k /\ toChild'[k] = Tail(toChild[k])
      BY <1>a, <2>3
    <3>5. /\ i - 1 \in DOMAIN toChild'[client'[t]]
          /\ toChild'[client'[t]][i - 1].turn = t
          /\ toChild'[client'[t]][i - 1].kind \in {"stop", "guard"}
      BY <2>1, <2>3, <3>3, <3>4
    <3> QED
      BY <3>5 DEF InterruptionOnItsWay
  <2> QED
    BY <2>2, <2>3
<1> QED
  BY <1>4, <1>5, <1>6 DEF InterruptionOnItsWay

\* All others.
LEMMA OtherStops ==
  ASSUME TypeOK, StagesOK, PendingHasWaiter, StoppedTurnsOK, NEW t \in Turns, Stopped(t)',
         \/ \E u \in Turns : SpawnClient(u) \/ Cancel(u) \/ ChildAsks(u) \/ ChildCompletes(u)
         \/ \E r \in Requests : Expire(r)
         \/ \E k \in Clients : ClientStep(k) \/ ChildExits(k) \/ ChildFails(k)
         \/ ShutdownBegins \/ ShutdownStep
  PROVE  InterruptionOnItsWay(t)'
<1>a. /\ UNCHANGED <<pc, client, known>> /\ StageOK(t)
      /\ toChild \in [Clients -> Seq(Frames)] /\ client \in [Turns -> {0} \cup Clients]
      /\ conn \in [Clients -> {"none", "open", "closed"}] /\ writer \in [Clients -> BOOLEAN]
      /\ remote \in [Turns -> Unfinished \cup {"none", "completed", "interrupted"}]
      /\ wait \in [Requests -> {"none", "checked", "waiting", "ok", "failed"}]
  BY OtherSteps DEF RequestStep, TypeOK, StagesOK
<1>b. /\ pc[t] \in {"stop", "ended"} /\ known[t] /\ remote'[t] \in Unfinished /\ client[t] \in Clients
      /\ conn'[client[t]] = "open" /\ writer'[client[t]]
      /\ conn[client[t]] # "none"
  BY <1>a DEF Stopped, Live, StageOK
<1>c. \A kind \in {"stop", "guard"} : Req(t, kind) \in Requests
  BY DEF Requests, Req, Kinds
<1>d. ASSUME NEW k \in Clients, MarkClosed(k)
      PROVE  /\ k # client[t] /\ conn'[client[t]] = conn[client[t]]
             /\ \A kind \in {"stop", "guard"} :
                  wait[Req(t, kind)] = "checked" => wait'[Req(t, kind)] = "checked"
  <2>1. k # client[t] /\ conn'[client[t]] = conn[client[t]]
    BY <1>a, <1>b, <1>d DEF MarkClosed
  <2>2. \A kind \in {"stop", "guard"} :
          wait[Req(t, kind)] = "checked" => wait'[Req(t, kind)] = "checked"
    BY <1>c, <1>d, ClosedWaits
  <2> QED
    BY <2>1, <2>2
<1>e. ASSUME remote[t] \in Unfinished, conn[client[t]] = "open", writer[client[t]],
             \A kind \in {"stop", "guard"} :
               wait[Req(t, kind)] = "checked" => wait'[Req(t, kind)] = "checked",
             \/ toChild'[client[t]] = toChild[client[t]]
             \/ \E f : toChild'[client[t]] = Append(toChild[client[t]], f)
      PROVE  InterruptionOnItsWay(t)'
  <2>1. InterruptionOnItsWay(t)
    BY <1>b, <1>e DEF StoppedTurnsOK, Live
  <2>2. Stay(client[t])
    BY <1>b, <1>e, QueueStays
  <2> QED
    BY <1>a, <1>e, <2>1, <2>2, StaysOnItsWay
<1>1. CASE \E u \in Turns : SpawnClient(u)
  <2>1. PICK u \in Turns, k \in Clients :
          /\ conn[k] = "none" /\ conn' = [conn EXCEPT ![k] = "open"]
          /\ writer' = [writer EXCEPT ![k] = TRUE] /\ UNCHANGED <<toChild, remote, wait>>
    BY <1>1 DEF SpawnClient
  <2> QED
    BY <1>a, <1>b, <1>e, <2>1
<1>2. CASE \E u \in Turns : Cancel(u) \/ ChildAsks(u) \/ ChildCompletes(u)
  <2>1. PICK u \in Turns : Cancel(u) \/ ChildAsks(u) \/ ChildCompletes(u)
    BY <1>2
  <2>2. UNCHANGED <<toChild, wait, conn, writer>>
    BY <2>1 DEF Cancel, ChildAsks, ChildCompletes, link, sidecar
  <2>3. remote[t] \in Unfinished
    <3>1. CASE Cancel(u)
      BY <1>b, <3>1 DEF Cancel, sidecar
    <3>2. CASE ChildAsks(u) \/ ChildCompletes(u)
      BY <1>a, <1>b, <3>2 DEF ChildAsks, ChildCompletes, RemoteAlive, Unfinished
    <3> QED
      BY <2>1, <3>1, <3>2
  <2> QED
    BY <1>b, <1>e, <2>2, <2>3
<1>3. CASE \E r \in Requests : Expire(r)
  <2>1. PICK r \in Requests : Expire(r)
    BY <1>3
  <2>2. /\ UNCHANGED <<toChild, remote, conn, writer>> /\ wait[r] = "waiting"
        /\ wait' = [wait EXCEPT ![r] = Settled(r, "failed")]
    BY <2>1 DEF Expire, sidecar
  <2>3. \A kind \in {"stop", "guard"} :
          wait[Req(t, kind)] = "checked" => wait'[Req(t, kind)] = "checked"
    BY <1>a, <1>c, <2>2
  <2> QED
    BY <1>b, <1>e, <2>2, <2>3
<1>4. ASSUME NEW k \in Clients, ReadLine(k)
      PROVE  InterruptionOnItsWay(t)'
  <2> DEFINE m == Head(fromChild[k])
  <2>1. UNCHANGED <<remote, writer>> /\ Incoming(k, m)
    BY <1>4 DEF ReadLine
  <2> HIDE DEF m
  <2>2. \/ toChild'[client[t]] = toChild[client[t]]
        \/ \E f : toChild'[client[t]] = Append(toChild[client[t]], f)
    <3> DEFINE g == [kind |-> "reject", turn |-> m.turn]
    <3>1. UNCHANGED toChild \/ toChild' = [toChild EXCEPT ![k] = Append(@, g)]
      BY <2>1 DEF Incoming
    <3> HIDE DEF g
    <3>2. \/ toChild'[client[t]] = toChild[client[t]]
          \/ toChild'[client[t]] = Append(toChild[client[t]], g)
      BY <1>a, <1>b, <3>1
    <3> QED
      BY <3>2
  <2>3. CASE m.kind \in {"ok", "failed"}
    <3> DEFINE q == Req(m.turn, m.to)
    <3>1. /\ UNCHANGED conn
          /\ \/ UNCHANGED wait
             \/ q \in pending[k] /\ \E w : wait' = [wait EXCEPT ![q] = w]
      BY <2>1, <2>3 DEF Incoming
    <3> HIDE DEF q
    <3>2. \A r \in Requests : r \in pending[k] => wait[r] = "waiting"
      BY PendingByRequest
    <3>3. \A kind \in {"stop", "guard"} :
            wait[Req(t, kind)] = "checked" => wait'[Req(t, kind)] = "checked"
      BY <1>a, <1>c, <3>1, <3>2
    <3> QED
      BY <1>b, <1>e, <2>1, <2>2, <3>1, <3>3
  <2>4. CASE m.kind \notin {"ok", "failed"}
    <3>1. UNCHANGED <<conn, wait>> \/ MarkClosed(k)
      BY <2>1, <2>4 DEF Incoming, Close
    <3>2. /\ conn'[client[t]] = conn[client[t]]
          /\ \A kind \in {"stop", "guard"} :
               wait[Req(t, kind)] = "checked" => wait'[Req(t, kind)] = "checked"
      BY <1>d, <3>1
    <3> QED
      BY <1>b, <1>e, <2>1, <2>2, <3>2
  <2> QED
    BY <2>3, <2>4
<1>5. ASSUME NEW k \in Clients, ReadEnd(k) \/ ChildReaped(k)
      PROVE  InterruptionOnItsWay(t)'
  <2>1. UNCHANGED <<toChild, remote, writer>> /\ (UNCHANGED <<conn, wait>> \/ MarkClosed(k))
    BY <1>5 DEF ReadEnd, ChildReaped, Close, sidecar
  <2>2. /\ conn'[client[t]] = conn[client[t]]
        /\ \A kind \in {"stop", "guard"} :
             wait[Req(t, kind)] = "checked" => wait'[Req(t, kind)] = "checked"
    BY <1>d, <2>1
  <2> QED
    BY <1>b, <1>e, <2>1, <2>2
<1>6. ASSUME NEW k \in Clients, WriterEnds(k)
      PROVE  InterruptionOnItsWay(t)'
  <2>1. /\ UNCHANGED remote /\ (UNCHANGED <<conn, wait>> \/ MarkClosed(k))
        /\ writer' = [writer EXCEPT ![k] = FALSE]
        /\ \E q : toChild' = [toChild EXCEPT ![k] = q]
    BY <1>6 DEF WriterEnds, Close
  <2>2. /\ conn'[client[t]] = conn[client[t]]
        /\ \A kind \in {"stop", "guard"} :
             wait[Req(t, kind)] = "checked" => wait'[Req(t, kind)] = "checked"
    BY <1>d, <2>1
  <2>3. k # client[t] /\ writer'[client[t]] = writer[client[t]] /\ toChild'[client[t]] = toChild[client[t]]
    BY <1>a, <1>b, <2>1
  <2> QED
    BY <1>b, <1>e, <2>1, <2>2, <2>3
<1>7. ASSUME NEW k \in Clients, KillChild(k) \/ ChildExits(k) \/ ChildFails(k)
      PROVE  InterruptionOnItsWay(t)'
  <2>1. UNCHANGED <<conn, writer, wait>> /\ (Dies(k) \/ UNCHANGED <<toChild, remote>>)
    BY <1>7 DEF KillChild, ChildExits, ChildFails, link
  <2>2. CASE Dies(k)
    <3>1. client[t] # k /\ remote'[t] = remote[t]
      BY <1>a, <1>b, <2>2 DEF Dies, Unfinished
    <3>2. toChild'[client[t]] = toChild[client[t]]
      BY <1>a, <1>b, <2>2, <3>1 DEF Dies
    <3> QED
      BY <1>b, <1>e, <2>1, <3>1, <3>2
  <2>3. CASE UNCHANGED <<toChild, remote>>
    BY <1>b, <1>e, <2>1, <2>3
  <2> QED
    BY <2>1, <2>2, <2>3
<1>8. CASE ShutdownBegins \/ ShutdownStep
  <2>1. UNCHANGED <<conn, writer, wait, remote>>
    BY <1>8 DEF ShutdownBegins, ShutdownStep, ShutdownKills, ShutdownEnds, link, sidecar
  <2>2. UNCHANGED toChild \/ toChild' = [toChild EXCEPT ![current] = Append(@, CloseFrame)]
    BY <1>8 DEF ShutdownBegins, ShutdownStep, ShutdownKills, ShutdownEnds, sidecar
  <2>3. \/ toChild'[client[t]] = toChild[client[t]]
        \/ toChild'[client[t]] = Append(toChild[client[t]], CloseFrame)
    BY <1>a, <1>b, <2>2
  <2> QED
    BY <1>b, <1>e, <2>1, <2>3
<1> QED
  BY <1>1, <1>2, <1>3, <1>4, <1>5, <1>6, <1>7, <1>8 DEF ClientStep

LEMMA StoppedStep ==
  ASSUME TypeOK, StagesOK, StagesOK', FramesOK, PendingHasWaiter, StoppedTurnsOK, Next
  PROVE  StoppedTurnsOK'
<1>1. ASSUME NEW t \in Turns, Stopped(t)'
      PROVE  InterruptionOnItsWay(t)'
  BY <1>1, ExecuteStops, SubmitStops, ReadsStops, OtherStops
  DEF Next, TaskStep, RequestStep, ExecuteStep, EndingStep
<1> QED
  BY <1>1 DEF StoppedTurnsOK, Stopped

-----------------------------------------------------------------------------
(***************************************************************************)
(* The invariant and what follows from it                                  *)
(***************************************************************************)
LEMMA InvInit == Init => Inv
<1> SUFFICES ASSUME Init
             PROVE  Inv
  OBVIOUS
<1>1. \A t \in Turns, kind \in Kinds : Req(t, kind) \in Requests
  BY Requesting
<1>2. <<>> \in Seq(Frames) /\ <<>> \in Seq(Lines)
  OBVIOUS
<1>3. TypeOK
  <2>1. ServiceTypes /\ LinkTypes /\ SidecarTypes
    BY <1>2 DEF Init, ServiceTypes, LinkTypes, SidecarTypes
  <2>2. TaskTypes /\ faults \in 0..MaxFaults
    BY BoundsAssumption DEF Init, TaskTypes
  <2>3. WaitTypes
    BY <1>1 DEF Init, WaitTypes, Kinds
  <2> QED
    BY <2>1, <2>2, <2>3, TypeParts
<1>4. StagesOK
  BY <1>1 DEF Init, StagesOK, StageOK, Kinds
<1>5. FramesOK
  BY DEF Init, FramesOK, FrameOK
<1>6. StoppedTurnsOK
  BY DEF Init, StoppedTurnsOK
<1>7. PendingHasWaiter /\ ClosedFreesWaiters
  BY DEF Init, PendingHasWaiter, ClosedFreesWaiters
<1> QED
  BY <1>3, <1>4, <1>5, <1>6, <1>7 DEF Inv

LEMMA InvStep == Inv /\ [Next]_vars => Inv'
<1> SUFFICES ASSUME Inv, [Next]_vars
             PROVE  Inv'
  OBVIOUS
<1>1. CASE Next
  <2>1. TypeOK'
    BY <1>1, TypesStep DEF Inv
  <2>2. StagesOK'
    BY <1>1, StagesStep DEF Inv
  <2>3. PendingHasWaiter'
    BY <1>1, <2>1, PendingStep DEF Inv
  <2>4. FramesOK'
    BY <1>1, <2>1, FramesStep DEF Inv
  <2>5. StoppedTurnsOK'
    BY <1>1, <2>2, StoppedStep DEF Inv
  <2>6. ClosedFreesWaiters'
    BY <1>1, FreedStep DEF Inv
  <2> QED
    BY <2>1, <2>2, <2>3, <2>4, <2>5, <2>6 DEF Inv
<1>2. CASE UNCHANGED vars
  <2>1. UNCHANGED <<service, link, sidecar, task, wait, faults>>
    BY <1>2 DEF vars
  <2>2. TypeOK'
    BY <2>1, TypeParts, TypesSame, TypePartsNext DEF Inv
  <2>3. StagesOK'
    BY <2>1 DEF Inv, StagesOK, StageOK, task, link
  <2>4. FramesOK'
    BY <2>1 DEF Inv, FramesOK, FrameOK, NotSent, task, sidecar
  <2>5. StoppedTurnsOK'
    BY <2>1 DEF Inv, StoppedTurnsOK, Live, InterruptionOnItsWay, task, link, sidecar
  <2>6. PendingHasWaiter' /\ ClosedFreesWaiters'
    BY <2>1 DEF Inv, PendingHasWaiter, ClosedFreesWaiters, Lost, task, link, service
  <2> QED
    BY <2>2, <2>3, <2>4, <2>5, <2>6 DEF Inv
<1> QED
  BY <1>1, <1>2

LEMMA InvHolds == Spec => []Inv
  BY InvInit, InvStep, PTL DEF Spec

\* A request has an entry in the pending map of its client exactly while its
\* future waits, whatever times out, is dropped or is lost (PendingGuard); the
\* close of a client frees every request in its map, and only one that entered
\* behind it waits on (mark_closed, request_value_with_timeout).
THEOREM RequestsStayTracked == Spec => []RequestsAreTracked
<1>1. Inv => RequestsAreTracked
  BY DEF Inv, RequestsAreTracked
<1> QED
  BY <1>1, InvHolds, PTL

\* However execute ends, a remote Turn whose id it had received is interrupted
\* unless it has ended, as long as the sidecar can be written to
\* (CodexTurnGuard::drop and the cancelled branch of execute).
THEOREM EndedTurnsAreInterrupted == Spec => []EndedTurnIsInterrupted
<1>1. Inv => EndedTurnIsInterrupted
  BY DEF Inv, StoppedTurnsOK, Live, EndedTurnIsInterrupted
<1> QED
  BY <1>1, InvHolds, PTL
=============================================================================
