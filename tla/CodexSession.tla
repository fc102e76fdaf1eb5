---------------------------- MODULE CodexSession ----------------------------
(***************************************************************************)
(* The Codex backend and its sidecar: CodexService owns one client at a    *)
(* time, the client multiplexes requests over the pipes of a child         *)
(* process, and each Codex Turn binds its Thread, starts a remote Turn,    *)
(* follows its events, forwards its approvals and interrupts it            *)
(* (crates/kody-app-server/src/codex_backend.rs and codex/client.rs).      *)
(*                                                                         *)
(* Clients are numbered in the order they are spawned.  A remote Turn has  *)
(* the name of its Kody Turn; it asks for at most one approval.  Request   *)
(* ids are the Turn and the kind of request, each sent at most once.       *)
(* Deltas and items of a Turn change nothing that is modelled.  The queue  *)
(* to the child and its stdin are one FIFO; the child is external.         *)
(***************************************************************************)
EXTENDS Naturals, SequencesExt

CONSTANTS
  Turns,       \* Kody Turns with provider codex
  Askers,      \* those whose remote Turn may ask for an approval
  Cancellable, \* bound: those a client may cancel
  Threads,     \* their Threads
  MaxClients,  \* bound: sidecars spawned
  MaxFaults    \* bound: deaths and garbage of a sidecar, lagging receivers, store errors
               \* and shutdowns of the service

ASSUME TurnsAssumption == Askers \subseteq Turns /\ Cancellable \subseteq Turns
ASSUME BoundsAssumption == MaxClients \in Nat \ {0} /\ MaxFaults \in Nat

Clients  == 1..MaxClients
Kinds    == {"bind", "resume", "turn", "stop", "guard"}
Requests == [turn : Turns, kind : Kinds]
Req(t, kind) == [turn |-> t, kind |-> kind]

\* What goes to the child, and the lines it writes
Frames == [kind : Kinds \cup {"answer", "reject"}, turn : Turns] \cup [kind : {"close"}, turn : {0}]
Lines  ==
  [kind : {"ok", "failed"}, turn : Turns, to : Kinds]
    \cup [kind : {"completed", "interrupted", "request"}, turn : Turns, to : {"none"}]
    \cup [kind : {"garbage"}, turn : {0}, to : {"none"}]

VARIABLES
  current,    \* the client of the service, 0 for none
  binding,    \* per Thread: the client that made its remote Thread, 0 for none
  halting,    \* CodexService::shutdown: "no" | "waiting" | "done", and its client
  conn,       \* per client: "none" | "open" | "closed" (mark_closed has run)
  killing,    \* its shutdown token was cancelled without mark_closed
  writer,     \* its writer loop accepts frames
  reader,     \* its stdout loop runs
  pending,    \* requests with a sender in the pending map
  incoming,   \* Turns whose server request is not answered yet
  child,      \* the process: "none" | "alive" | "dead"
  toChild,    \* frames on their way to it
  fromChild,  \* lines it has written
  remote,     \* remote Turn: "none" | "running" | "asking" | "resumed" (after an answer) | ends
  pc,         \* stage of CodexService::execute
  home,       \* Thread of the Turn
  client,     \* client it uses, 0 before it has one
  cancelled,  \* its token has fired
  armed,      \* its CodexTurnGuard interrupts when dropped
  known,      \* history: the id of the remote Turn was received and the Turn has not completed
  inbox,      \* terminal notification in its receiver
  question,   \* server request in its receiver
  wait,       \* state of each request's future
  late,       \* history: requests entered after mark_closed had drained the map
  faults

service == <<current, binding, halting, late>>
link    == <<conn, killing, writer, reader, pending, incoming>>
sidecar == <<child, toChild, fromChild, remote>>
task    == <<pc, home, client, cancelled, armed, known, inbox, question>>
vars    == <<service, link, sidecar, task, wait, faults>>

Init ==
  /\ current = 0 /\ binding = [h \in Threads |-> 0]
  /\ halting = [at |-> "no", client |-> 0]
  /\ conn = [k \in Clients |-> "none"] /\ child = [k \in Clients |-> "none"]
  /\ killing = [k \in Clients |-> FALSE]
  /\ writer = [k \in Clients |-> FALSE] /\ reader = [k \in Clients |-> FALSE]
  /\ pending = [k \in Clients |-> {}] /\ incoming = [k \in Clients |-> {}]
  /\ toChild = [k \in Clients |-> <<>>] /\ fromChild = [k \in Clients |-> <<>>]
  /\ remote = [t \in Turns |-> "none"]
  /\ pc = [t \in Turns |-> "idle"] /\ home \in [Turns -> Threads]
  /\ client = [t \in Turns |-> 0] /\ cancelled = [t \in Turns |-> FALSE]
  /\ armed = [t \in Turns |-> FALSE] /\ known = [t \in Turns |-> FALSE]
  /\ inbox = [t \in Turns |-> "none"] /\ question = [t \in Turns |-> FALSE]
  /\ wait = [r \in Requests |-> "none"] /\ late = {}
  /\ faults = 0

Fault == faults < MaxFaults /\ faults' = faults + 1

\* Stages in which execute holds its two broadcast receivers.
Subscribed(t) == pc[t] \in {"start", "watch", "ask", "stop"}
Running(t)    == pc[t] \notin {"idle", "ended"}

-----------------------------------------------------------------------------
(***************************************************************************)
(* ClientInner::mark_closed, the first time: waiters are told, open server *)
(* requests forgotten, the shutdown token cancelled.                       *)
(***************************************************************************)

\* What becomes of the future of a request; nobody looks at a guard's.
Settled(r, how) == IF r.kind = "guard" THEN "none" ELSE how

\* Mutant: mark_closed leaves the map as it is.
DrainNothing(k) == UNCHANGED <<wait, pending>>

\* The map is drained, and each sender in it is told.
TellWaiters(k) ==
  /\ wait' = [r \in Requests |-> IF r \in pending[k] THEN Settled(r, "failed") ELSE wait[r]]
  /\ pending' = [pending EXCEPT ![k] = {}]

MarkClosed(k) ==
  /\ conn' = [conn EXCEPT ![k] = "closed"]
  /\ TellWaiters(k)
  /\ incoming' = [incoming EXCEPT ![k] = {}]

Close(k) == IF conn[k] = "open" THEN MarkClosed(k) ELSE UNCHANGED <<conn, wait, pending, incoming>>

(***************************************************************************)
(* request_value_with_timeout                                              *)
(***************************************************************************)
\* The check of closed, before the entry is made.
Checked(k) == IF conn[k] = "open" THEN "checked" ELSE "failed"

\* The entry is made and the frame queued; closed is not looked at again.  A
\* writer that is gone refuses it and PendingGuard removes the entry again.
Submit(r) ==
  LET k == client[r.turn] IN
  /\ wait[r] = "checked"
  /\ IF writer[k]
       THEN /\ pending' = [pending EXCEPT ![k] = @ \cup {r}]
            /\ toChild' = [toChild EXCEPT ![k] =
                 Append(@, [kind |-> r.kind, turn |-> r.turn])]
            /\ wait' = [wait EXCEPT ![r] = "waiting"]
            /\ late' = IF conn[k] = "closed" THEN late \cup {r} ELSE late
       ELSE /\ wait' = [wait EXCEPT ![r] = Settled(r, "failed")]
            /\ UNCHANGED <<pending, toChild, late>>
  /\ UNCHANGED <<current, binding, halting, conn, killing, writer, reader, incoming, child,
                 fromChild, remote, task, faults>>

\* The deadline passes: PendingGuard removes the entry.
Expire(r) ==
  /\ wait[r] = "waiting"
  /\ wait' = [wait EXCEPT ![r] = Settled(r, "failed")]
  /\ pending' = [pending EXCEPT ![client[r.turn]] = @ \ {r}]
  /\ UNCHANGED <<service, conn, killing, writer, reader, incoming, sidecar, task, faults>>

Refused(r) == wait[r] = "failed"

-----------------------------------------------------------------------------
(***************************************************************************)
(* CodexService::client and bind_thread                                    *)
(***************************************************************************)
Becomes(t, stage) == pc' = [pc EXCEPT ![t] = stage]
Begin(t, kind, k) == wait' = [wait EXCEPT ![Req(t, kind)] = Checked(k)]

\* A Thread runs one Turn at a time.
ExecuteTurn(t) ==
  /\ pc[t] = "idle"
  /\ \A u \in Turns \ {t} : home[u] = home[t] => ~Running(u)
  /\ Becomes(t, "serve")
  /\ UNCHANGED <<service, link, sidecar, home, client, cancelled, armed, known, inbox,
                 question, wait, faults>>

InService == current # 0 /\ conn[current] = "open"

UseClient(t) ==
  /\ pc[t] = "serve" /\ InService
  /\ client' = [client EXCEPT ![t] = current]
  /\ Becomes(t, "bind")
  /\ Begin(t, IF binding[home[t]] = 0 THEN "bind" ELSE "resume", current)
  /\ UNCHANGED <<service, link, sidecar, home, cancelled, armed, known, inbox, question, faults>>

DropBindings == binding' = [h \in Threads |-> 0]

\* discover_and_spawn succeeds: a new client, and bindings start afresh.
SpawnClient(t) ==
  /\ pc[t] = "serve" /\ ~InService
  /\ \E k \in Clients :
       /\ conn[k] = "none" /\ \A j \in 1..k - 1 : conn[j] # "none"
       /\ current' = k
       /\ conn' = [conn EXCEPT ![k] = "open"] /\ child' = [child EXCEPT ![k] = "alive"]
       /\ writer' = [writer EXCEPT ![k] = TRUE] /\ reader' = [reader EXCEPT ![k] = TRUE]
  /\ DropBindings
  /\ UNCHANGED <<halting, late, killing, pending, incoming, toChild, fromChild, remote, task,
                 wait, faults>>

\* Requests that belong to the future of execute.
Own(t) == {Req(t, kind) : kind \in {"bind", "resume", "turn", "stop"}}

\* CodexTurnGuard::drop spawns an interrupt.
GuardFires(t) == armed[t] /\ conn[client[t]] = "open"

\* execute returns or its future is dropped: the entries of its requests, its
\* receivers and its guard go with it.
EndWith(t, guarding) ==
  /\ Becomes(t, "ended")
  /\ cancelled' = [cancelled EXCEPT ![t] = FALSE]
  /\ armed' = [armed EXCEPT ![t] = FALSE]
  /\ inbox' = [inbox EXCEPT ![t] = "none"] /\ question' = [question EXCEPT ![t] = FALSE]
  /\ wait' = [r \in Requests |-> IF r \in Own(t) THEN "none"
                                 ELSE IF guarding /\ r = Req(t, "guard") THEN "checked" ELSE wait[r]]
  /\ pending' = [k \in Clients |-> pending[k] \ Own(t)]

End(t) == EndWith(t, GuardFires(t))

Ends(t) ==
  /\ End(t)
  /\ UNCHANGED <<service, conn, killing, writer, reader, incoming, sidecar, home, client, known>>

SpawnFails(t) == pc[t] = "serve" /\ ~InService /\ Ends(t) /\ UNCHANGED faults

\* thread/start or thread/resume was answered.  Only the former binds; then
\* execute subscribes and sends turn/start.
Bound(t) ==
  /\ pc[t] = "bind"
  /\ \E kind \in {"bind", "resume"} :
       /\ wait[Req(t, kind)] = "ok"
       /\ binding' = IF kind = "bind" THEN [binding EXCEPT ![home[t]] = client[t]] ELSE binding
       /\ wait' = [wait EXCEPT ![Req(t, kind)] = "none", ![Req(t, "turn")] = Checked(client[t])]
  /\ Becomes(t, "start")
  /\ UNCHANGED <<current, halting, late, link, sidecar, home, client, cancelled, armed, known,
                 inbox, question, faults>>

RequestFails(t) ==
  /\ \/ pc[t] = "bind" /\ (Refused(Req(t, "bind")) \/ Refused(Req(t, "resume")))
     \/ pc[t] = "start" /\ Refused(Req(t, "turn"))
  /\ Ends(t) /\ UNCHANGED faults

\* The prompt or an artifact cannot be read, or a receiver lagged behind.
ExecuteFails(t) ==
  /\ pc[t] \in {"start", "watch"} /\ Fault
  /\ pc[t] = "start" => wait[Req(t, "turn")] = "checked"
  /\ Ends(t)

-----------------------------------------------------------------------------
(***************************************************************************)
(* The remote Turn as execute sees it                                      *)
(***************************************************************************)
Started(t) ==
  /\ pc[t] = "start" /\ wait[Req(t, "turn")] = "ok" /\ ~cancelled[t]
  /\ known' = [known EXCEPT ![t] = TRUE] /\ armed' = [armed EXCEPT ![t] = TRUE]
  /\ wait' = [wait EXCEPT ![Req(t, "turn")] = "none"]
  /\ Becomes(t, "watch")
  /\ UNCHANGED <<service, link, sidecar, home, client, cancelled, inbox, question, faults>>

\* handle_server_request registers an approval (or a question).
Ask(t) ==
  /\ pc[t] = "watch" /\ ~cancelled[t] /\ question[t]
  /\ question' = [question EXCEPT ![t] = FALSE]
  /\ Becomes(t, "ask")
  /\ UNCHANGED <<service, link, sidecar, home, client, cancelled, armed, known, inbox, wait, faults>>

\* The id is still in incoming_requests.
Unanswered(t, k) == t \in incoming[k]

\* respond_server_request and reject_server_request, when the id is open.
Answer(t, k, what) ==
  /\ incoming' = [incoming EXCEPT ![k] = @ \ {t}]
  /\ toChild' = [toChild EXCEPT ![k] = Append(@, [kind |-> what, turn |-> t])]

\* The user decides.  An id that is no longer open, or a writer that is gone,
\* fails the Turn.
Decide(t) ==
  LET k == client[t] IN
  /\ pc[t] = "ask" /\ ~cancelled[t]
  /\ \/ /\ Unanswered(t, k) /\ writer[k]
        /\ Answer(t, k, "answer")
        /\ Becomes(t, "watch")
        /\ UNCHANGED <<pending, wait, cancelled, armed, inbox, question>>
     \/ /\ ~(Unanswered(t, k) /\ writer[k])
        /\ incoming' = [incoming EXCEPT ![k] = @ \ {t}]
        /\ End(t) /\ UNCHANGED toChild
  /\ UNCHANGED <<service, conn, killing, writer, reader, child, fromChild, remote,
                 home, client, known, faults>>

\* turn/completed: a completed Turn disarms its guard, others end in an error.
Notice(t) ==
  /\ pc[t] = "watch" /\ ~cancelled[t] /\ ~question[t] /\ inbox[t] # "none"
  /\ IF inbox[t] = "completed"
       THEN EndWith(t, FALSE) /\ known' = [known EXCEPT ![t] = FALSE]
       ELSE End(t) /\ UNCHANGED known
  /\ UNCHANGED <<service, conn, killing, writer, reader, incoming, sidecar, home, client, faults>>

Cancel(t) ==
  /\ t \in Cancellable /\ Running(t) /\ ~cancelled[t]
  /\ cancelled' = [cancelled EXCEPT ![t] = TRUE]
  /\ UNCHANGED <<service, link, sidecar, pc, home, client, armed, known, inbox, question,
                 wait, faults>>

\* The runtime drops the future of execute when the token fires.
DropFuture(t) ==
  /\ Running(t) /\ cancelled[t]
  /\ Ends(t) /\ UNCHANGED faults

\* Mutant: the guard is disarmed before the interruption is sent.
DisarmFirst(t) == armed' = [armed EXCEPT ![t] = FALSE]

StayArmed(t) == UNCHANGED armed

\* execute's own branch: it sends turn/interrupt and waits for the answer.
Interrupt(t) ==
  /\ pc[t] = "watch" /\ cancelled[t]
  /\ Becomes(t, "stop") /\ Begin(t, "stop", client[t])
  /\ StayArmed(t)
  /\ UNCHANGED <<service, link, sidecar, home, client, cancelled, known, inbox, question, faults>>

Interrupted(t) ==
  /\ pc[t] = "stop"
  /\ wait[Req(t, "stop")] = "ok" \/ Refused(Req(t, "stop"))
  /\ EndWith(t, FALSE)
  /\ UNCHANGED <<service, conn, killing, writer, reader, incoming, sidecar, home, client, known, faults>>

\* Cancelled while the user is asked: the server request is rejected.
AskCancelled(t) ==
  LET k == client[t] IN
  /\ pc[t] = "ask" /\ cancelled[t]
  /\ IF Unanswered(t, k) /\ writer[k] THEN Answer(t, k, "reject")
     ELSE incoming' = [incoming EXCEPT ![k] = @ \ {t}] /\ UNCHANGED toChild
  /\ End(t)
  /\ UNCHANGED <<service, conn, killing, writer, reader, child, fromChild, remote,
                 home, client, known, faults>>

-----------------------------------------------------------------------------
(***************************************************************************)
(* The sidecar.  It works a frame at a time, may ask for one approval and  *)
(* may die, write garbage or ignore the end of its input.                  *)
(***************************************************************************)
\* A line it writes is lost when nobody reads its output any more.
Says(k, lines) == fromChild' = [fromChild EXCEPT ![k] = IF reader[k] THEN @ \o lines ELSE <<>>]
Reply(f, ok)   == [kind |-> IF ok THEN "ok" ELSE "failed", turn |-> f.turn, to |-> f.kind]
Event(t, what) == [kind |-> what, turn |-> t, to |-> "none"]

Unfinished == {"running", "asking", "resumed"}

\* The process is gone with its remote Turns; what it wrote can still be read.
Dies(k) ==
  /\ child' = [child EXCEPT ![k] = "dead"]
  /\ toChild' = [toChild EXCEPT ![k] = <<>>]
  /\ remote' = [t \in Turns |-> IF client[t] = k THEN "none" ELSE remote[t]]

ChildReads(k) ==
  /\ child[k] = "alive" /\ toChild[k] # <<>>
  /\ writer[k] => Head(toChild[k]).kind # "close"
  /\ toChild' = [toChild EXCEPT ![k] = Tail(@)]
  /\ LET f == Head(toChild[k]) IN
     \/ /\ f.kind \in {"bind", "resume"}
        /\ \E ok \in {TRUE, f.kind = "bind"} : Says(k, <<Reply(f, ok)>>)
        /\ UNCHANGED <<child, remote>>
     \/ /\ f.kind = "turn"
        /\ remote' = [remote EXCEPT ![f.turn] = "running"]
        /\ Says(k, <<Reply(f, TRUE)>>)
        /\ UNCHANGED child
     \/ /\ f.kind \in {"stop", "guard"}
        /\ IF remote[f.turn] \in Unfinished
             THEN /\ remote' = [remote EXCEPT ![f.turn] = "interrupted"]
                  /\ Says(k, <<Event(f.turn, "interrupted"), Reply(f, TRUE)>>)
             ELSE Says(k, <<Reply(f, FALSE)>>) /\ UNCHANGED remote
        /\ UNCHANGED child
     \/ /\ f.kind \in {"answer", "reject"}
        /\ remote' = [remote EXCEPT ![f.turn] = IF @ = "asking" THEN "resumed" ELSE @]
        /\ UNCHANGED <<child, fromChild>>
     \/ f.kind = "close" /\ UNCHANGED <<child, fromChild, remote>>
  /\ UNCHANGED <<service, link, task, wait, faults>>

RemoteAlive(t) == client[t] # 0 /\ child[client[t]] = "alive" /\ remote[t] \in {"running", "resumed"}

ChildAsks(t) ==
  /\ RemoteAlive(t) /\ t \in Askers /\ remote[t] = "running"
  /\ remote' = [remote EXCEPT ![t] = "asking"]
  /\ Says(client[t], <<Event(t, "request")>>)
  /\ UNCHANGED <<service, link, child, toChild, task, wait, faults>>

ChildCompletes(t) ==
  /\ RemoteAlive(t)
  /\ remote' = [remote EXCEPT ![t] = "completed"]
  /\ Says(client[t], <<Event(t, "completed")>>)
  /\ UNCHANGED <<service, link, child, toChild, task, wait, faults>>

\* It exits when its input has ended.
ChildExits(k) ==
  /\ child[k] = "alive" /\ ~writer[k] /\ toChild[k] # <<>> /\ Head(toChild[k]).kind = "close"
  /\ Dies(k)
  /\ UNCHANGED <<service, link, fromChild, task, wait, faults>>

ChildFails(k) ==
  /\ child[k] = "alive" /\ Fault
  /\ \/ Dies(k) /\ UNCHANGED fromChild
     \/ Says(k, <<Event(0, "garbage")>>) /\ UNCHANGED <<child, toChild, remote>>
  /\ UNCHANGED <<service, link, task, wait>>

-----------------------------------------------------------------------------
(***************************************************************************)
(* The tasks of the client: stdout_loop, writer_loop and supervise_child   *)
(***************************************************************************)
\* Mutant: execute subscribes when turn/start has been answered.
HearsAfterStart(t) == pc[t] \in {"watch", "ask", "stop"}

\* The receivers of execute exist.
Hears(t) == Subscribed(t)

Listeners(k) == {t \in Turns : Subscribed(t) /\ client[t] = k}

\* The broadcast has no receiver at all.
Nobody(k) == Listeners(k) = {}

\* handle_incoming.
Incoming(k, m) ==
  \/ /\ m.kind \in {"ok", "failed"}
     /\ LET r == Req(m.turn, m.to) IN
        IF r \in pending[k]
          THEN /\ wait' = [wait EXCEPT ![r] = Settled(r, m.kind)]
               /\ pending' = [pending EXCEPT ![k] = @ \ {r}]
          ELSE UNCHANGED <<wait, pending>>
     /\ UNCHANGED <<conn, reader, incoming, toChild, inbox, question>>
  \/ /\ m.kind \in {"completed", "interrupted"}
     /\ inbox' = IF Hears(m.turn) THEN [inbox EXCEPT ![m.turn] = m.kind] ELSE inbox
     /\ UNCHANGED <<conn, reader, pending, incoming, toChild, question, wait>>
  \/ /\ m.kind = "request"
     /\ IF ~Nobody(k)
          THEN /\ incoming' = [incoming EXCEPT ![k] = @ \cup {m.turn}]
               /\ question' = IF Hears(m.turn) THEN [question EXCEPT ![m.turn] = TRUE] ELSE question
               /\ UNCHANGED <<conn, toChild, pending, wait>>
          ELSE /\ UNCHANGED question
               /\ IF writer[k]
                    THEN /\ toChild' = [toChild EXCEPT ![k] =
                              Append(@, [kind |-> "reject", turn |-> m.turn])]
                         /\ UNCHANGED <<conn, incoming, pending, wait>>
                    ELSE Close(k) /\ UNCHANGED toChild
     /\ UNCHANGED <<reader, inbox>>
  \/ /\ m.kind = "garbage"
     /\ Close(k)
     /\ reader' = [reader EXCEPT ![k] = FALSE]
     /\ UNCHANGED <<toChild, inbox, question>>

ReadLine(k) ==
  /\ reader[k] /\ fromChild[k] # <<>>
  /\ Incoming(k, Head(fromChild[k]))
  /\ fromChild' = [fromChild EXCEPT ![k] = IF reader'[k] THEN Tail(@) ELSE <<>>]
  /\ UNCHANGED <<service, killing, writer, child, remote, pc, home, client, cancelled,
                 armed, known, faults>>

Graceful(k) == halting.client = k

\* stdout ends: unexpected unless shutdown has asked for it.
ReadEnd(k) ==
  /\ reader[k] /\ fromChild[k] = <<>> /\ child[k] = "dead"
  /\ reader' = [reader EXCEPT ![k] = FALSE]
  /\ IF Graceful(k) THEN UNCHANGED <<conn, wait, pending, incoming>> ELSE Close(k)
  /\ UNCHANGED <<service, killing, writer, sidecar, task, faults>>

CloseFrame == [kind |-> "close", turn |-> 0]

\* The writer takes the Close, and what is queued behind it is never written;
\* it sees the shutdown token; or it fails to write to a dead child.
WriterEnds(k) ==
  /\ writer[k]
  /\ writer' = [writer EXCEPT ![k] = FALSE]
  /\ \/ /\ child[k] = "alive"
        /\ \E i \in DOMAIN toChild[k] :
             toChild[k][i] = CloseFrame /\ toChild' = [toChild EXCEPT ![k] = SubSeq(@, 1, i)]
        /\ UNCHANGED <<conn, wait, pending, incoming>>
     \/ /\ conn[k] = "closed" \/ killing[k]
        /\ toChild' = [toChild EXCEPT ![k] = <<>>]
        /\ UNCHANGED <<conn, wait, pending, incoming>>
     \/ /\ child[k] = "dead" /\ toChild[k] # <<>>
        /\ toChild' = [toChild EXCEPT ![k] = <<>>]
        /\ Close(k)
  /\ UNCHANGED <<service, killing, reader, child, fromChild, remote, task, faults>>

\* Mutant: a closed transport leaves the child to itself.
KillOnShutdown(k) == killing[k]

\* The shutdown token has fired: supervise_child kills.
MustKill(k) == conn[k] = "closed" \/ killing[k]

KillChild(k) ==
  /\ child[k] = "alive" /\ MustKill(k)
  /\ Dies(k)
  /\ UNCHANGED <<service, link, fromChild, task, wait, faults>>

ChildReaped(k) ==
  /\ child[k] = "dead" /\ conn[k] = "open"
  /\ MarkClosed(k)
  /\ UNCHANGED <<service, killing, writer, reader, sidecar, task, faults>>

-----------------------------------------------------------------------------
(***************************************************************************)
(* CodexService::shutdown                                                  *)
(***************************************************************************)
\* The client is taken; an open one gets a Close behind the queued frames.
ShutdownBegins ==
  /\ halting.at = "no" /\ current # 0 /\ Fault
  /\ current' = 0
  /\ halting' = [at |-> "waiting", client |-> current]
  /\ toChild' = IF conn[current] = "open" /\ writer[current]
                  THEN [toChild EXCEPT ![current] = Append(@, CloseFrame)] ELSE toChild
  /\ UNCHANGED <<binding, late, conn, killing, writer, reader, pending, incoming, child, fromChild,
                 remote, task, wait>>

CancelToken(k) == killing' = [killing EXCEPT ![k] = TRUE]

\* The child did not exit in time; shutdown waits for it no longer than that
\* time once more.
ShutdownKills ==
  /\ halting.at = "waiting" /\ conn[halting.client] = "open"
  /\ CancelToken(halting.client)
  /\ halting' = [halting EXCEPT !.at = "done"]
  /\ DropBindings
  /\ UNCHANGED <<current, late, conn, writer, reader, pending, incoming, sidecar, task, wait, faults>>

\* It has exited.
ShutdownEnds ==
  /\ halting.at = "waiting" /\ conn[halting.client] = "closed"
  /\ halting' = [halting EXCEPT !.at = "done"]
  /\ DropBindings
  /\ UNCHANGED <<current, late, link, sidecar, task, wait, faults>>

-----------------------------------------------------------------------------
RequestStep(r) == Submit(r) \/ Expire(r)

TaskStep(t) ==
  \/ UseClient(t) \/ SpawnClient(t) \/ SpawnFails(t) \/ Bound(t) \/ RequestFails(t) \/ Started(t)
  \/ Ask(t) \/ Notice(t) \/ DropFuture(t) \/ Interrupt(t) \/ Interrupted(t) \/ AskCancelled(t)

ClientStep(k) == ReadLine(k) \/ ReadEnd(k) \/ WriterEnds(k) \/ KillChild(k) \/ ChildReaped(k)

ShutdownStep == ShutdownKills \/ ShutdownEnds

Next ==
  \/ \E t \in Turns : \/ ExecuteTurn(t) \/ TaskStep(t) \/ ExecuteFails(t) \/ Decide(t) \/ Cancel(t)
                      \/ ChildAsks(t) \/ ChildCompletes(t)
  \/ \E r \in Requests : RequestStep(r)
  \/ \E k \in Clients : ClientStep(k) \/ ChildReads(k) \/ ChildExits(k) \/ ChildFails(k)
  \/ ShutdownBegins \/ ShutdownStep

Spec == Init /\ [][Next]_vars

\* What the runtime polls and times out by itself, without the sidecar, the
\* user or a new Turn.
ServerStep ==
  \/ \E t \in Turns : TaskStep(t)
  \/ \E r \in Requests : RequestStep(r)
  \/ \E k \in Clients : ClientStep(k)
  \/ ShutdownStep

-----------------------------------------------------------------------------
(***************************************************************************)
(* Properties                                                              *)
(***************************************************************************)
\* Every variable holds a value of its type; the future of a guard's request
\* is forgotten when it settles (CodexTurnGuard::drop ignores the result).
TypeOK ==
  /\ current \in {0} \cup Clients /\ binding \in [Threads -> {0} \cup Clients]
  /\ halting \in [at : {"no", "waiting", "done"}, client : {0} \cup Clients]
  /\ conn \in [Clients -> {"none", "open", "closed"}]
  /\ child \in [Clients -> {"none", "alive", "dead"}]
  /\ killing \in [Clients -> BOOLEAN] /\ writer \in [Clients -> BOOLEAN] /\ reader \in [Clients -> BOOLEAN]
  /\ pending \in [Clients -> SUBSET Requests] /\ incoming \in [Clients -> SUBSET Turns]
  /\ toChild \in [Clients -> Seq(Frames)] /\ fromChild \in [Clients -> Seq(Lines)]
  /\ remote \in [Turns -> Unfinished \cup {"none", "completed", "interrupted"}]
  /\ pc \in [Turns -> {"idle", "serve", "bind", "start", "watch", "ask", "stop", "ended"}]
  /\ home \in [Turns -> Threads] /\ client \in [Turns -> {0} \cup Clients]
  /\ cancelled \in [Turns -> BOOLEAN] /\ armed \in [Turns -> BOOLEAN]
  /\ known \in [Turns -> BOOLEAN] /\ question \in [Turns -> BOOLEAN]
  /\ inbox \in [Turns -> {"none", "completed", "interrupted"}]
  /\ wait \in [Requests -> {"none", "checked", "waiting", "ok", "failed"}]
  /\ \A t \in Turns : wait[Req(t, "guard")] \notin {"ok", "failed"}
  /\ late \subseteq Requests
  /\ faults \in 0..MaxFaults

\* A request has an entry in the pending map of its client exactly while its
\* future waits: a timeout, a dropped Turn, a refused frame, the response and
\* the end of the transport each remove both (PendingGuard, mark_closed), so
\* a late response finds nobody.
PendingHasWaiter ==
  \A k \in Clients : pending[k] = {r \in Requests : wait[r] = "waiting" /\ client[r.turn] = k}

\* The transport of the Turn's client is closed.
Lost(t) == client[t] # 0 /\ conn[client[t]] = "closed"

\* Whoever waited when the transport closed is told.  A future that waits on a
\* closed client is one that passed the check of closed in time and entered the
\* map behind mark_closed; it waits for its deadline (request_value_with_timeout).
ClosedFreesWaiters ==
  \A r \in Requests : wait[r] = "waiting" /\ Lost(r.turn) => r \in late

\* The interruption of a remote Turn is about to be sent or on its way.
InterruptionOnItsWay(t) ==
  \/ \E kind \in {"stop", "guard"} : wait[Req(t, kind)] = "checked"
  \/ \E i \in DOMAIN toChild[client[t]] :
       LET f == toChild[client[t]][i] IN f.turn = t /\ f.kind \in {"stop", "guard"}

\* However execute ends, by cancellation, an error, a dropped future or a
\* failed answer, a remote Turn whose id it had received is interrupted unless
\* it has ended, as long as the sidecar can be written to.
EndedTurnIsInterrupted ==
  \A t \in Turns :
    (/\ pc[t] = "ended" /\ known[t] /\ remote[t] \in Unfinished
     /\ conn[client[t]] = "open" /\ writer[client[t]]) => InterruptionOnItsWay(t)

\* The answer to its request for approval is on its way.
AnswerSent(t) == \E i \in DOMAIN toChild[client[t]] :
  toChild[client[t]][i].turn = t /\ toChild[client[t]][i].kind = "answer"

(***************************************************************************)
(* Progress.  A Turn, a request, a client and a shutdown pass each of      *)
(* their stages once, so ServerStep is taken finitely often between two    *)
(* steps of the others; what the server owes must be done when it has      *)
(* nothing left to do, which is when it no longer acts.                    *)
(***************************************************************************)
Acts == ENABLED ServerStep

\* A request for approval that arrives while its Turn runs, even before the
\* answer to turn/start, reaches the user, unless the Turn ends or the sidecar
\* is lost (execute subscribes before it sends turn/start).
RequestReachesUser ==
  \/ \A t \in Turns : Running(t) /\ remote[t] = "asking" => pc[t] = "ask" \/ Lost(t) \/ AnswerSent(t)
  \/ Acts

\* A Turn ends once its remote Turn has, also when the notification arrives
\* before the answer to turn/start, unless the sidecar is lost.
RemoteEndEndsTurn ==
  (\A t \in Turns : Running(t) /\ remote[t] = "completed" => Lost(t)) \/ Acts

\* A client whose transport is closed, by garbage, a failed write or the end
\* of its output, does not leave its process behind (supervise_child).
ClosedSidecarDies == (\A k \in Clients : conn[k] = "closed" => child[k] = "dead") \/ Acts

\* shutdown ends the sidecar even when it ignores the end of its input.
ShutdownStopsSidecar ==
  halting.client = 0 \/ (halting.at = "done" /\ child[halting.client] = "dead") \/ Acts

\* Requests are tracked from both ends, what is dropped is forgotten, and the
\* end of the transport reaches every request that was on it.
RequestsAreTracked == TypeOK /\ PendingHasWaiter /\ ClosedFreesWaiters

\* While a Turn is followed nothing the sidecar asks or reports of it is lost.
TurnHearsSidecar == RequestReachesUser /\ RemoteEndEndsTurn

\* No end of a connection leaves the sidecar running.
SidecarDies == ClosedSidecarDies /\ ShutdownStopsSidecar
=============================================================================
