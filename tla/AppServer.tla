------------------------------- MODULE AppServer -------------------------------
(***************************************************************************)
(* The app server around the runtime: the calls that make Threads and      *)
(* start Turns, the idempotency window of thread/create-and-start, the     *)
(* WebSocket sessions that follow the event stream, automatic titles and   *)
(* the barrier of shutdown (crates/kody-app-server/src/rpc.rs, server.rs,  *)
(* main.rs; crates/kody-core/src/event.rs, title.rs and the title task of  *)
(* runtime.rs).                                                            *)
(*                                                                         *)
(* A call makes at most one Turn, which has the call's name, and one       *)
(* Thread, which has it too.  Of the events of a Turn its first and its    *)
(* last are modelled; how a Turn runs is module TurnRuntime.               *)
(***************************************************************************)
EXTENDS Naturals, SequencesExt

CONSTANTS
  Calls,     \* calls of clients
  Sessions,  \* WebSocket connections
  HTTP,      \* the other transport
  Ids,       \* client_request_ids
  Bodies,    \* the parameters of create-and-start, as their fingerprint
  Scripts,   \* what each call asks for and over which transport: functions on Calls
  Capacity,  \* records of the idempotency window
  Buffer,    \* capacity of the broadcast channel
  Default,   \* the title "New thread"
  Given,     \* a title the maker of a Thread gave it
  MaxFaults  \* bound: failed store calls, dropped requests, sessions that end, unsubscribes

\* create-and-start and thread/create; turn/start, thread/reference/add and
\* thread/get, each on a Thread
Asks ==
  [kind : {"create"}, id : Ids, body : Bodies, via : Sessions \cup {HTTP}]
    \cup [kind : {"thread"}, title : {Default, Given}, via : Sessions \cup {HTTP}]
    \cup [kind : {"start", "refer"}, thread : Calls, via : Sessions \cup {HTTP}]
    \cup [kind : {"get"}, thread : Calls, via : Sessions]

ASSUME ScriptsAssumption ==
  /\ HTTP \notin Sessions /\ Default \notin Calls /\ Given \notin Calls \cup {Default}
  /\ Scripts \subseteq [Calls -> Asks]
ASSUME BoundsAssumption ==
  Capacity \in Nat \ {0} /\ Buffer \in Nat \ {0} /\ MaxFaults \in Nat

Events == [turn : Calls, what : {"started", "ended"}]

VARIABLES
  ask,        \* the script
  stage,      \* how far each call is
  lock,       \* calls holding the mutex of create_requests
  cache,      \* CreateRequestCache in insertion order
  threads,    \* Threads in the store
  turn,       \* status of each Turn
  turns,      \* Turns in the order they were created
  active,     \* Turns in TurnManager::active
  task,       \* the spawned task of each Turn
  title,      \* title of each Thread: Default, Given, or the Turn it was made from
  copy,       \* the title in the snapshot thread/reference/add has of its Thread
  titling,    \* the title task of each Turn
  open,       \* sessions that run
  subs,       \* Threads a session is subscribed to
  queue,      \* events in its receiver
  lagged,     \* events its receiver lost and has not reported yet
  told,       \* history: events of Threads it follows that a server/event_gap stood for
  seen,       \* history: events its client was sent, finds in a snapshot, or did not ask for
  published,  \* events published so far
  barrier,    \* cancel_all_and_wait
  woken,      \* its Notified future has been notified
  held,       \* history: Turns it cancelled
  lost,       \* history: request ids evicted, or whose call was dropped, was not rolled
              \* back, or made its Turn and then failed
  faults

calls   == <<ask, stage, lock, cache, lost>>
store   == <<threads, turn, turns, title, copy>>
manager == <<active, task, titling>>
session == <<open, subs, queue, lagged, told, seen, published>>
closing == <<barrier, woken, held>>
vars    == <<calls, store, manager, session, closing, faults>>

Init ==
  /\ ask \in Scripts
  /\ stage = [c \in Calls |-> "idle"] /\ lock = {} /\ cache = <<>> /\ lost = {}
  /\ threads = {} /\ turn = [c \in Calls |-> "none"] /\ turns = <<>>
  /\ title = [c \in Calls |-> Default] /\ copy = [c \in Calls |-> Default]
  /\ titling = [c \in Calls |-> "none"]
  /\ active = {} /\ task = [c \in Calls |-> "none"]
  /\ open = Sessions /\ subs = [s \in Sessions |-> {}] /\ queue = [s \in Sessions |-> <<>>]
  /\ published = {}
  /\ lagged = [s \in Sessions |-> {}] /\ told = lagged /\ seen = lagged
  /\ barrier = "no" /\ woken = FALSE /\ held = {}
  /\ faults = 0

Fault == faults < MaxFaults /\ faults' = faults + 1

Over       == {"answered", "failed", "dropped"}
Serving(s) == \E c \in Calls : ask[c].via = s /\ stage[c] \notin Over \cup {"idle"}
Makes(c)   == ask[c].kind \in {"create", "thread"}
Home(c)    == IF Makes(c) THEN c ELSE ask[c].thread
Moves(c, where) == stage' = [stage EXCEPT ![c] = where]
Past(h)    == {e \in published : Home(e.turn) = h}
Busy(h)    == \E c \in Calls : turn[c] \in {"queued", "running"} /\ Home(c) = h

\* A session ends and its receiver and subscriptions with it.
Leave(s) ==
  /\ open' = open \ {s} /\ subs' = [subs EXCEPT ![s] = {}]
  /\ queue' = [queue EXCEPT ![s] = <<>>] /\ lagged' = [lagged EXCEPT ![s] = {}]
  /\ told' = [told EXCEPT ![s] = {}] /\ seen' = [seen EXCEPT ![s] = {}]
  /\ UNCHANGED published

\* A session handles one request at a time and no event meanwhile.
Arrives(c, kind) ==
  /\ stage[c] = "idle" /\ ask[c].kind = kind
  /\ ask[c].via # HTTP => ask[c].via \in open /\ ~Serving(ask[c].via)

-----------------------------------------------------------------------------
(***************************************************************************)
(* thread/create-and-start                                                 *)
(***************************************************************************)
Record(c)   == [id |-> ask[c].id, body |-> ask[c].body, thread |-> c]
Known(id)   == {record \in Range(cache) : record.id = id}

\* Mutant: the mutex is held for the look-up only.
LookedUp == TRUE

LockIsFree == lock = {}

\* The session that asked is subscribed to the Thread it is answered with.
Subscribe(c, h) ==
  subs' = [s \in Sessions |-> IF s = ask[c].via THEN subs[s] \cup {h} ELSE subs[s]]

\* The mutex is taken, and a request id in the window is answered from it, or
\* refused when it came with other parameters or the store cannot be read.
CreateAndStart(c) ==
  /\ Arrives(c, "create") /\ LockIsFree
  /\ \/ /\ Known(ask[c].id) = {}
        /\ lock' = lock \cup {c} /\ Moves(c, "creating")
        /\ UNCHANGED <<subs, seen, faults>>
     \/ \E record \in Known(ask[c].id) :
          /\ record.body = ask[c].body
          /\ Moves(c, "answered") /\ Subscribe(c, record.thread)
          /\ seen' = [s \in Sessions |-> IF s = ask[c].via
                        THEN seen[s] \cup Past(record.thread) ELSE seen[s]]
          /\ UNCHANGED <<lock, faults>>
     \/ /\ \E record \in Known(ask[c].id) :
             IF record.body = ask[c].body THEN Fault ELSE UNCHANGED faults
        /\ Moves(c, "failed") /\ UNCHANGED <<lock, subs, seen>>
  /\ UNCHANGED <<ask, cache, lost, store, manager, open, queue, lagged, told, published, closing>>

\* create_thread stores the Thread and its Workspace, or nothing.
CreateThread(c) ==
  /\ stage[c] = "creating"
  /\ \/ threads' = threads \cup {c} /\ Moves(c, "preparing") /\ UNCHANGED <<lock, faults>>
     \/ Fault /\ Moves(c, "failed") /\ lock' = lock \ {c} /\ UNCHANGED threads
  /\ UNCHANGED <<ask, cache, lost, turn, turns, title, copy, manager, session, closing>>

\* prepare_turn stores a queued Turn; a Thread takes one at a time.
Prepare(c) ==
  /\ stage[c] = "preparing" /\ ~Busy(Home(c))
  /\ turn' = [turn EXCEPT ![c] = "queued"] /\ turns' = Append(turns, c)
  /\ Moves(c, "registering")
  /\ UNCHANGED <<ask, lock, cache, lost, threads, title, copy, manager, session, closing, faults>>

PrepareFails(c) ==
  /\ stage[c] = "preparing"
  /\ Moves(c, IF ask[c].kind = "create" THEN "undoing" ELSE "failed")
  /\ UNCHANGED <<ask, lock, cache, lost, store, manager, session, closing, faults>>

Undone(c) == threads \ {c}

\* The new Thread is deleted again; an error of that is ignored.
Undo(c) ==
  /\ stage[c] = "undoing"
  /\ \/ threads' = Undone(c) /\ UNCHANGED <<lost, faults>>
     \/ Fault /\ lost' = lost \cup {ask[c].id} /\ UNCHANGED threads
  /\ lock' = lock \ {c} /\ Moves(c, "failed")
  /\ UNCHANGED <<ask, cache, turn, turns, title, copy, manager, session, closing>>

\* The Turn has a token from here on.  turn/start launches it at once.
Register(c) ==
  /\ stage[c] = "registering"
  /\ active' = active \cup {c}
  /\ IF ask[c].kind = "create"
       THEN Moves(c, "recording") /\ UNCHANGED task
       ELSE Moves(c, "answered") /\ task' = [task EXCEPT ![c] = "running"]
  /\ UNCHANGED <<ask, lock, cache, lost, store, titling, session, closing, faults>>

\* CreateRequestCache::insert drops the oldest record of a full window.
Kept == IF Len(cache) >= Capacity THEN Tail(cache) ELSE cache

\* The record is inserted and the mutex released.  Over HTTP the Turn is
\* launched in the same breath, over a WebSocket behind the response.  What
\* another call made of the Thread so far the client did not ask for.
Remember(c) ==
  /\ stage[c] = "recording"
  /\ cache' = Append(Kept, Record(c))
  /\ lost' = lost \cup {r.id : r \in Range(cache) \ Range(Kept)}
  /\ lock' = lock \ {c}
  /\ Subscribe(c, c)
  /\ seen' = [s \in Sessions |->
       IF s = ask[c].via THEN seen[s] \cup {e \in Past(c) : e.turn # c} ELSE seen[s]]
  /\ IF ask[c].via = HTTP
       THEN Moves(c, "answered") /\ task' = [task EXCEPT ![c] = "running"]
       ELSE Moves(c, "sending") /\ UNCHANGED task
  /\ UNCHANGED <<ask, store, active, titling, open, queue, lagged, told, published,
                 closing, faults>>

\* hydrate_create_response reads what was made; when a read fails the call is
\* over, without a record and with nobody to launch its Turn.
HydrateFails(c) ==
  /\ stage[c] = "recording"
  /\ Fault
  /\ lost' = lost \cup {ask[c].id} /\ lock' = lock \ {c} /\ Moves(c, "failed")
  /\ UNCHANGED <<ask, cache, store, manager, session, closing>>

\* Mutant: a session that cannot send its answer ends there and then.
LaunchIfSent(c, sent) == IF sent THEN [task EXCEPT ![c] = "running"] ELSE task

Launch(c, sent) == [task EXCEPT ![c] = "running"]

\* The response is sent or its client is gone; either way the Turn is launched.
Respond(c) ==
  /\ stage[c] = "sending"
  /\ \E sent \in BOOLEAN :
       /\ task' = Launch(c, sent)
       /\ IF sent THEN UNCHANGED <<session, faults>> ELSE Fault /\ Leave(ask[c].via)
  /\ Moves(c, "answered")
  /\ UNCHANGED <<ask, lock, cache, lost, store, active, titling, closing>>

\* An HTTP client is gone and its call is dropped where it waits.
Drop(c) ==
  /\ ask[c].via = HTTP /\ stage[c] \in {"creating", "preparing", "undoing", "registering", "recording",
                                       "referring"}
  /\ Fault
  /\ Moves(c, "dropped") /\ lock' = lock \ {c}
  /\ lost' = IF ask[c].kind = "create" THEN lost \cup {ask[c].id} ELSE lost
  /\ UNCHANGED <<ask, cache, store, manager, session, closing>>

-----------------------------------------------------------------------------
(***************************************************************************)
(* thread/create, and the calls on an existing Thread.  turn/start and     *)
(* thread/get subscribe the session at once.                               *)
(***************************************************************************)
NewThread(c) ==
  /\ Arrives(c, "thread")
  /\ \/ /\ threads' = threads \cup {c} /\ title' = [title EXCEPT ![c] = ask[c].title]
        /\ Moves(c, "answered") /\ UNCHANGED faults
     \/ Fault /\ Moves(c, "failed") /\ UNCHANGED <<threads, title>>
  /\ UNCHANGED <<ask, lock, cache, lost, turn, turns, copy, manager, session, closing>>

\* add_default_reference takes a snapshot of an Idle Thread; one that has the
\* reference already is left alone.
AddReference(c) ==
  /\ Arrives(c, "refer") /\ Home(c) \in threads
  /\ \/ Busy(Home(c)) /\ Moves(c, "failed") /\ UNCHANGED copy
     \/ ~Busy(Home(c)) /\ Moves(c, "answered") /\ UNCHANGED copy
     \/ /\ ~Busy(Home(c)) /\ Moves(c, "referring")
        /\ copy' = [copy EXCEPT ![c] = title[Home(c)]]
  /\ UNCHANGED <<ask, lock, cache, lost, threads, turn, turns, title, manager, session, closing,
                 faults>>

\* update_thread puts the whole snapshot back, its title too, unless the Thread
\* is gone or its status is another by now.
UpdateThread(c) ==
  /\ stage[c] = "referring"
  /\ \/ /\ Home(c) \in threads /\ ~Busy(Home(c))
        /\ title' = [title EXCEPT ![Home(c)] = copy[c]]
        /\ Moves(c, "answered") /\ UNCHANGED faults
     \/ /\ Home(c) \notin threads \/ Busy(Home(c))
        /\ Moves(c, "failed") /\ UNCHANGED <<title, faults>>
     \/ Fault /\ Moves(c, "failed") /\ UNCHANGED title
  /\ UNCHANGED <<ask, lock, cache, lost, threads, turn, turns, copy, manager, session, closing>>

StartTurn(c) ==
  /\ Arrives(c, "start") /\ ask[c].thread \in threads
  /\ Subscribe(c, ask[c].thread)
  /\ seen' = [s \in Sessions |->
       IF s = ask[c].via THEN seen[s] \cup Past(ask[c].thread) ELSE seen[s]]
  /\ Moves(c, "preparing")
  /\ UNCHANGED <<ask, lock, cache, lost, store, manager, open, queue, lagged, told, published,
                 closing, faults>>

GetThread(c) ==
  /\ Arrives(c, "get") /\ ask[c].thread \in threads
  /\ Subscribe(c, ask[c].thread)
  /\ Moves(c, "reading")
  /\ UNCHANGED <<ask, lock, cache, lost, store, manager, open, queue, lagged, told, seen, published,
                 closing, faults>>

Snapshot(c) ==
  /\ stage[c] = "reading"
  /\ seen' = [seen EXCEPT ![ask[c].via] = @ \cup Past(ask[c].thread)]
  /\ Moves(c, "answered")
  /\ UNCHANGED <<ask, lock, cache, lost, store, manager, open, subs, queue, lagged, told, published,
                 closing, faults>>

-----------------------------------------------------------------------------
(***************************************************************************)
(* Events                                                                  *)
(***************************************************************************)
\* Every receiver gets the event; a full one loses its oldest.
Publish(e) ==
  /\ published' = published \cup {e}
  /\ queue' = [s \in Sessions |->
       IF s \notin open THEN <<>>
       ELSE Append(IF Len(queue[s]) >= Buffer THEN Tail(queue[s]) ELSE queue[s], e)]
  /\ lagged' = [s \in Sessions |->
       IF s \in open /\ Len(queue[s]) >= Buffer THEN lagged[s] \cup {Head(queue[s])} ELSE lagged[s]]

\* Mutant: lag is logged and not reported.
LogOnly(s) == told

Report(s) == [told EXCEPT ![s] = @ \cup {e \in lagged[s] : Home(e.turn) \in subs[s]}]

\* The session learns that it lagged before it sees another event.
Gap(s) ==
  /\ s \in open /\ lagged[s] # {} /\ ~Serving(s)
  /\ lagged' = [lagged EXCEPT ![s] = {}] /\ told' = Report(s)
  /\ UNCHANGED <<calls, store, manager, open, subs, queue, seen, published, closing, faults>>

\* Events of Threads it is not subscribed to are skipped.
Deliver(s) ==
  /\ s \in open /\ lagged[s] = {} /\ ~Serving(s) /\ queue[s] # <<>>
  /\ LET e == Head(queue[s]) IN
     seen' = IF Home(e.turn) \in subs[s] THEN [seen EXCEPT ![s] = @ \cup {e}] ELSE seen
  /\ queue' = [queue EXCEPT ![s] = Tail(@)]
  /\ UNCHANGED <<calls, store, manager, open, subs, lagged, told, published, closing, faults>>

Unsubscribe(s, h) ==
  /\ s \in open /\ ~Serving(s) /\ h \in subs[s]
  /\ Fault
  /\ subs' = [subs EXCEPT ![s] = @ \ {h}]
  /\ UNCHANGED <<calls, store, manager, open, queue, lagged, told, seen, published, closing>>

HangUp(s) ==
  /\ s \in open /\ ~Serving(s)
  /\ Fault
  /\ Leave(s)
  /\ UNCHANGED <<calls, store, manager, closing>>

-----------------------------------------------------------------------------
(***************************************************************************)
(* The task of a Turn (execute_prepared)                                   *)
(***************************************************************************)
\* It claims its Turn, cancelled or not, and publishes TurnStarted.
Begins(c) ==
  /\ task[c] = "running" /\ turn[c] = "queued"
  /\ turn' = [turn EXCEPT ![c] = "running"]
  /\ Publish([turn |-> c, what |-> "started"])
  /\ UNCHANGED <<calls, threads, turns, title, copy, manager, open, subs, told, seen, closing,
                 faults>>

\* Its status is stored, its Thread Idle, its last event published.  One that
\* completes has a task of its own make the title.
Ends(c) ==
  /\ task[c] = "running" /\ turn[c] = "running"
  /\ \/ /\ turn' = [turn EXCEPT ![c] = "completed"]
        /\ titling' = [titling EXCEPT ![c] = "reading"]
     \/ turn' = [turn EXCEPT ![c] = "ended"] /\ UNCHANGED titling
  /\ Publish([turn |-> c, what |-> "ended"])
  /\ UNCHANGED <<calls, threads, turns, title, copy, active, task, open, subs, told, seen,
                 closing, faults>>

Finished(c) == task[c] = "running" /\ turn[c] \in {"completed", "ended"}

Unregister(c) ==
  /\ Finished(c)
  /\ active' = active \ {c}
  /\ task' = [task EXCEPT ![c] = "notifying"]
  /\ UNCHANGED <<calls, store, titling, session, closing, faults>>

Notify(c) ==
  /\ task[c] = "notifying"
  /\ task' = [task EXCEPT ![c] = "gone"]
  /\ woken' = (woken \/ barrier \in {"armed", "going", "waiting"})
  /\ UNCHANGED <<calls, store, active, titling, session, barrier, held, faults>>

(***************************************************************************)
(* generate_first_completed_turn_title                                     *)
(***************************************************************************)
Before(c, d) == \E i, j \in DOMAIN turns : i < j /\ turns[i] = c /\ turns[j] = d

FirstCompleted(c) ==
  /\ turn[c] = "completed"
  /\ \A d \in Calls : Home(d) = Home(c) /\ Before(d, c) => turn[d] # "completed"

\* Mutant: any completed Turn of an untitled Thread will do.
Untitled(c) == title[Home(c)] = Default

MayTitle(c) == title[Home(c)] = Default /\ FirstCompleted(c)

ReadTitle(c) ==
  /\ titling[c] = "reading"
  /\ titling' = [titling EXCEPT ![c] = IF MayTitle(c) THEN "making" ELSE "none"]
  /\ UNCHANGED <<calls, store, active, task, session, closing, faults>>

\* The generator has a title, which goes in if the Thread still has none; it
\* has none to offer, or the store fails.
WriteTitle(c) ==
  /\ titling[c] = "making"
  /\ \/ title' = [title EXCEPT ![Home(c)] = IF @ = Default THEN c ELSE @]
     \/ UNCHANGED title
  /\ titling' = [titling EXCEPT ![c] = "none"]
  /\ UNCHANGED <<calls, threads, turn, turns, copy, active, task, session, closing, faults>>

-----------------------------------------------------------------------------
(***************************************************************************)
(* cancel_all_and_wait.  Calls go on meanwhile.                            *)
(***************************************************************************)
Shutdown ==
  /\ barrier = "no"
  /\ held' = active
  /\ barrier' = "looping"
  /\ UNCHANGED <<calls, store, active, task, titling, session, woken, faults>>

\* The Notified future is made before active is looked at, and hears every
\* notify_waiters from then on.
Arm ==
  /\ barrier = "looping"
  /\ barrier' = "armed" /\ woken' = FALSE
  /\ UNCHANGED <<calls, store, manager, session, held, faults>>

Look ==
  /\ barrier = "armed"
  /\ barrier' = IF active = {} THEN "clear" ELSE "going"
  /\ UNCHANGED <<calls, store, manager, session, woken, held, faults>>

\* Mutant: the future is made when the barrier goes to sleep.
HeardFromNow == woken' = FALSE

StillHeard == UNCHANGED woken

Sleep ==
  /\ barrier = "going"
  /\ barrier' = "waiting"
  /\ StillHeard
  /\ UNCHANGED <<calls, store, manager, session, held, faults>>

Wakes ==
  /\ barrier = "waiting" /\ woken
  /\ barrier' = "looping"
  /\ UNCHANGED <<calls, store, manager, session, woken, held, faults>>

TimesOut ==
  /\ barrier = "waiting"
  /\ barrier' = IF active = {} THEN "clear" ELSE "late"
  /\ UNCHANGED <<calls, store, manager, session, woken, held, faults>>

Next ==
  \/ \E c \in Calls :
       \/ CreateAndStart(c) \/ CreateThread(c) \/ Prepare(c) \/ PrepareFails(c) \/ Undo(c)
       \/ Register(c) \/ Remember(c) \/ HydrateFails(c) \/ Respond(c) \/ Drop(c)
       \/ NewThread(c) \/ AddReference(c) \/ UpdateThread(c) \/ StartTurn(c) \/ GetThread(c) \/ Snapshot(c)
       \/ Begins(c) \/ Ends(c) \/ Unregister(c) \/ Notify(c)
       \/ ReadTitle(c) \/ WriteTitle(c)
  \/ \E s \in Sessions : Gap(s) \/ Deliver(s) \/ HangUp(s) \/ \E h \in Calls : Unsubscribe(s, h)
  \/ Shutdown \/ Arm \/ Look \/ Sleep \/ Wakes \/ TimesOut

Spec == Init /\ [][Next]_vars
-----------------------------------------------------------------------------
(***************************************************************************)
(* Properties                                                              *)
(***************************************************************************)
Stages ==
  Over \cup {"idle", "creating", "preparing", "undoing", "registering", "recording", "sending",
            "referring", "reading"}

\* The state has its type, and the idempotency window stays within its capacity.
TypeOK ==
  /\ ask \in Scripts /\ stage \in [Calls -> Stages] /\ lock \subseteq Calls /\ lost \subseteq Ids
  /\ cache \in Seq([id : Ids, body : Bodies, thread : Calls]) /\ Len(cache) <= Capacity
  /\ threads \subseteq Calls /\ turns \in Seq(Calls) /\ IsInjective(turns)
  /\ turn \in [Calls -> {"none", "queued", "running", "completed", "ended"}]
  /\ title \in [Calls -> Calls \cup {Default, Given}]
  /\ copy \in [Calls -> Calls \cup {Default, Given}]
  /\ titling \in [Calls -> {"none", "reading", "making"}]
  /\ active \subseteq Calls
  /\ task \in [Calls -> {"none", "running", "notifying", "gone"}]
  /\ open \subseteq Sessions /\ subs \in [Sessions -> SUBSET Calls]
  /\ queue \in [Sessions -> Seq(published)] /\ \A s \in Sessions : Len(queue[s]) <= Buffer
  /\ published \subseteq Events
  /\ lagged \in [Sessions -> SUBSET published] /\ told \in [Sessions -> SUBSET published]
  /\ seen \in [Sessions -> SUBSET published]
  /\ barrier \in {"no", "looping", "armed", "going", "waiting", "clear", "late"} /\ woken \in BOOLEAN
  /\ held \subseteq Calls /\ faults \in 0..MaxFaults

\* A create-and-start that is sent again, over either transport and while the
\* first is still on its way, makes no second Thread, as long as its request id
\* was not evicted from the window, and no call with that id was dropped, could
\* not undo its Thread, or could not read back what it had made.
Created == {c \in threads : ask[c].kind = "create"}

OneThreadPerRequest ==
  \A c, d \in Created : ask[c].id = ask[d].id /\ c # d => ask[c].id \in lost

\* A create-and-start that returns an error leaves no Thread behind, or the
\* deletion of the Thread or the reading of its answer failed.
FailedCreateLeavesNothing ==
  \A c \in Created : stage[c] = "failed" => ask[c].id \in lost

\* A Turn that was prepared is executed, also when the client that asked for it
\* is gone before the answer: nobody else would, and its Thread stays Running.
\* The exceptions are a dropped HTTP request, and a create-and-start that fails
\* although its Turn is there: its answer could not be read from the store.
PreparedTurnRuns ==
  \A c \in Calls : turn[c] = "queued" =>
    \/ task[c] = "running"
    \/ stage[c] \in {"registering", "recording", "sending", "dropped"}
    \/ stage[c] = "failed" /\ ask[c].kind = "create" /\ ask[c].id \in lost

\* A client of a WebSocket that follows a Thread misses no event of it: what is
\* not in the snapshot it read is sent to it, or a notice of a gap stands for it,
\* sent after this very event was lost; an earlier notice is no excuse.  This
\* holds from the moment its call is answered, however the call, the Turn and
\* the broadcast buffer interleave.
NothingMissed ==
  \A s \in open : ~Serving(s) =>
    \A e \in published : Home(e.turn) \in subs[s] =>
      e \in seen[s] \cup Range(queue[s]) \cup lagged[s] \cup told[s]

\* The barrier of shutdown sleeps only while a task it waits for will still wake it.
BarrierIsWoken ==
  barrier = "waiting" /\ active = {} => woken \/ \E c \in Calls : task[c] = "notifying"

\* When the barrier reports that all is clear, every Turn it cancelled has its
\* terminal status stored and its last event published.
ClearMeansEnded ==
  barrier = "clear" => \A c \in held : [turn |-> c, what |-> "ended"] \in published

\* An automatic title is made from the first Turn of the Thread that completed,
\* in whatever order the title tasks run, and never replaces a title the Thread
\* was made with; also when thread/reference/add puts an old snapshot back.
HasTitle(h) == h \in threads /\ ask[h].kind = "thread" /\ ask[h].title = Given

Fits(h, a) ==
  /\ a \in Calls => Home(a) = h /\ FirstCompleted(a)
  /\ HasTitle(h) => a = Given

TitleOfFirstTurn == \A h \in Calls : Fits(h, title[h])

\* A create-and-start takes effect once or not at all
\* (create_and_prepare_thread).
CreatesOnceOrNot == TypeOK /\ OneThreadPerRequest /\ FailedCreateLeavesNothing

\* The barrier of cancel_all_and_wait wakes up, and what it reports is true.
BarrierHolds == BarrierIsWoken /\ ClearMeansEnded
===============================================================================
