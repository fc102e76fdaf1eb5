--------------------------- MODULE ManagedProcess ---------------------------
(***************************************************************************)
(* Managed Processes: the manager that admits, stops and recovers them,    *)
(* the actor task that supervises one process group, its output logger,    *)
(* and the guardian process that kills the group when the app-server dies  *)
(* (crates/kody-core/src/process.rs).                                      *)
(*                                                                         *)
(* A start request is identified by its origin (Turn and tool call), which *)
(* is also the unique key of the stored record, so an element of Processes *)
(* stands for the request, its record, its actor and its process group.    *)
(* A request that reuses an origin with another command is refused before  *)
(* it changes anything and is not modelled.  Output is counted in chunks.  *)
(*                                                                         *)
(* The state of one process is spread over what survives the app-server    *)
(* (rec, log, group, guard) and what does not (snap, actor, logger, ...).  *)
(***************************************************************************)
EXTENDS Naturals, Sequences, FiniteSets, SequencesExt

CONSTANTS
  Processes,        \* start requests, one per origin
  ThreadOf,         \* the Thread that owns each of them
  Callers,          \* tasks that call start, stop and shutdown_all
  NoCaller,         \* nobody holds the start lock
  MaxActive,        \* max_active_processes
  MaxPerThread,     \* max_active_processes_per_thread
  MaxOutput,        \* bound: chunks of output one process writes
  Droppable,        \* bound: the stages of a call in which its future may be dropped
  MaxErrors,        \* bound: failing store, log, spawn and guardian calls
  MaxCrashes        \* bound: deaths of the app-server

ASSUME ConstantsAssumption ==
  /\ NoCaller \notin Callers
  /\ MaxActive \in Nat \ {0} /\ MaxPerThread \in Nat \ {0}
  /\ Droppable \subseteq {"entering", "checked", "inserted", "starting", "stopping"}
  /\ MaxOutput \in Nat /\ MaxErrors \in Nat /\ MaxCrashes \in Nat

VARIABLES
  server,    \* "up" | "down" | "recovering"
  shutting,  \* shutting_down
  lock,      \* holder of start_lock
  call,      \* per caller: where its call stands and which processes it waits for
  rec,       \* the stored record of each process
  snap,      \* the snapshot in its handle
  handle,    \* "none" | "actor" (has a control channel) | "cached" (terminal only)
  inbox,     \* a Stop command is queued for the actor
  actor,     \* stage of ProcessActor::run
  held,      \* the actor holds event_lock between bumping the sequence and publishing
  fate,      \* the actor's locals stop_requested and lifecycle_error, and its outcome
  logger,    \* "none" | "idle" | "written" (log persisted, event_lock held) | "closed"
  io,        \* chunks made by the group, chunks appended to the log, first_error
  log,       \* the log file: end_cursor and last_event_sequence, or absent
  group,     \* "none" | "leader" (alive) | "orphans" (leader gone) | "dead"
  escaped,   \* a descendant left the group and keeps the output pipe open
  guard,     \* guardian: "none" | "waiting" | "armed" | "gone"
  runs,      \* history: how often the command was spawned
  heard,     \* history: events published on the hub, in order
  closed,    \* history: shutdown_all has returned Ok in this server life
  errors, crashes

memory  == <<snap, handle, inbox, actor, held, fate, logger, io>>
world   == <<log, group, escaped, guard, runs>>
callers == <<shutting, lock, call, closed>>
vars    == <<server, callers, rec, memory, world, heard, errors, crashes>>

Active   == {"Starting", "Running", "Stopping"}
Terminal == {"Exited", "Stopped", "Failed", "Lost"}

Absent  == [st |-> "absent", seq |-> 0, end |-> 0]
NoLog   == [on |-> FALSE, end |-> 0, seq |-> 0]
NewFate == [stop |-> FALSE, error |-> FALSE, unsaved |-> FALSE]
NoIO    == [made |-> 0, mem |-> 0, err |-> FALSE]
Idle    == [at |-> "idle", for |-> {}]

\* The stages in which the actor has an event to persist and publish.
Announcing == {"starting", "stopping", "ending", "failing"}

\* started_tx has been used: the start call can return.
Reported == {"running", "stopping", "draining", "closing", "ending", "done"}

GroupAlive(p) == group[p] \in {"leader", "orphans"}

(***************************************************************************)
(* replace_process: what the store accepts as the successor of a record.   *)
(***************************************************************************)
LegalStatus(old, new) ==
  \/ old = new
  \/ old = "Starting" /\ new \in {"Running", "Stopping"} \cup Terminal
  \/ old = "Running"  /\ new \in {"Stopping"} \cup (Terminal \ {"Stopped"})
  \/ old = "Stopping" /\ new \in Terminal

Accepts(old, new) ==
  /\ LegalStatus(old.st, new.st)
  /\ new.seq >= old.seq /\ new.end >= old.end

\* A call into the store or the operating system that may fail.
Fails == /\ errors < MaxErrors
         /\ errors' = errors + 1
Works == UNCHANGED errors

Publish(p, e) == heard' = [heard EXCEPT ![p] = Append(@, e)]

\* event_lock is free: neither the actor nor the logger is between taking a
\* sequence number and publishing it.
LockFree(p) == ~held[p] /\ logger[p] # "written"

Init ==
  /\ server = "up" /\ shutting = FALSE /\ lock = NoCaller /\ closed = FALSE
  /\ call = [c \in Callers |-> Idle]
  /\ rec = [p \in Processes |-> Absent]
  /\ snap = [p \in Processes |-> Absent]
  /\ handle = [p \in Processes |-> "none"]
  /\ inbox = [p \in Processes |-> FALSE]
  /\ actor = [p \in Processes |-> "none"]
  /\ held = [p \in Processes |-> FALSE]
  /\ fate = [p \in Processes |-> NewFate]
  /\ logger = [p \in Processes |-> "none"]
  /\ io = [p \in Processes |-> NoIO]
  /\ log = [p \in Processes |-> NoLog]
  /\ group = [p \in Processes |-> "none"]
  /\ escaped = [p \in Processes |-> FALSE]
  /\ guard = [p \in Processes |-> "none"]
  /\ runs = [p \in Processes |-> 0]
  /\ heard = [p \in Processes |-> <<>>]
  /\ errors = 0 /\ crashes = 0

-----------------------------------------------------------------------------
(***************************************************************************)
(* ProcessManager::start                                                   *)
(***************************************************************************)
At(c, at)           == server = "up" /\ call[c].at = at
Goes(c, at, for)    == call' = [call EXCEPT ![c] = [at |-> at, for |-> for]]
Returns(c)          == call' = [call EXCEPT ![c] = Idle]
ActiveIn(records)   == {p \in Processes : records[p].st \in Active}

\* The first check of shutting_down and the validation of the request.
StartCall(c, p) ==
  /\ At(c, "idle") /\ ~shutting
  /\ Goes(c, "entering", {p})
  /\ UNCHANGED <<server, shutting, lock, closed, rec, memory, world, heard, errors, crashes>>

\* start_lock is taken and shutting_down read again.
StartLocks(c) ==
  /\ At(c, "entering") /\ lock = NoCaller
  /\ IF shutting THEN Returns(c) /\ UNCHANGED lock
                 ELSE lock' = c /\ Goes(c, "checked", call[c].for)
  /\ UNCHANGED <<server, shutting, closed, rec, memory, world, heard, errors, crashes>>

\* Mutant: only active records make an origin known.
KnownIfActive(p) == rec[p].st \in Active

\* get_process_by_origin finds a record: the call is answered from it (every
\* record has a handle after recovery) or refused, and nothing is started.
Known(p) == rec[p] # Absent

\* Mutant: only Running processes count.
QuotaFullOfRunning(p) ==
  LET running == {q \in Processes : rec[q].st = "Running"} IN
  \/ Cardinality(running) >= MaxActive
  \/ Cardinality({q \in running : ThreadOf[q] = ThreadOf[p]}) >= MaxPerThread

QuotaFull(p) ==
  \/ Cardinality(ActiveIn(rec)) >= MaxActive
  \/ Cardinality({q \in ActiveIn(rec) : ThreadOf[q] = ThreadOf[p]}) >= MaxPerThread

\* The call ends under the lock without a new process: known origin, quota
\* used up, or insert_process fails.
StartAnswered(c) ==
  LET p == CHOOSE p \in call[c].for : TRUE IN
  /\ At(c, "checked")
  /\ IF Known(p) \/ QuotaFull(p) THEN Works ELSE Fails
  /\ lock' = NoCaller
  /\ Returns(c)
  /\ UNCHANGED <<server, shutting, closed, rec, memory, world, heard, crashes>>

\* Admission: the record is inserted as Starting.
StartAdmitted(c) ==
  LET p == CHOOSE p \in call[c].for : TRUE IN
  /\ At(c, "checked") /\ ~Known(p) /\ ~QuotaFull(p)
  /\ rec' = [rec EXCEPT ![p].st = "Starting"]
  /\ Goes(c, "inserted", {p})
  /\ UNCHANGED <<server, shutting, lock, closed, memory, world, heard, errors, crashes>>

\* The handle is registered and the actor task spawned.
StartRegisters(c) ==
  LET p == CHOOSE p \in call[c].for : TRUE IN
  /\ At(c, "inserted")
  /\ handle' = [handle EXCEPT ![p] = "actor"]
  /\ snap' = [snap EXCEPT ![p] = rec[p]]
  /\ actor' = [actor EXCEPT ![p] = "init"]
  /\ Goes(c, "starting", {p})
  /\ UNCHANGED <<server, shutting, lock, closed, rec, inbox, held, fate, logger, io,
                 world, heard, errors, crashes>>

\* started_rx resolves and the guard is released.
StartReturns(c) ==
  /\ At(c, "starting")
  /\ \A p \in call[c].for : actor[p] \in Reported
  /\ lock' = NoCaller
  /\ Returns(c)
  /\ UNCHANGED <<server, shutting, closed, rec, memory, world, heard, errors, crashes>>

\* The Turn is cancelled and the future of start or stop is dropped at one of
\* its awaits, a start with its guard; what it began goes on without it.
CallDropped(c) ==
  /\ \E at \in Droppable : At(c, at)
  /\ lock' = IF lock = c THEN NoCaller ELSE lock
  /\ Returns(c)
  /\ UNCHANGED <<server, shutting, closed, rec, memory, world, heard, errors, crashes>>

-----------------------------------------------------------------------------
(***************************************************************************)
(* ProcessManager::stop and shutdown_all.  Both look at the snapshot, send *)
(* a Stop to the actor and wait for the completion watch.                  *)
(***************************************************************************)
Seen(p) == IF handle[p] = "none" THEN rec[p] ELSE snap[p]

\* The processes of ps whose actor a stop has to wait for.
ToStop(ps)   == {p \in ps : Seen(p).st \in Active /\ handle[p] = "actor"}
\* A stop of these fails: the record is active and no actor runs here.
NoActor(ps)  == {p \in ps : Seen(p).st \in Active /\ handle[p] # "actor"}
SendStop(ps) == inbox' = [p \in Processes |-> inbox[p] \/ (p \in ps /\ actor[p] # "done")]
Completed(p) == actor[p] = "done"

StopCall(c, p) ==
  /\ At(c, "idle") /\ ToStop({p}) # {}
  /\ SendStop({p})
  /\ Goes(c, "stopping", {p})
  /\ UNCHANGED <<server, shutting, lock, closed, rec, snap, handle, actor, held, fate, logger,
                 io, world, heard, errors, crashes>>

StopReturns(c) ==
  /\ At(c, "stopping")
  /\ \A p \in call[c].for : Completed(p)
  /\ Returns(c)
  /\ UNCHANGED <<server, shutting, lock, closed, rec, memory, world, heard, errors, crashes>>

\* shutdown_all closes admission, then waits for the start barrier.
ShutdownCall(c) ==
  /\ At(c, "idle")
  /\ shutting' = TRUE
  /\ Goes(c, "barrier", {})
  /\ UNCHANGED <<server, lock, closed, rec, memory, world, heard, errors, crashes>>

\* Mutant: shutdown_all does not wait for a start that holds the lock.
BarrierIgnored == TRUE

\* Nobody holds start_lock.
BarrierFree == lock = NoCaller

\* The active set is read under the barrier and every stop is sent.  A record
\* whose actor is missing fails its stop and with it the result of the call.
ShutdownLists(c) ==
  LET ps == ActiveIn(rec) IN
  /\ At(c, "barrier") /\ BarrierFree
  /\ SendStop(ToStop(ps))
  /\ Goes(c, IF NoActor(ps) = {} THEN "waiting" ELSE "hopeless", ToStop(ps))
  /\ UNCHANGED <<server, shutting, lock, closed, rec, snap, handle, actor, held, fate, logger,
                 io, world, heard, errors, crashes>>

ShutdownReturns(c) ==
  /\ At(c, "waiting") \/ At(c, "hopeless")
  /\ \A p \in call[c].for : Completed(p)
  /\ closed' = (closed \/ (call[c].at = "waiting" /\ \A p \in call[c].for : ~fate[p].unsaved))
  /\ Returns(c)
  /\ UNCHANGED <<server, shutting, lock, rec, memory, world, heard, errors, crashes>>

-----------------------------------------------------------------------------
(***************************************************************************)
(* ProcessActor::run, up to the moment the process is Running              *)
(***************************************************************************)
ToStage(p, s) == actor' = [actor EXCEPT ![p] = s]

\* fail_start and fail_after_spawn: the snapshot is Failed before the event.
FailStart(p) ==
  /\ snap' = [snap EXCEPT ![p].st = "Failed"]
  /\ ToStage(p, "failing")

\* The empty log is persisted before anything else.
InitLog(p) ==
  /\ actor[p] = "init"
  /\ \/ Works /\ log' = [log EXCEPT ![p].on = TRUE]
        /\ ToStage(p, "logged") /\ UNCHANGED snap
     \/ Fails /\ FailStart(p) /\ UNCHANGED log
  /\ UNCHANGED <<server, callers, rec, handle, inbox, held, fate, logger, io,
                 group, escaped, guard, runs, heard, crashes>>

\* ParentDeathGuardian::prepare.
ForkGuardian(p) == guard' = [guard EXCEPT ![p] = "waiting"]

\* The command runs in a group of its own; pre_exec has registered the group
\* with the guardian by the time spawn returns.
SpawnRegistered(p) == /\ group' = [group EXCEPT ![p] = "leader"]
                      /\ runs' = [runs EXCEPT ![p] = @ + 1]

Spawn(p) ==
  /\ actor[p] = "logged"
  /\ \/ /\ Works
        /\ ForkGuardian(p) /\ SpawnRegistered(p)
        /\ ToStage(p, "arming") /\ UNCHANGED snap
     \/ Fails /\ FailStart(p) /\ UNCHANGED <<group, guard, runs>>
  /\ UNCHANGED <<server, callers, rec, handle, inbox, held, fate, logger, io,
                 log, escaped, heard, crashes>>

\* The guardian reads the registration and acknowledges it.
GuardianArms(p) ==
  /\ guard[p] = "waiting" /\ actor[p] # "none"
  /\ guard' = [guard EXCEPT ![p] = "armed"]
  /\ UNCHANGED <<server, callers, rec, memory, log, group, escaped, runs, heard, errors, crashes>>

\* The guardian's acknowledgement has arrived.
Acknowledged(p) == guard[p] = "armed"

\* disarm_and_reap.
Disarm(p) == guard' = [guard EXCEPT ![p] = "gone"]

\* SIGKILL to the group.
KillGroup(p) == group' = [group EXCEPT ![p] = "dead"]

\* Mutant: the guardian is disarmed but the group is not killed.
DisarmAndFail(p) == Disarm(p) /\ FailStart(p) /\ UNCHANGED group

\* A failure after the spawn kills the group, reaps the leader and disarms the
\* guardian before the status changes.
KillAndFail(p) == KillGroup(p) /\ Disarm(p) /\ FailStart(p)

\* confirm_armed, the Running snapshot and its first update_process.
ConfirmArmed(p) ==
  /\ actor[p] = "arming"
  /\ \/ /\ Acknowledged(p) /\ Works
        /\ snap' = [snap EXCEPT ![p].st = "Running"]
        /\ rec' = [rec EXCEPT ![p] = snap'[p]]
        /\ ToStage(p, "starting")
        /\ UNCHANGED <<group, guard>>
     \/ Fails /\ KillAndFail(p) /\ UNCHANGED rec
  /\ UNCHANGED <<server, callers, handle, inbox, held, fate, logger, io,
                 log, escaped, runs, heard, crashes>>

-----------------------------------------------------------------------------
(***************************************************************************)
(* persist_and_publish_process_event, in two steps under event_lock: the   *)
(* sequence of the snapshot is bumped, then the record is stored and the   *)
(* event published.  A failed store call publishes nothing.                *)
(***************************************************************************)
BeginEvent(p) ==
  /\ actor[p] \in Announcing /\ LockFree(p)
  /\ held' = [held EXCEPT ![p] = TRUE]
  /\ snap' = [snap EXCEPT ![p].seq = @ + 1]
  /\ UNCHANGED <<server, callers, rec, handle, inbox, actor, fate, logger, io,
                 world, heard, errors, crashes>>

\* What follows an event that was published, stage by stage: after Started
\* the readers and the logger run, after Stopping SIGTERM is sent, the
\* terminal events complete the watch.
AfterEvent(p) ==
  LET starting == actor[p] = "starting" IN
  /\ ToStage(p, IF actor[p] \in {"starting", "stopping"} THEN "running" ELSE "done")
  /\ logger' = IF starting THEN [logger EXCEPT ![p] = "idle"] ELSE logger

EventOf(p) ==
  [seq |-> snap[p].seq, end |-> 0, kind |-> IF actor[p] = "starting" THEN "Started" ELSE snap[p].st]

EventStored(p) ==
  /\ held[p] /\ Accepts(rec[p], snap[p])
  /\ held' = [held EXCEPT ![p] = FALSE]
  /\ rec' = [rec EXCEPT ![p] = snap[p]]
  /\ Publish(p, EventOf(p))
  /\ AfterEvent(p)
  /\ UNCHANGED <<server, callers, snap, handle, inbox, fate, io, world, errors, crashes>>

\* Mutant: the event is published although the store call failed.
PublishAnyway(p) == Publish(p, EventOf(p))

PublishNothing(p) == UNCHANGED heard

\* lifecycle_error, or the Err outcome of a terminal event.
RememberError(p) == fate' = IF actor[p] = "stopping" THEN [fate EXCEPT ![p].error = TRUE]
                                                     ELSE [fate EXCEPT ![p].unsaved = TRUE]

\* The store call fails (or refuses the record).  A start fails with it, a
\* stop goes on with the error remembered, a terminal status stays unsaved.
EventNotStored(p) ==
  /\ held[p]
  /\ held' = [held EXCEPT ![p] = FALSE]
  /\ IF Accepts(rec[p], snap[p]) THEN Fails ELSE Works
  /\ IF actor[p] = "starting"
       THEN KillAndFail(p) /\ UNCHANGED <<fate, logger>>
       ELSE AfterEvent(p) /\ RememberError(p) /\ UNCHANGED <<snap, group, guard>>
  /\ PublishNothing(p)
  /\ UNCHANGED <<server, callers, rec, handle, inbox, io, log, escaped, runs, crashes>>

-----------------------------------------------------------------------------
(***************************************************************************)
(* The supervision loop, the drain of the output and the terminal status   *)
(***************************************************************************)
\* The first Stop makes the snapshot Stopping; later ones are ignored.
TakeStop(p) ==
  /\ actor[p] = "running" /\ inbox[p]
  /\ inbox' = [inbox EXCEPT ![p] = FALSE]
  /\ IF fate[p].stop
       THEN UNCHANGED <<snap, fate, actor>>
       ELSE /\ fate' = [fate EXCEPT ![p].stop = TRUE]
            /\ snap' = [snap EXCEPT ![p].st = "Stopping"]
            /\ ToStage(p, "stopping")
  /\ UNCHANGED <<server, callers, rec, handle, held, logger, io, world, heard, errors, crashes>>

\* The loop may find stop_deadline passed.
Overdue(p) == fate[p].stop

\* stop_deadline has passed: SIGKILL to the group.
ForceKill(p) ==
  /\ actor[p] = "running" /\ Overdue(p) /\ GroupAlive(p)
  /\ KillGroup(p)
  /\ UNCHANGED <<server, callers, rec, memory, log, escaped, guard, runs, heard, errors, crashes>>

\* Mutant: the loop ends with the leader.
LeaderGone(p) == group[p] \in {"orphans", "dead"}

\* The leader is reaped and kill(0) finds nobody in its group.
GroupGone(p) == group[p] = "dead"

LeaveLoop(p) ==
  /\ actor[p] = "running" /\ GroupGone(p)
  /\ ToStage(p, "draining")
  /\ UNCHANGED <<server, callers, rec, snap, handle, inbox, held, fate, logger, io,
                 world, heard, errors, crashes>>

\* Readers reach EOF and the logger has written all they sent.
Drained(p) ==
  /\ actor[p] = "draining" /\ ~escaped[p]
  /\ logger[p] = "idle" /\ io[p].made = io[p].mem
  /\ logger' = [logger EXCEPT ![p] = "closed"]
  /\ fate' = [fate EXCEPT ![p].error = @ \/ io[p].err]
  /\ ToStage(p, "closing")
  /\ UNCHANGED <<server, callers, rec, snap, handle, inbox, held, io,
                 world, heard, errors, crashes>>

\* output_shutdown_timeout: readers or the logger are aborted where they are.
DrainTimeout(p) ==
  /\ actor[p] = "draining"
  /\ logger' = [logger EXCEPT ![p] = "closed"]
  /\ fate' = [fate EXCEPT ![p].error = TRUE]
  /\ ToStage(p, "closing")
  /\ UNCHANGED <<server, callers, rec, snap, handle, inbox, held, io,
                 world, heard, errors, crashes>>

\* The guardian is disarmed, then the terminal status is shown.
Conclude(p) ==
  /\ actor[p] = "closing"
  /\ Disarm(p)
  /\ snap' = [snap EXCEPT ![p].st = IF fate[p].error THEN "Failed"
                                    ELSE IF fate[p].stop THEN "Stopped" ELSE "Exited"]
  /\ ToStage(p, "ending")
  /\ UNCHANGED <<server, callers, rec, handle, inbox, held, fate, logger, io,
                 log, group, escaped, runs, heard, errors, crashes>>

-----------------------------------------------------------------------------
(***************************************************************************)
(* The output logger and the process group                                 *)
(***************************************************************************)

PersistLog(p, new) == log' = [log EXCEPT ![p] = new]

\* append and persist under event_lock, with the sequence the event will have.
\* A persist that fails may have replaced the file already (directory fsync).
LogWrite(p) ==
  LET new == [on |-> TRUE, end |-> io[p].mem + 1, seq |-> snap[p].seq + 1] IN
  /\ logger[p] = "idle" /\ io[p].mem < io[p].made /\ LockFree(p)
  /\ \/ /\ Works
        /\ PersistLog(p, new)
        /\ io' = [io EXCEPT ![p].mem = @ + 1]
        /\ logger' = [logger EXCEPT ![p] = "written"]
     \/ /\ Fails
        /\ PersistLog(p, new) \/ UNCHANGED log
        /\ io' = [io EXCEPT ![p].mem = @ + 1, ![p].err = TRUE]
        /\ UNCHANGED logger
  /\ UNCHANGED <<server, callers, rec, snap, handle, inbox, actor, held, fate,
                 group, escaped, guard, runs, heard, crashes>>

\* The snapshot takes cursor and sequence and the Output event is published.
LogPublish(p) ==
  /\ logger[p] = "written"
  /\ snap' = [snap EXCEPT ![p].end = io[p].mem, ![p].seq = @ + 1]
  /\ Publish(p, [seq |-> snap'[p].seq, kind |-> "Output", end |-> io[p].mem])
  /\ logger' = [logger EXCEPT ![p] = "idle"]
  /\ UNCHANGED <<server, callers, rec, handle, inbox, actor, held, fate, io,
                 world, errors, crashes>>

\* The command writes output, ends (possibly leaving descendants), or a
\* descendant leaves the group with the pipe open.
Writes(p) ==
  /\ GroupAlive(p) \/ escaped[p]
  /\ actor[p] # "none" /\ logger[p] # "closed" /\ io[p].made < MaxOutput
  /\ io' = [io EXCEPT ![p].made = @ + 1]
  /\ UNCHANGED <<server, callers, rec, snap, handle, inbox, actor, held, fate, logger,
                 world, heard, errors, crashes>>

GroupEnds(p) ==
  /\ \/ group[p] = "leader" /\ group' \in {[group EXCEPT ![p] = g] : g \in {"orphans", "dead"}}
     \/ group[p] = "orphans" /\ group' = [group EXCEPT ![p] = "dead"]
  /\ UNCHANGED <<server, callers, rec, memory, log, escaped, guard, runs, heard, errors, crashes>>

Escapes(p) ==
  /\ GroupAlive(p) /\ ~escaped[p] /\ Fails
  /\ escaped' = [escaped EXCEPT ![p] = TRUE]
  /\ UNCHANGED <<server, callers, rec, memory, log, group, guard, runs, heard, crashes>>

-----------------------------------------------------------------------------
(***************************************************************************)
(* Death of the app-server, its guardians, restart and recovery            *)
(***************************************************************************)
Crash ==
  /\ server # "down" /\ crashes < MaxCrashes
  /\ crashes' = crashes + 1
  /\ server' = "down" /\ shutting' = FALSE /\ lock' = NoCaller /\ closed' = FALSE
  /\ call' = [c \in Callers |-> Idle]
  /\ snap' = [p \in Processes |-> Absent]
  /\ handle' = [p \in Processes |-> "none"]
  /\ inbox' = [p \in Processes |-> FALSE]
  /\ actor' = [p \in Processes |-> "none"]
  /\ held' = [p \in Processes |-> FALSE]
  /\ fate' = [p \in Processes |-> NewFate]
  /\ logger' = [p \in Processes |-> "none"]
  /\ io' = [p \in Processes |-> NoIO]
  /\ UNCHANGED <<rec, world, heard, errors>>

\* A guardian that got the registration kills the group, armed or not.
Watching == {"waiting", "armed"}

\* EOF on the lifeline (or a failed acknowledgement): the group is killed.
GuardianFires(p) ==
  /\ guard[p] \in Watching /\ actor[p] = "none"
  /\ guard' = [guard EXCEPT ![p] = "gone"]
  /\ KillGroup(p)
  /\ UNCHANGED <<server, callers, rec, memory, log, escaped, runs, heard, errors, crashes>>

Restart ==
  /\ server = "down"
  /\ server' = "recovering"
  /\ UNCHANGED <<callers, rec, memory, world, heard, errors, crashes>>

Larger(a, b) == IF a < b THEN b ELSE a

\* Mutant: recovery trusts the record and ignores the log.
RecoveredFromRecord(p) ==
  IF rec[p].st \in Active THEN [rec[p] EXCEPT !.st = "Lost", !.seq = @ + 1] ELSE rec[p]

\* recover_interrupted, one record: cursor and sequence are raised to those of
\* the log; an active record becomes Lost with one sequence more.
Recovered(p) ==
  LET r == IF log[p].on
             THEN [rec[p] EXCEPT !.end = Larger(@, log[p].end), !.seq = Larger(@, log[p].seq)]
             ELSE rec[p]
  IN IF r.st \in Active THEN [r EXCEPT !.st = "Lost", !.seq = @ + 1] ELSE r

Recover(p) ==
  /\ server = "recovering" /\ rec[p] # Absent /\ handle[p] = "none"
  /\ Accepts(rec[p], Recovered(p))
  /\ rec' = [rec EXCEPT ![p] = Recovered(p)]
  /\ snap' = [snap EXCEPT ![p] = Recovered(p)]
  /\ handle' = [handle EXCEPT ![p] = "cached"]
  /\ IF rec[p].st \in Active
       THEN Publish(p, [seq |-> Recovered(p).seq, kind |-> "Lost", end |-> 0])
       ELSE UNCHANGED heard
  /\ UNCHANGED <<server, callers, inbox, actor, held, fate, logger, io, world, errors, crashes>>

\* A store error during recovery makes the engine refuse to start.
RecoveryFails ==
  /\ server = "recovering" /\ Fails
  /\ server' = "down"
  /\ handle' = [p \in Processes |-> "none"]
  /\ snap' = [p \in Processes |-> Absent]
  /\ UNCHANGED <<callers, rec, inbox, actor, held, fate, logger, io, world, heard, crashes>>

RecoveryEnds ==
  /\ server = "recovering"
  /\ \A p \in Processes : rec[p] # Absent => handle[p] # "none"
  /\ server' = "up"
  /\ UNCHANGED <<callers, rec, memory, world, heard, errors, crashes>>

-----------------------------------------------------------------------------
CallerReturns(c) ==
  \/ StartLocks(c) \/ StartAnswered(c) \/ StartAdmitted(c) \/ StartRegisters(c) \/ StartReturns(c)
  \/ StopReturns(c) \/ ShutdownLists(c) \/ ShutdownReturns(c)

ActorStep(p) ==
  \/ InitLog(p) \/ Spawn(p) \/ ConfirmArmed(p)
  \/ BeginEvent(p) \/ EventStored(p) \/ EventNotStored(p)
  \/ TakeStop(p) \/ ForceKill(p) \/ LeaveLoop(p)
  \/ Drained(p) \/ DrainTimeout(p) \/ Conclude(p)

LoggerStep(p) == LogWrite(p) \/ LogPublish(p)

Next ==
  \/ \E c \in Callers :
       \/ \E p \in Processes : StartCall(c, p) \/ StopCall(c, p)
       \/ ShutdownCall(c) \/ CallDropped(c) \/ CallerReturns(c)
  \/ \E p \in Processes :
       \/ ActorStep(p) \/ LoggerStep(p) \/ GuardianArms(p) \/ GuardianFires(p)
       \/ Writes(p) \/ GroupEnds(p) \/ Escapes(p) \/ Recover(p)
  \/ Crash \/ Restart \/ RecoveryFails \/ RecoveryEnds

Spec == Init /\ [][Next]_vars

(***************************************************************************)
(* The runtime polls every ready task, the kernel runs the guardian, and a *)
(* process under SIGKILL dies.  Nobody promises that the command ends by   *)
(* itself, that a caller calls, or that the server is started again.       *)
(***************************************************************************)
Fairness ==
  /\ \A c \in Callers : WF_vars(CallerReturns(c))
  /\ \A p \in Processes :
       /\ WF_vars(ActorStep(p)) /\ WF_vars(LoggerStep(p))
       \* read at the head of the loop, before every select
       /\ WF_vars(ForceKill(p) \/ LeaveLoop(p))
       /\ WF_vars(GuardianArms(p) \/ GuardianFires(p))

FairSpec == Spec /\ Fairness

-----------------------------------------------------------------------------
Record == [st : {"absent"} \cup Active \cup Terminal, seq : Nat, end : Nat]

\* Types of all variables.
TypeOK ==
  /\ server \in {"up", "down", "recovering"}
  /\ shutting \in BOOLEAN /\ closed \in BOOLEAN
  /\ lock \in Callers \cup {NoCaller}
  /\ call \in [Callers -> [at : {"idle", "entering", "checked", "inserted", "starting", "stopping",
                                 "barrier", "waiting", "hopeless"},
                           for : SUBSET Processes]]
  /\ rec \in [Processes -> Record] /\ snap \in [Processes -> Record]
  /\ handle \in [Processes -> {"none", "actor", "cached"}]
  /\ inbox \in [Processes -> BOOLEAN] /\ held \in [Processes -> BOOLEAN]
  /\ actor \in [Processes -> {"none", "init", "logged", "arming", "running", "draining",
                              "closing", "done"} \cup Announcing]
  /\ fate \in [Processes -> [stop : BOOLEAN, error : BOOLEAN, unsaved : BOOLEAN]]
  /\ logger \in [Processes -> {"none", "idle", "written", "closed"}]
  /\ io \in [Processes -> [made : Nat, mem : Nat, err : BOOLEAN]]
  /\ log \in [Processes -> [on : BOOLEAN, end : Nat, seq : Nat]]
  /\ group \in [Processes -> {"none", "leader", "orphans", "dead"}]
  /\ escaped \in [Processes -> BOOLEAN]
  /\ guard \in [Processes -> {"none", "waiting", "armed", "gone"}]
  /\ runs \in [Processes -> Nat]
  /\ heard \in [Processes -> Seq([seq : Nat, end : Nat,
         kind : {"Started", "Output"} \cup Active \cup Terminal])]
  /\ errors \in 0..MaxErrors /\ crashes \in 0..MaxCrashes

\* Sequence numbers of published events increase strictly, over both
\* publishers (actor and logger), failed store calls and restarts, so a
\* client never takes a new event for one it has seen (event_lock,
\* process.rs:1716 and 1840, and the maximum taken by recover_interrupted).
EventsIncrease ==
  \A p \in Processes : \A i \in 1..Len(heard[p]) - 1 :
    heard[p][i].seq < heard[p][i + 1].seq

\* A published terminal event is the last event of its process and names the
\* status the store keeps, whatever fails, crashes or is recovered after it.
AnnouncedEndIsFinal ==
  \A p \in Processes : \A i \in 1..Len(heard[p]) :
    heard[p][i].kind \in Terminal => /\ i = Len(heard[p])
                                     /\ rec[p].st = heard[p][i].kind

\* Output announced by an event is in the log file, also after a crash.
AnnouncedOutputIsDurable ==
  \A p \in Processes : \A i \in 1..Len(heard[p]) :
    heard[p][i].kind = "Output" => log[p].on /\ heard[p][i].end <= log[p].end

\* A recovered record covers every event and all output announced before.
RecoveryCoversEvents ==
  \A p \in Processes : handle[p] = "cached" /\ server # "down" =>
    /\ rec[p].end >= log[p].end
    /\ heard[p] # <<>> => rec[p].seq >= Last(heard[p]).seq

\* Whenever a member of the group is alive, a guardian is there to kill it
\* if the app-server dies: disarming comes after the group's end.
GroupIsGuarded == \A p \in Processes : GroupAlive(p) => guard[p] \in {"waiting", "armed"}

\* A terminal status other than Lost is never shown by get or list while a
\* member of the group is alive (descendants of a dead leader included).
ShownEndMeansDead ==
  \A p \in Processes : Seen(p).st \in Terminal \ {"Lost"} => ~GroupAlive(p)

\* The store never refuses what the actor writes: a snapshot waiting to be
\* stored is a legal successor of the record (Running -> Stopped is not).
ActorWritesAreLegal ==
  \A p \in Processes : held[p] => Accepts(rec[p], snap[p])

\* The command of one origin is spawned at most once, over retries of the
\* call, dropped callers and restarts.
CommandRunsOnce == \A p \in Processes : runs[p] <= 1

\* Groups that run while the server is up stay within both quotas.
WithinQuotas ==
  server = "up" =>
    LET here == {p \in Processes : GroupAlive(p) /\ actor[p] # "none"} IN
    /\ Cardinality(here) <= MaxActive
    /\ \A p \in Processes :
         Cardinality({q \in here : ThreadOf[q] = ThreadOf[p]}) <= MaxPerThread

\* When shutdown_all has returned Ok, no group of this server life is alive
\* and none will be: at most an actor is left that still has to store the end
\* its snapshot already shows (which is why a stop did not wait for it).
ShutdownLeavesNothing ==
  closed => \A p \in Processes :
    /\ actor[p] \in {"none", "failing", "ending", "done"}
    /\ actor[p] # "none" => ~GroupAlive(p)

\* A stop, a shutdown_all and a start that has the lock return, even if the
\* command ignores SIGTERM, the store fails, a descendant keeps the pipes open
\* or the calls race with each other.
CallsReturn == \A c \in Callers : call[c].at \notin {"idle", "entering"} ~> call[c].at = "idle"

\* After the death of the app-server every group it left dies.
OrphanGroupsDie == \A p \in Processes :
  (GroupAlive(p) /\ actor[p] = "none") ~> ~GroupAlive(p)

\* What clients were told of a process is in order and backed by its log and its
\* record, also when two publishers, a failed write or a crash meet.
EventsAreCovered ==
  TypeOK /\ EventsIncrease /\ AnnouncedOutputIsDurable /\ RecoveryCoversEvents

\* The end of a process is stored as announced, whatever had to be stored before.
EndsAreFinal == AnnouncedEndIsFinal /\ ActorWritesAreLegal

=============================================================================
