------------------------------ MODULE JsonStore ------------------------------
(***************************************************************************)
(* JsonFileStore (kody-core/src/store.rs): every mutation runs under the   *)
(* persistence lock on a fork of the state, is validated, written to a     *)
(* temporary file, flushed, renamed over state.json, followed by a sync of *)
(* the directory, and only then published to readers.  JsonFileStore::open *)
(* is the way back after a crash.                                          *)
(*                                                                         *)
(* What a mutation does to the records is the CONSTANT Apply; Valid are    *)
(* the states validate_store_state accepts.  Left out: temporary files     *)
(* that outlive their writer (nothing reads them) and the sharing of one   *)
(* file by two processes.                                                  *)
(***************************************************************************)


CONSTANTS
  Writers,      \* concurrent callers of mutating StateStore methods
  Ops,          \* mutations they may ask for
  States,       \* values of StoreState
  Valid,        \* the ones validate_store_state accepts
  Empty,        \* StoreState::default()
  Refused,      \* a mutation returns an error
  Apply,        \* Apply[op][s]: what the mutation makes of s, or Refused
  Migrate,      \* what from_snapshot makes of a snapshot of version 1..4
  NoOp, NoWriter,
  PowerLoss     \* whether unsynced file system state may be lost

ASSUME ConstantsAssumption ==
  /\ Valid \subseteq States
  /\ Empty \in Valid
  /\ Refused \notin States
  /\ Apply \in [Ops -> [Valid -> States \cup {Refused}]]
  /\ Migrate \in [Valid -> Valid]
  /\ NoOp \notin Ops /\ NoWriter \notin Writers
  /\ PowerLoss \in BOOLEAN

VARIABLES
  memory,     \* JsonFileStore.memory; while not up, its last value
  lock,       \* holder of the persistence mutex
  pc,         \* where each writer's call is
  request,    \* the mutation it asks for
  candidate,  \* its forked and mutated state
  temp,       \* its temporary file: "none", "written", "synced"
  file,       \* the snapshot at the path
  entries,    \* snapshots a power loss may leave there
  late,       \* abandoned renames still queued on the blocking pool
  loose,      \* whether this process has abandoned a rename (history)
  mode        \* "down", "migrating", "renamed", "up" or "refused"

calls == <<lock, pc, request, candidate, temp>>
disk  == <<file, entries, late, loose>>
vars  == <<memory, calls, disk, mode>>

Writing  == {"writing", "renaming", "renamed", "publishing"}

Absent == [version |-> "none", state |-> Empty, synced |-> TRUE]
Snapshot(s, synced) == [version |-> "current", state |-> s, synced |-> synced]
Snapshots ==
  [version : {"none", "legacy", "current"}, state : States, synced : BOOLEAN]

\* A snapshot whose bytes never reached the disk, or that holds a state
\* validate_store_state rejects, is refused.
Readable(e) == e.synced = TRUE /\ e.state \in Valid

\* from_snapshot, and open when there is no file yet.
Loaded(e) == IF e.version = "legacy" THEN Migrate[e.state] ELSE e.state

Init ==
  /\ file \in {Absent} \cup
       [version : {"legacy", "current"}, state : Valid, synced : {TRUE}]
  /\ entries = {file}
  /\ memory = Loaded(file)
  /\ lock = NoWriter
  /\ pc = [w \in Writers |-> "idle"]
  /\ request = [w \in Writers |-> NoOp]
  /\ candidate = [w \in Writers |-> Empty]
  /\ temp = [w \in Writers |-> "none"]
  /\ late = {} /\ loose = FALSE
  /\ mode = "down"

------------------------------------------------------------------------------
(* A mutation: persistent_mutation!, commit_candidate, write_snapshot_atomic *)

Request(w, op) ==
  /\ mode = "up" /\ pc[w] = "idle"
  /\ pc' = [pc EXCEPT ![w] = "waiting"]
  /\ request' = [request EXCEPT ![w] = op]
  /\ UNCHANGED <<memory, lock, candidate, temp, disk, mode>>

\* The call ends, with or without success: its guard frees the lock.
Return(w) ==
  /\ pc' = [pc EXCEPT ![w] = "idle"]
  /\ lock' = NoWriter
  /\ request' = [request EXCEPT ![w] = NoOp]
  /\ temp' = [temp EXCEPT ![w] = "none"]
  /\ UNCHANGED candidate

\* Mutant: the fork is taken without the persistence lock.
BeginUnlocked(w) ==
  /\ mode = "up" /\ pc[w] = "waiting"
  /\ LET next == Apply[request[w]][memory] IN
       /\ next \in Valid
       /\ lock' = w
       /\ pc' = [pc EXCEPT ![w] = "writing"]
       /\ candidate' = [candidate EXCEPT ![w] = next]
       /\ UNCHANGED <<request, temp>>
  /\ UNCHANGED <<memory, disk, mode>>

\* Lock, fork, mutate the fork, validate it.  Nothing but the lock holder
\* changes the memory, so these awaits are one step.
Begin(w) ==
  /\ mode = "up" /\ pc[w] = "waiting" /\ lock = NoWriter
  /\ LET next == Apply[request[w]][memory] IN
       \/ /\ next \in Valid
          /\ lock' = w
          /\ pc' = [pc EXCEPT ![w] = "writing"]
          /\ candidate' = [candidate EXCEPT ![w] = next]
          /\ UNCHANGED <<request, temp>>
       \/ next \notin Valid /\ Return(w)
  /\ UNCHANGED <<memory, disk, mode>>

WriteTemporary(w) ==
  /\ mode = "up" /\ pc[w] = "writing" /\ temp[w] = "none"
  /\ temp' = [temp EXCEPT ![w] = "written"]
  /\ UNCHANGED <<memory, lock, pc, request, candidate, disk, mode>>

SyncTemporary(w) ==
  /\ mode = "up" /\ pc[w] = "writing" /\ temp[w] = "written"
  /\ temp' = [temp EXCEPT ![w] = "synced"]
  /\ UNCHANGED <<memory, lock, pc, request, candidate, disk, mode>>

\* tokio::fs::rename hands the call to the blocking pool.
IssueRename(w) ==
  /\ mode = "up" /\ pc[w] = "writing" /\ temp[w] = "synced"
  /\ pc' = [pc EXCEPT ![w] = "renaming"]
  /\ UNCHANGED <<memory, lock, request, candidate, temp, disk, mode>>

Install(e) ==
  /\ file' = e
  /\ entries' = entries \cup {e}

RenameLands(w) ==
  /\ mode = "up" /\ pc[w] = "renaming"
  /\ Install(Snapshot(candidate[w], temp[w] = "synced"))
  /\ pc' = [pc EXCEPT ![w] = "renamed"]
  /\ UNCHANGED <<memory, lock, request, candidate, temp, late, loose, mode>>

\* Mutant: the directory is never synced.
SyncNothing(w) ==
  /\ mode = "up" /\ pc[w] = "renamed"
  /\ pc' = [pc EXCEPT ![w] = "publishing"]
  /\ UNCHANGED <<memory, lock, request, candidate, temp, disk, mode>>

SyncDirectory(w) ==
  /\ mode = "up" /\ pc[w] = "renamed"
  /\ entries' = {file}
  /\ pc' = [pc EXCEPT ![w] = "publishing"]
  /\ UNCHANGED <<memory, lock, request, candidate, temp, file, late, loose,
                 mode>>

\* replace_with, then the Ok of the mutation.
Publish(w) ==
  /\ mode = "up" /\ pc[w] = "publishing"
  /\ memory' = candidate[w]
  /\ Return(w)
  /\ UNCHANGED <<disk, mode>>

\* An I/O error before the rename took effect, or in the directory sync.
WriteFails(w) ==
  /\ mode = "up" /\ pc[w] \in {"writing", "renaming", "renamed"}
  /\ Return(w)
  /\ UNCHANGED <<memory, disk, mode>>

\* The caller's future is dropped at an await: the guard is dropped with it,
\* but a rename already handed to the blocking pool still runs.
Abandon(w) ==
  /\ mode = "up" /\ pc[w] # "idle"
  /\ IF pc[w] = "renaming"
     THEN /\ late' = late \cup {Snapshot(candidate[w], temp[w] = "synced")}
          /\ loose' = TRUE
     ELSE UNCHANGED <<late, loose>>
  /\ pc' = [pc EXCEPT ![w] = "idle"]
  /\ lock' = IF lock = w THEN NoWriter ELSE lock
  /\ request' = [request EXCEPT ![w] = NoOp]
  /\ temp' = [temp EXCEPT ![w] = "none"]
  /\ UNCHANGED <<memory, candidate, file, entries, mode>>

LateRenameLands ==
  \E e \in late :
    /\ mode = "up"
    /\ Install(e)
    /\ late' = late \ {e}
    /\ UNCHANGED <<memory, calls, loose, mode>>

Mutating(w) ==
  \/ \E op \in Ops : Request(w, op)
  \/ Begin(w) \/ WriteTemporary(w) \/ SyncTemporary(w) \/ IssueRename(w)
  \/ RenameLands(w) \/ SyncDirectory(w) \/ Publish(w)
  \/ WriteFails(w) \/ Abandon(w)

------------------------------------------------------------------------------
(* Crash and JsonFileStore::open *)

\* Every call disappears with the process.  A crash of the machine leaves one
\* of the snapshots whose renames the directory may or may not have kept.
Crash ==
  /\ mode' = "down"
  /\ lock' = NoWriter
  /\ pc' = [w \in Writers |-> "idle"]
  /\ request' = [w \in Writers |-> NoOp]
  /\ temp' = [w \in Writers |-> "none"]
  /\ late' = {} /\ loose' = FALSE
  /\ \/ UNCHANGED <<file, entries>>
     \/ PowerLoss /\ file' \in entries /\ entries' = {file'}
  /\ UNCHANGED <<memory, candidate>>

\* Read the file; a snapshot that is missing or old has to be written first.
Open ==
  /\ mode = "down"
  /\ IF Readable(file)
     THEN /\ memory' = Loaded(file)
          /\ mode' = IF file.version = "current" THEN "up" ELSE "migrating"
     ELSE mode' = "refused" /\ UNCHANGED memory
  /\ UNCHANGED <<calls, disk>>

MigrationRenamed ==
  /\ mode = "migrating"
  /\ Install(Snapshot(memory, TRUE))
  /\ mode' = "renamed"
  /\ UNCHANGED <<memory, calls, late, loose>>

MigrationSynced ==
  /\ mode = "renamed"
  /\ entries' = {file}
  /\ mode' = "up"
  /\ UNCHANGED <<memory, calls, file, late, loose>>

\* open returns the error and the server does not start.
MigrationFails ==
  /\ mode \in {"migrating", "renamed"}
  /\ mode' = "down"
  /\ UNCHANGED <<memory, calls, disk>>

Opening ==
  Open \/ MigrationRenamed \/ MigrationSynced \/ MigrationFails

Next == (\E w \in Writers : Mutating(w)) \/ LateRenameLands \/ Crash \/ Opening

Spec == Init /\ [][Next]_vars

------------------------------------------------------------------------------
(* Properties *)

TypeOK ==
  /\ memory \in Valid
  /\ lock \in Writers \cup {NoWriter}
  /\ pc \in [Writers -> Writing \cup {"idle", "waiting"}]
  /\ request \in [Writers -> Ops \cup {NoOp}]
  /\ candidate \in [Writers -> States]
  /\ temp \in [Writers -> {"none", "written", "synced"}]
  /\ file \in Snapshots
  /\ entries \subseteq Snapshots
  /\ late \subseteq Snapshots
  /\ loose \in BOOLEAN
  /\ mode \in {"down", "migrating", "renamed", "up", "refused"}

\* The lock holder is the one writer past the fork, its candidate is the
\* mutation it was asked for on the state readers see, and its temporary file
\* is synced before the rename is issued.
Guarded ==
  \A w \in Writers :
    /\ pc[w] \in Writing <=> lock = w
    /\ pc[w] = "waiting" => request[w] \in Ops
    /\ pc[w] \in Writing =>
         /\ mode = "up"
         /\ request[w] \in Ops
         /\ candidate[w] = Apply[request[w]][memory]
         /\ candidate[w] \in Valid
    /\ pc[w] \in Writing \ {"writing"} => temp[w] = "synced"

\* Everything that may ever be found at the path can be read.
Intact ==
  /\ file \in entries
  /\ \A e \in entries \cup late : Readable(e)

\* Once its directory is synced, a candidate is all that can be found.
Installed ==
  /\ late = {}
  /\ \A w \in Writers :
       /\ pc[w] \in {"renamed", "publishing"} =>
            file = Snapshot(candidate[w], TRUE)
       /\ pc[w] = "publishing" => entries = {file}

\* The inductive invariant behind the theorems of StoreProofs.
IInv ==
  /\ TypeOK
  /\ Guarded
  /\ Intact
  /\ ~ loose => Installed

\* Whatever moment the process or the machine dies, and whichever abandoned
\* rename lands, the next JsonFileStore::open accepts what it finds.
AlwaysOpens == \A e \in entries : Readable(e)

\* The store implements DurableStore: an acknowledged mutation survives
\* every restart, a failed one changes nothing readers see, and only the
\* leftover of a mutation that was not acknowledged may appear after one.
\* Abandoned renames suspend the promise about restarts.
Durable == INSTANCE DurableStore WITH
  state <- memory,
  limbo <- {Loaded(e) : e \in entries} \ {memory},
  loose <- loose,
  open  <- mode = "up"
DurableMutations == Durable!Spec
==============================================================================
