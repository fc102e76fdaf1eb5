----------------------------- MODULE TurnRuntime -----------------------------
(***************************************************************************)
(* The life of a Turn inside one kody process and across its restarts:     *)
(* AgentRuntime::prepare_turn, execute_turn, execute_turn_with_backend and *)
(* finish_turn (kody-core/src/runtime.rs), the task table of TurnManager   *)
(* (kody-app-server/src/server.rs), the two brokers a running Turn waits   *)
(* on, and recover_interrupted_turns (kody-core/src/engine.rs).            *)
(*                                                                         *)
(* A member of Turns is one prepare_turn request; it becomes a durable     *)
(* Turn only when its input is stored.  Every await in the code that lets  *)
(* another task run is a boundary between two actions here.                *)
(*                                                                         *)
(* Abstractions.  A store call is atomic: it takes effect or returns an    *)
(* error and changes nothing.  Requests that fail validation before        *)
(* the Thread is read change no state and are left out.  Archived Threads  *)
(* are left out: no operation of the program archives one.  What a Turn    *)
(* says to the model and which tools it runs is one state, "working".      *)
(***************************************************************************)
EXTENDS Naturals, FiniteSets

CONSTANTS
  Threads,         \* Thread ids
  Turns,           \* prepare_turn requests
  ThreadOf,        \* the Thread each request names
  External,        \* the Turns whose provider has an ExternalTurnBackend
  Adapters,        \* provider adapters the registry may hold for one id
  NoAdapter,       \* no lease, nothing resolved yet
  NoTurn,          \* no Turn
  MaxStoreErrors,  \* bound: failing store calls in one process lifetime
  MaxCrashes,      \* bound: crashes of the process
  MaxDuplicates,   \* bound: second execute_turn calls on a claimed Turn
  Disconnects      \* whether an HTTP caller may vanish while it prepares

ASSUME ConstantsAssumption ==
  /\ ThreadOf \in [Turns -> Threads]
  /\ External \subseteq Turns
  /\ NoTurn \notin Turns
  /\ NoAdapter \notin Adapters
  /\ MaxStoreErrors \in Nat /\ MaxCrashes \in Nat /\ MaxDuplicates \in Nat
  /\ Disconnects \in BOOLEAN

VARIABLES
  \* ---- durable state (StateStore)
  threadStatus,    \* Thread.status
  turnStatus,      \* Turn.status, "None" before the Turn is stored
  reasons,         \* Turns whose Turn.error is set
  answers,         \* Turns whose final assistant message is stored
  \* ---- process memory
  reserved,        \* AgentRuntime.active_threads
  leases,          \* AgentRuntime.provider_leases
  registry,        \* ProviderRegistry: the adapter now under the Turns' id
  approvals,       \* Turns with an entry in ApprovalBroker.pending
  prompts,         \* Turns with an entry in UserInputBroker.pending
  tokens,          \* TurnManager.active: Turns with a CancellationToken
  cancelled,       \* Turns whose token is cancelled
  \* ---- control points and locals of the tasks
  prep,            \* where the prepare_turn call of each request is
  picked,          \* the adapter that call resolved
  exec,            \* where the execution task of each Turn is
  used,            \* the adapter the execution runs on
  result,          \* outcome of the execution, then the event to announce
  \* ---- what clients have been told
  announced,       \* terminal event published for each Turn
  \* ---- environment
  mode,            \* "up", "down" or "recovering"
  explaining,      \* the Turn recovery has failed but not yet explained
  errors, crashes, duplicates,
  \* ---- history, read by the properties only
  claimant,        \* the last request that made each Thread Running
  interrupted,     \* Turns that a process which died left Queued or Running
  torn             \* Turns that one left Failed, their reason not yet written

durable == <<threadStatus, turnStatus, reasons, answers>>
slots   == <<reserved, leases, registry>>
brokers == <<approvals, prompts>>
table   == <<tokens, cancelled>>
memory  == <<slots, brokers, table>>
caller  == <<prep, picked>>
task    == <<exec, used, result>>
locals  == <<caller, task>>
bounds  == <<errors, crashes, duplicates>>
history == <<claimant, interrupted, torn>>
calm    == <<announced, mode, explaining, crashes, duplicates, history>>
world   == <<announced, mode, explaining, bounds, history>>
vars    == <<durable, memory, locals, world>>

Terminal == {"Completed", "Failed", "Cancelled"}
Active   == {"Queued", "Running"}

\* Points of prepare_turn that hold the entry in active_threads.  A request
\* whose caller vanished ("abandoned") has no task left but keeps it.
PrepHolding == {"reserved", "claimed", "undoing", "releasing", "persisted",
                "leased", "registered", "abandoned"}
\* Points of the execution task that hold it.  A task whose claim failed with
\* a store error ("stranding", "stranded") ends without giving it back.
ExecHolding == {"spawned", "claimed", "working", "waiting", "collecting",
                "answering", "ended", "explaining", "sweeping", "idling",
                "releasing", "stranding", "stranded"}

PrepSteps == PrepHolding \cup {"idle", "loaded", "done", "rejected", "crashed"}
ExecSteps == ExecHolding \cup {"none", "announcing", "leaving", "gone",
                               "crashed"}

Holds(t) == prep[t] \in PrepHolding \/ exec[t] \in ExecHolding

------------------------------------------------------------------------------
Init ==
  /\ threadStatus = [h \in Threads |-> "Idle"]
  /\ turnStatus = [t \in Turns |-> "None"]
  /\ reasons = {} /\ answers = {}
  /\ reserved = {}
  /\ leases = [t \in Turns |-> NoAdapter]
  /\ registry \in Adapters
  /\ approvals = {} /\ prompts = {}
  /\ tokens = {} /\ cancelled = {}
  /\ prep = [t \in Turns |-> "idle"]
  /\ picked = [t \in Turns |-> NoAdapter]
  /\ exec = [t \in Turns |-> "none"]
  /\ used = [t \in Turns |-> NoAdapter]
  /\ result = [t \in Turns |-> "none"]
  /\ announced = [t \in Turns |-> "None"]
  /\ mode = "up"
  /\ explaining = NoTurn
  /\ errors = 0 /\ crashes = 0 /\ duplicates = 0
  /\ claimant = [h \in Threads |-> NoTurn]
  /\ interrupted = {} /\ torn = {}

\* A task moves between two of its control points.
PrepMoves(t, from, to) ==
  /\ mode = "up"
  /\ prep[t] = from
  /\ prep' = [prep EXCEPT ![t] = to]

ExecMoves(t, from, to) ==
  /\ mode = "up"
  /\ exec[t] = from
  /\ exec' = [exec EXCEPT ![t] = to]

\* A store call returns an error: disk full, failed fsync, failed validation.
StoreFails ==
  /\ errors < MaxStoreErrors
  /\ errors' = errors + 1

\* Compare-and-set of StateStore::transition_turn_status.
SetTurn(t, from, to) ==
  /\ turnStatus[t] = from
  /\ turnStatus' = [turnStatus EXCEPT ![t] = to]

------------------------------------------------------------------------------
(* prepare_turn *)

\* Resolve the provider, read the Thread, validate the references.  A Thread
\* read as Running makes the later check under the lock refuse the request.
LoadThread(t) ==
  /\ PrepMoves(t, "idle",
               IF threadStatus[ThreadOf[t]] = "Running" THEN "rejected"
                                                        ELSE "loaded")
  /\ picked' = [picked EXCEPT ![t] = registry]
  /\ UNCHANGED <<durable, memory, task, world>>

\* Mutant: what active_threads.insert returns is ignored.
ReserveUnchecked(t) ==
  /\ PrepMoves(t, "loaded", "reserved")
  /\ reserved' = reserved \cup {ThreadOf[t]}
  /\ UNCHANGED <<durable, leases, registry, brokers, table, picked, task,
                 world>>

\* active_threads.insert under its lock; false means another Turn holds it.
ReserveThread(t) ==
  /\ PrepMoves(t, "loaded",
               IF ThreadOf[t] \in reserved THEN "rejected" ELSE "reserved")
  /\ reserved' = reserved \cup {ThreadOf[t]}
  /\ UNCHANGED <<durable, leases, registry, brokers, table, picked, task,
                 world>>

\* Store compare-and-set Idle -> Running.
ClaimThread(t) ==
  /\ PrepMoves(t, "reserved", "claimed")
  /\ threadStatus[ThreadOf[t]] = "Idle"
  /\ threadStatus' = [threadStatus EXCEPT ![ThreadOf[t]] = "Running"]
  /\ claimant' = [claimant EXCEPT ![ThreadOf[t]] = t]
  /\ UNCHANGED <<turnStatus, reasons, answers, memory, picked, task, announced,
                 mode, explaining, bounds, interrupted, torn>>

\* The compare-and-set loses, or the store fails: give the reservation back.
ClaimThreadFails(t) ==
  /\ PrepMoves(t, "reserved", "releasing")
  /\ \/ threadStatus[ThreadOf[t]] # "Idle" /\ UNCHANGED errors
     \/ threadStatus[ThreadOf[t]] = "Idle" /\ StoreFails
  /\ UNCHANGED <<durable, memory, picked, task, calm>>

\* persist_queued_turn: uploads, then input message and Turn in one commit.
PersistQueuedTurn(t) ==
  /\ PrepMoves(t, "claimed", "persisted")
  /\ SetTurn(t, "None", "Queued")
  /\ UNCHANGED <<threadStatus, reasons, answers, memory, picked, task, world>>

\* An upload is rejected or cannot be staged, or the commit fails.
PersistQueuedTurnFails(t) ==
  /\ PrepMoves(t, "claimed", "undoing")
  /\ UNCHANGED errors \/ StoreFails
  /\ UNCHANGED <<durable, memory, picked, task, calm>>

\* mark_thread_idle: Running -> Idle, or nothing when it is not Running.
MarkThreadIdle(h) ==
  threadStatus' =
    [threadStatus EXCEPT ![h] = IF @ = "Running" THEN "Idle" ELSE @]

\* Mutant: a rejected preparation only releases its reservation.
UndoNothing(t) ==
  /\ PrepMoves(t, "undoing", "releasing")
  /\ UNCHANGED <<durable, memory, picked, task, world>>

\* The error of mark_thread_idle is ignored here.
UndoClaim(t) ==
  /\ PrepMoves(t, "undoing", "releasing")
  /\ \/ MarkThreadIdle(ThreadOf[t]) /\ UNCHANGED errors
     \/ StoreFails /\ UNCHANGED threadStatus
  /\ UNCHANGED <<turnStatus, reasons, answers, memory, picked, task, calm>>

ReleaseRejected(t) ==
  /\ PrepMoves(t, "releasing", "rejected")
  /\ reserved' = reserved \ {ThreadOf[t]}
  /\ UNCHANGED <<durable, leases, registry, brokers, table, picked, task,
                 world>>

\* provider_leases.insert: the adapter resolved at the start, not the
\* registry's present one.
GrantLease(t) ==
  /\ PrepMoves(t, "persisted", "leased")
  /\ leases' = [leases EXCEPT ![t] = picked[t]]
  /\ UNCHANGED <<durable, reserved, registry, brokers, table, picked, task,
                 world>>

\* TurnManager::prepare: the Turn becomes cancellable.
RegisterToken(t) ==
  /\ PrepMoves(t, "leased", "registered")
  /\ tokens' = tokens \cup {t}
  /\ UNCHANGED <<durable, slots, brokers, cancelled, picked, task, world>>

\* TurnManager::execute_prepared.
SpawnExecution(t) ==
  /\ PrepMoves(t, "registered", "done")
  /\ exec' = [exec EXCEPT ![t] = "spawned"]
  /\ UNCHANGED <<durable, memory, picked, used, result, world>>

\* The HTTP connection closes and hyper drops the handler's future at an
\* await of prepare_turn or of TurnManager::prepare: no later line of it runs.
AbandonPrepare(t) ==
  /\ Disconnects
  /\ mode = "up"
  /\ prep[t] \in {"loaded", "reserved", "claimed", "undoing", "releasing",
                  "persisted", "leased", "registered"}
  /\ prep' = [prep EXCEPT ![t] = IF @ = "loaded" THEN "rejected"
                                                 ELSE "abandoned"]
  /\ UNCHANGED <<durable, memory, picked, task, world>>

------------------------------------------------------------------------------
(* execute_turn and execute_turn_with_backend *)

\* The compare-and-set Queued -> Running is the ownership boundary.
ClaimTurn(t) ==
  /\ ExecMoves(t, "spawned", "claimed")
  /\ SetTurn(t, "Queued", "Running")
  /\ UNCHANGED <<threadStatus, reasons, answers, memory, caller, used, result,
                 world>>

\* The store fails: execute_turn returns before any of its cleanup.
ClaimTurnFails(t) ==
  /\ ExecMoves(t, "spawned", "stranding")
  /\ StoreFails
  /\ UNCHANGED <<durable, memory, caller, used, result, calm>>

\* Another execute_turn call on a Turn that is no longer Queued.
Duplicate(t) ==
  /\ mode = "up"
  /\ turnStatus[t] \notin {"None", "Queued"}
  /\ duplicates < MaxDuplicates
  /\ duplicates' = duplicates + 1

\* Mutant: what cleans up after an execution runs for the loser as well.
LoserCleansUp(t) ==
  /\ Duplicate(t)
  /\ MarkThreadIdle(ThreadOf[t])
  /\ reserved' = reserved \ {ThreadOf[t]}
  /\ UNCHANGED <<turnStatus, reasons, answers, leases, registry, brokers, table,
                 locals, announced, mode, explaining, errors, crashes, history>>

\* It loses the compare-and-set and returns before it has taken the lease,
\* touched the Thread or put anything under the winner's cleanup.
LoseClaim(t) ==
  /\ Duplicate(t)
  /\ UNCHANGED <<durable, memory, locals, announced, mode, explaining, errors,
                 crashes, history>>

\* Take the lease (the registry is only the fallback), publish TurnStarted.
\* A backend runs on no adapter: its lease is dropped.
TakeLease(t) ==
  /\ ExecMoves(t, "claimed", "working")
  /\ leases' = [leases EXCEPT ![t] = NoAdapter]
  /\ used' = [used EXCEPT ![t] = IF t \in External THEN NoAdapter
                                 ELSE IF leases[t] # NoAdapter THEN leases[t]
                                 ELSE registry]
  /\ UNCHANGED <<durable, reserved, registry, brokers, table, caller, result,
                 world>>

\* request_tool_approval: the native loop waits for a decision.
RequestApproval(t) ==
  /\ t \notin External
  /\ ExecMoves(t, "working", "waiting")
  /\ approvals' = approvals \cup {t}
  /\ UNCHANGED <<durable, slots, prompts, table, caller, used, result, world>>

\* The decision has arrived and cancellation, polled first, has not.
ApprovalDecided(t) ==
  /\ ExecMoves(t, "waiting", "working")
  /\ t \notin approvals /\ t \notin cancelled
  /\ UNCHANGED <<durable, memory, caller, used, result, world>>

\* Mutant: cancellation is looked at only after a decision.
ApprovalCancelledLate(t) ==
  /\ ExecMoves(t, "waiting", "ended")
  /\ t \in cancelled /\ t \notin approvals
  /\ result' = [result EXCEPT ![t] = "cancelled"]
  /\ UNCHANGED <<durable, memory, caller, used, world>>

\* Cancellation wins the select, a decision or none: the entry is removed.
ApprovalCancelled(t) ==
  /\ ExecMoves(t, "waiting", "ended")
  /\ t \in cancelled
  /\ approvals' = approvals \ {t}
  /\ result' = [result EXCEPT ![t] = "cancelled"]
  /\ UNCHANGED <<durable, slots, prompts, table, caller, used, world>>

\* CodexService::handle_server_request parks the backend's future on one
\* question at a time, in the one broker or the other.
BackendAsks(t) ==
  /\ mode = "up" /\ exec[t] = "working" /\ t \in External
  /\ t \notin approvals \cup prompts
  /\ \/ approvals' = approvals \cup {t} /\ UNCHANGED prompts
     \/ prompts' = prompts \cup {t} /\ UNCHANGED approvals
  /\ UNCHANGED <<durable, slots, table, locals, world>>

\* approval/respond and user-input/respond take the entry out of its broker;
\* the waiting task reads the decision afterwards.
RespondApproval(t) ==
  /\ mode = "up" /\ t \in approvals
  /\ approvals' = approvals \ {t}
  /\ UNCHANGED <<durable, slots, prompts, table, locals, world>>

RespondPrompt(t) ==
  /\ mode = "up" /\ t \in prompts
  /\ prompts' = prompts \ {t}
  /\ UNCHANGED <<durable, slots, approvals, table, locals, world>>

\* A native execution fails: provider error, invalid response, unknown tool,
\* store error while a message is written, step limit, or a panic.
NativeFails(t) ==
  /\ t \notin External
  /\ ExecMoves(t, "working", "ended")
  /\ result' = [result EXCEPT ![t] = "error"]
  /\ UNCHANGED <<durable, memory, caller, used, world>>

\* check_cancelled, the select around the model call, or a tool returns
\* KodyError::Cancelled.
NativeCancelled(t) ==
  /\ t \notin External
  /\ ExecMoves(t, "working", "ended")
  /\ t \in cancelled
  /\ result' = [result EXCEPT ![t] = "cancelled"]
  /\ UNCHANGED <<durable, memory, caller, used, world>>

\* The model answers without tool calls and the check after it passes.
NativeAnswers(t) ==
  /\ t \notin External /\ t \notin cancelled
  /\ ExecMoves(t, "working", "answering")
  /\ UNCHANGED <<durable, memory, caller, used, result, world>>

\* Cancellation ends a backend: the runtime's select drops its future where it
\* stands, or, when the token fires while the future is being polled, the
\* future's own select takes its entry out of the broker first.
BackendCancelled(t) ==
  /\ t \in External /\ t \in cancelled
  /\ ExecMoves(t, "working", "collecting")
  /\ result' = [result EXCEPT ![t] = "cancelled"]
  /\ \/ UNCHANGED brokers
     \/ approvals' = approvals \ {t} /\ prompts' = prompts \ {t}
  /\ UNCHANGED <<durable, slots, table, caller, used, world>>

\* The backend's future is ready while the token is not cancelled: it is
\* parked on no question and returns its text or an error.
BackendReturns(t) ==
  /\ t \in External
  /\ t \notin cancelled \cup approvals \cup prompts
  /\ ExecMoves(t, "working", "collecting")
  /\ \E r \in {"text", "error"} : result' = [result EXCEPT ![t] = r]
  /\ UNCHANGED <<durable, memory, caller, used, world>>

\* persist_external_tool_activity, then in order the backend's own result, the
\* error of that write, and the last cancellation check.
PersistActivity(t) ==
  /\ exec[t] = "collecting"
  /\ \E failed \in BOOLEAN :
       LET r == IF result[t] # "text" THEN result[t]
                ELSE IF failed THEN "error"
                ELSE IF t \in cancelled THEN "cancelled"
                ELSE "text"
       IN /\ IF failed THEN StoreFails ELSE UNCHANGED errors
          /\ ExecMoves(t, "collecting",
                       IF r = "text" THEN "answering" ELSE "ended")
          /\ result' = [result EXCEPT ![t] = r]
  /\ UNCHANGED <<durable, memory, caller, used, calm>>

\* persist_model_response of the last step, or persist_external_response.
PersistAnswer(t) ==
  /\ ExecMoves(t, "answering", "ended")
  /\ \/ /\ answers' = answers \cup {t}
        /\ result' = [result EXCEPT ![t] = "text"]
        /\ UNCHANGED errors
     \/ /\ StoreFails
        /\ result' = [result EXCEPT ![t] = "error"]
        /\ UNCHANGED answers
  /\ UNCHANGED <<threadStatus, turnStatus, reasons, memory, caller, used,
                 calm>>

------------------------------------------------------------------------------
(* finish_turn and the cleanup every claimed execution goes through *)

\* The status finish_turn asks for.  A native answer still yields to the
\* token; the answer of a backend does not, because execute_turn_with_backend
\* passes a fresh token once the answer is stored.
FinalStatus(t) ==
  CASE result[t] = "cancelled" -> "Cancelled"
    [] result[t] = "error" -> "Failed"
    [] OTHER -> IF t \in cancelled /\ t \notin External THEN "Cancelled"
                                                        ELSE "Completed"

\* Compare-and-set Running -> terminal.  Completed and Failed go on to a
\* second write, the one that sets or clears Turn.error.
FinishTurn(t) ==
  LET final == FinalStatus(t)
  IN /\ ExecMoves(t, "ended",
                  IF final = "Cancelled" THEN "sweeping" ELSE "explaining")
     /\ SetTurn(t, "Running", final)
     /\ result' = [result EXCEPT ![t] = final]
     /\ UNCHANGED <<threadStatus, reasons, answers, memory, caller, used,
                    world>>

\* The write fails: finish_turn returns the error, nothing will be announced.
FinishTurnFails(t) ==
  /\ ExecMoves(t, "ended", "sweeping")
  /\ StoreFails
  /\ result' = [result EXCEPT ![t] = "none"]
  /\ UNCHANGED <<durable, memory, caller, used, calm>>

\* update_turn with the error message, or with none.
ExplainTurn(t) ==
  /\ ExecMoves(t, "explaining", "sweeping")
  /\ \/ /\ reasons' = IF result[t] = "Failed" THEN reasons \cup {t}
                                              ELSE reasons \ {t}
        /\ UNCHANGED <<result, errors>>
     \/ /\ StoreFails
        /\ result' = [result EXCEPT ![t] = "none"]
        /\ UNCHANGED reasons
  /\ UNCHANGED <<threadStatus, turnStatus, answers, memory, caller, used,
                 calm>>

\* user_inputs.remove_for_turn.
SweepPrompts(t) ==
  /\ ExecMoves(t, "sweeping", "idling")
  /\ prompts' = prompts \ {t}
  /\ UNCHANGED <<durable, slots, approvals, table, caller, used, result,
                 world>>

\* Mutant: the error of mark_thread_idle is ignored here as well.
IdleThreadIgnoringErrors(t) ==
  /\ ExecMoves(t, "idling", "releasing")
  /\ \/ MarkThreadIdle(ThreadOf[t]) /\ UNCHANGED errors
     \/ StoreFails /\ UNCHANGED threadStatus
  /\ UNCHANGED <<turnStatus, reasons, answers, memory, caller, used, result,
                 calm>>

\* mark_thread_idle; an error means the terminal event is withheld for good.
IdleThread(t) ==
  /\ ExecMoves(t, "idling", "releasing")
  /\ \/ MarkThreadIdle(ThreadOf[t]) /\ UNCHANGED <<result, errors>>
     \/ /\ StoreFails
        /\ result' = [result EXCEPT ![t] = "none"]
        /\ UNCHANGED threadStatus
  /\ UNCHANGED <<turnStatus, reasons, answers, memory, caller, used, calm>>

ReleaseThread(t) ==
  /\ ExecMoves(t, "releasing", "announcing")
  /\ reserved' = reserved \ {ThreadOf[t]}
  /\ UNCHANGED <<durable, leases, registry, brokers, table, caller, used,
                 result, world>>

\* Mutant: TurnCancelled is not published.
AnnounceUncancelled(t) ==
  /\ ExecMoves(t, "announcing", "leaving")
  /\ announced' = IF result[t] \in Terminal \ {"Cancelled"}
                  THEN [announced EXCEPT ![t] = result[t]] ELSE announced
  /\ UNCHANGED <<durable, memory, caller, used, result, mode, explaining,
                 bounds, history>>

\* emit_terminal, when both the Turn and the Thread were written.
Announce(t) ==
  /\ ExecMoves(t, "announcing", "leaving")
  /\ announced' = IF result[t] \in Terminal
                  THEN [announced EXCEPT ![t] = result[t]] ELSE announced
  /\ UNCHANGED <<durable, memory, caller, used, result, mode, explaining,
                 bounds, history>>

\* The spawned task of TurnManager drops its entry, and with it the token, and
\* notifies waiters.
LeaveManager(t) ==
  /\ mode = "up"
  /\ exec[t] \in {"leaving", "stranding"}
  /\ exec' = [exec EXCEPT ![t] = IF @ = "leaving" THEN "gone" ELSE "stranded"]
  /\ tokens' = tokens \ {t}
  /\ cancelled' = cancelled \ {t}
  /\ UNCHANGED <<durable, slots, brokers, caller, used, result, world>>

------------------------------------------------------------------------------
(* Clients and configuration *)

\* turn/cancel, and cancel_all_and_wait for every entry.
CancelTurn(t) ==
  /\ mode = "up" /\ t \in tokens
  /\ cancelled' = cancelled \cup {t}
  /\ UNCHANGED <<durable, slots, brokers, tokens, locals, world>>

\* provider/configure replaces the adapter registered under the id.
ReplaceProvider(a) ==
  /\ mode = "up"
  /\ registry' = a
  /\ UNCHANGED <<durable, reserved, leases, brokers, table, locals, world>>

------------------------------------------------------------------------------
(* Crash and recovery *)

PrepLive == PrepSteps \ {"idle", "done", "rejected", "crashed"}
ExecLive == ExecSteps \ {"none", "gone", "crashed"}

\* The process dies, or KodyEngine::new fails in the middle of recovery: the
\* durable state stays, memory and tasks are gone.
Crash ==
  /\ mode # "down" /\ crashes < MaxCrashes
  /\ crashes' = crashes + 1
  /\ mode' = "down"
  /\ prep' = [t \in Turns |->
                IF prep[t] \in PrepLive THEN "crashed" ELSE prep[t]]
  /\ exec' = [t \in Turns |->
                IF exec[t] \in ExecLive THEN "crashed" ELSE exec[t]]
  /\ reserved' = {} /\ approvals' = {} /\ prompts' = {}
  /\ leases' = [t \in Turns |-> NoAdapter]
  /\ tokens' = {} /\ cancelled' = {}
  /\ result' = [t \in Turns |-> "none"]
  /\ explaining' = NoTurn
  /\ errors' = 0
  /\ interrupted' = interrupted \cup {t \in Turns : turnStatus[t] \in Active}
  /\ torn' = torn \cup {t \in Turns : \/ explaining = t
                                      \/ /\ exec[t] = "explaining"
                                         /\ result[t] = "Failed"}
  /\ UNCHANGED <<durable, registry, picked, used, announced, duplicates,
                 claimant>>

\* Mutant: KodyEngine::new goes on without recover_interrupted_turns.
RestartUnrecovered ==
  /\ mode = "down"
  /\ mode' = "up"
  /\ UNCHANGED <<durable, memory, locals, announced, explaining, bounds,
                 history>>

Restart ==
  /\ mode = "down"
  /\ mode' = "recovering"
  /\ UNCHANGED <<durable, memory, locals, announced, explaining, bounds,
                 history>>

\* recover_interrupted_turns: a Queued Turn is first moved to Running, since
\* only Running -> Failed is a legal transition.
RecoverQueued(t) ==
  /\ mode = "recovering" /\ explaining = NoTurn
  /\ SetTurn(t, "Queued", "Running")
  /\ UNCHANGED <<threadStatus, reasons, answers, memory, locals, world>>

\* Mutant: the restart reason is not written.
RecoverSilently(t) ==
  /\ mode = "recovering" /\ explaining = NoTurn
  /\ SetTurn(t, "Running", "Failed")
  /\ UNCHANGED <<threadStatus, reasons, answers, memory, locals, world>>

RecoverRunning(t) ==
  /\ mode = "recovering" /\ explaining = NoTurn
  /\ SetTurn(t, "Running", "Failed")
  /\ explaining' = t
  /\ UNCHANGED <<threadStatus, reasons, answers, memory, locals, announced,
                 mode, bounds, history>>

RecoverReason(t) ==
  /\ mode = "recovering" /\ explaining = t
  /\ reasons' = reasons \cup {t}
  /\ explaining' = NoTurn
  /\ UNCHANGED <<threadStatus, turnStatus, answers, memory, locals, announced,
                 mode, bounds, history>>

\* A Thread is returned to Idle after the last of its Turns.
RecoverThread(h) ==
  /\ mode = "recovering" /\ explaining = NoTurn
  /\ threadStatus[h] = "Running"
  /\ \A t \in Turns : ThreadOf[t] = h => turnStatus[t] \notin Active
  /\ MarkThreadIdle(h)
  /\ UNCHANGED <<turnStatus, reasons, answers, memory, locals, world>>

\* The loop over the stored Threads has ended: KodyEngine::new goes on.
FinishRecovery ==
  /\ mode = "recovering" /\ explaining = NoTurn
  /\ \A t \in Turns : turnStatus[t] \notin Active
  /\ \A h \in Threads : threadStatus[h] # "Running"
  /\ mode' = "up"
  /\ UNCHANGED <<durable, memory, locals, announced, explaining, bounds,
                 history>>

------------------------------------------------------------------------------
Preparing(t) ==
  \/ LoadThread(t) \/ ReserveThread(t) \/ ClaimThread(t)
  \/ ClaimThreadFails(t) \/ PersistQueuedTurn(t) \/ PersistQueuedTurnFails(t)
  \/ UndoClaim(t) \/ ReleaseRejected(t) \/ GrantLease(t) \/ RegisterToken(t)
  \/ SpawnExecution(t)

Working(t) ==
  \/ RequestApproval(t) \/ ApprovalDecided(t) \/ ApprovalCancelled(t)
  \/ BackendAsks(t) \/ NativeFails(t) \/ NativeCancelled(t)
  \/ NativeAnswers(t) \/ BackendCancelled(t) \/ BackendReturns(t)

Finishing(t) ==
  \/ PersistActivity(t) \/ PersistAnswer(t) \/ FinishTurn(t)
  \/ FinishTurnFails(t) \/ ExplainTurn(t) \/ SweepPrompts(t) \/ IdleThread(t)
  \/ ReleaseThread(t) \/ Announce(t) \/ LeaveManager(t)

Starting(t) == ClaimTurn(t) \/ ClaimTurnFails(t) \/ TakeLease(t)

Clients(t) ==
  \/ RespondApproval(t) \/ RespondPrompt(t) \/ CancelTurn(t)
  \/ AbandonPrepare(t) \/ LoseClaim(t)

Recovering ==
  \/ \E t \in Turns : RecoverQueued(t) \/ RecoverRunning(t) \/ RecoverReason(t)
  \/ \E h \in Threads : RecoverThread(h)
  \/ FinishRecovery

Next ==
  \/ \E t \in Turns : Preparing(t) \/ Starting(t) \/ Working(t)
                      \/ Finishing(t) \/ Clients(t)
  \/ \E a \in Adapters : ReplaceProvider(a)
  \/ Crash \/ Restart \/ Recovering

Spec == Init /\ [][Next]_vars

\* Every spawned task keeps being polled, so a task that can take a step of
\* its own takes one; so does recovery once it runs.  Providers, backends and
\* clients owe nothing: an answer, an approval or a restart may never come, and
\* neither may the spawn, which on a WebSocket waits until the client has read
\* the answer to its create-and-start (server.rs:484).  Only a cancelled token
\* obliges the working task to stop.
Fairness ==
  /\ \A t \in Turns :
       /\ WF_vars(Starting(t) \/ Finishing(t))
       /\ WF_vars(\/ ApprovalCancelled(t)
                  \/ NativeCancelled(t)
                  \/ BackendCancelled(t))
  /\ WF_vars(Recovering)

FairSpec == Spec /\ Fairness

------------------------------------------------------------------------------
(* Properties *)

\* Every variable has its type.
TypeOK ==
  /\ threadStatus \in [Threads -> {"Idle", "Running"}]
  /\ turnStatus \in [Turns -> {"None"} \cup Active \cup Terminal]
  /\ reasons \subseteq Turns /\ answers \subseteq Turns
  /\ reserved \subseteq Threads
  /\ leases \in [Turns -> Adapters \cup {NoAdapter}]
  /\ registry \in Adapters
  /\ approvals \subseteq Turns /\ prompts \subseteq Turns
  /\ tokens \subseteq Turns /\ cancelled \subseteq Turns
  /\ prep \in [Turns -> PrepSteps]
  /\ picked \in [Turns -> Adapters \cup {NoAdapter}]
  /\ exec \in [Turns -> ExecSteps]
  /\ used \in [Turns -> Adapters \cup {NoAdapter}]
  /\ result \in [Turns -> {"none", "text", "cancelled", "error"} \cup Terminal]
  /\ announced \in [Turns -> {"None"} \cup Terminal]
  /\ mode \in {"up", "down", "recovering"}
  /\ explaining \in Turns \cup {NoTurn}
  /\ errors \in 0..MaxStoreErrors
  /\ crashes \in 0..MaxCrashes
  /\ duplicates \in 0..MaxDuplicates
  /\ claimant \in [Threads -> Turns \cup {NoTurn}]
  /\ interrupted \subseteq Turns /\ torn \subseteq Turns

\* Two callers never interleave one conversation (runtime.rs:226): whatever
\* store calls fail, callers vanish, duplicates arrive or crashes happen, at
\* most one request holds a Thread between its reservation and its release.
OneHolderPerThread ==
  \A t1, t2 \in Turns :
    Holds(t1) /\ Holds(t2) /\ ThreadOf[t1] = ThreadOf[t2] => t1 = t2

\* "A Thread has at most one active Turn" (docs/architecture.md, ownership
\* rule 5): of the durable Turns of a Thread at most one is Queued or Running.
OneActiveTurnPerThread ==
  \A t1, t2 \in Turns :
    /\ ThreadOf[t1] = ThreadOf[t2]
    /\ turnStatus[t1] \in Active /\ turnStatus[t2] \in Active
    => t1 = t2

\* Nothing is orphaned: as long as no store call has failed in this process,
\* a Thread is Running, and a Turn Queued or Running, only while some request
\* of this process holds the Thread -- after a restart as well.
NothingOrphaned ==
  mode = "up" /\ errors = 0 =>
    /\ \A h \in Threads : threadStatus[h] = "Running" =>
         \E t \in Turns : Holds(t) /\ ThreadOf[t] = h
    /\ \A t \in Turns : turnStatus[t] \in Active => Holds(t)

\* Terminal events are withheld until the durable Thread is Idle
\* (runtime.rs:398), so that a read triggered by the event finds no stale
\* Running: when a status is announced it is the stored one, and the Thread is
\* Idle or another request has claimed it since this one did.  This survives
\* failing store calls.
AnnouncedAfterIdle ==
  [][\A t \in Turns : announced'[t] # announced[t] =>
       /\ turnStatus[t] = announced'[t]
       /\ \/ threadStatus[ThreadOf[t]] = "Idle"
          \/ claimant[ThreadOf[t]] # t]_vars

\* "A cancellation racing after that write must not leave a durable assistant
\* answer attached to a Cancelled turn" (runtime.rs:481), for Turns that an
\* external backend runs.
NoAnswerOnCancelledTurn ==
  \A t \in External : turnStatus[t] = "Cancelled" => t \notin answers

\* A Turn that has been cleaned up leaves no question a client could still
\* answer (user_input.rs:184, runtime.rs:789): no structured question of any
\* Turn, and no approval of a Turn the native loop ran.
NoStaleQuestion ==
  \A t \in Turns :
    exec[t] \in {"idling", "releasing", "announcing", "leaving", "gone",
                 "crashed"}
      => /\ t \notin prompts
         /\ t \notin External => t \notin approvals

\* A Turn runs on the adapter that was registered when it was prepared, even
\* if the Profile is replaced while it is queued (docs/architecture.md,
\* Provider abstraction).
LeasePinsAdapter ==
  \A t \in Turns \ External : used[t] # NoAdapter => used[t] = picked[t]

\* "If the app server stopped after a Turn was queued or running,
\* KodyEngine::new marks that Turn failed with a restart reason"
\* (docs/architecture.md:180): once a process is up again, every Turn that an
\* earlier one left Queued or Running is Failed and says why, unless a crash
\* fell between the two writes of its recovery (recover_interrupted_turns); a
\* Failed Turn is not looked at again.  And as long as no store call fails, a
\* Failed Turn without its error is one whose second write, here or in
\* finish_turn, is still to come or was cut off by a crash.
InterruptedTurnIsExplained ==
  mode = "up" =>
    /\ \A t \in interrupted :
         turnStatus[t] = "Failed" /\ t \in reasons \cup torn
    /\ MaxStoreErrors = 0 =>
         \A t \in Turns : turnStatus[t] = "Failed" =>
           t \in reasons \cup torn \/ exec[t] = "explaining"

\* A terminal Turn is never resumed or relabelled, by a late cancellation, a
\* duplicate executor or a recovery.
TerminalIsFinal ==
  [][\A t \in Turns : turnStatus[t] \in Terminal =>
       turnStatus'[t] = turnStatus[t]]_vars

\* The end of a Turn is settled when it is told, and stays so (finish_turn,
\* emit_terminal, transition_turn_status).
EndsAreSettled == AnnouncedAfterIdle /\ TerminalIsFinal

\* What the requests of one process must keep apart and leave behind, whatever
\* store calls fail, callers vanish, duplicates arrive or crashes happen: the
\* Thread (active_threads), the questions of ended Turns (user_inputs,
\* approvals), a stored answer and the adapter a Turn was prepared with.
TurnsStayApart ==
  /\ OneHolderPerThread
  /\ NoStaleQuestion
  /\ NoAnswerOnCancelledTurn
  /\ LeasePinsAdapter

\* An execution that was spawned and whose token is cancelled leaves the
\* TurnManager's table, which the shutdown barrier cancel_all_and_wait waits
\* for, even when store calls fail; and unless one did, the Turn has given its
\* Thread back by then (TurnManager::cancel, execute_prepared, release_thread).
CancelledTurnEnds ==
  \A t \in Turns :
    t \in cancelled /\ exec[t] # "none" ~>
      t \notin tokens /\ (Holds(t) => errors > 0)

\* Every execution that ends is announced, unless the process dies first or a
\* store call fails.
EndedTurnIsAnnounced ==
  \A t \in Turns :
    exec[t] = "ended" ~>
      announced[t] # "None" \/ exec[t] = "crashed" \/ errors > 0

\* Recovery ends: it never meets a state it has no legal transition for.
RecoveryEnds == mode = "recovering" ~> mode # "recovering"

\* What the process itself has to finish gets finished: the announcement of an
\* ended execution (execute_turn) and the recovery after a crash
\* (recover_interrupted_turns).
WorkEnds == EndedTurnIsAnnounced /\ RecoveryEnds

------------------------------------------------------------------------------
(* Refinement *)

HolderOf(h) ==
  IF \E t \in Turns : Holds(t) /\ ThreadOf[t] = h
  THEN CHOOSE t \in Turns : Holds(t) /\ ThreadOf[t] = h
  ELSE NoTurn

\* The reservation and the control points of the tasks implement the holder.
Linear == INSTANCE LinearThread WITH
            Nobody <- NoTurn,
            holder <- [h \in Threads |-> HolderOf(h)],
            status <- turnStatus,
            open   <- (mode = "up")

\* Without failing store calls the runtime gives every Thread a linear
\* conversation, across cancellations, vanished callers, crashes and restarts.
LinearConversation == Linear!Spec

------------------------------------------------------------------------------
(* The inductive invariant *)

Untouched == {"idle", "loaded", "reserved", "claimed", "undoing", "releasing",
              "rejected"}
Running   == {"claimed", "working", "waiting", "collecting", "answering",
              "ended"}
Cleaning  == {"sweeping", "idling", "releasing", "announcing"}

\* An execution exists only once its preparation is done; a process that is
\* not up runs nothing.
Placed ==
  \A t \in Turns :
    /\ exec[t] # "none" => prep[t] = "done"
    /\ mode # "up" => ~ Holds(t) /\ exec[t] \notin ExecLive

\* Whoever holds a Thread has its entry in active_threads, and is alone.
Guarded ==
  /\ \A t \in Turns : Holds(t) => ThreadOf[t] \in reserved
  /\ OneHolderPerThread

\* The stored status is the one the control point of the task implies.
StatusFollowsControl ==
  \A t \in Turns :
    /\ prep[t] \in Untouched => turnStatus[t] = "None"
    /\ prep[t] \in {"persisted", "leased", "registered"}
         => turnStatus[t] = "Queued"
    /\ prep[t] = "abandoned" => turnStatus[t] \in {"None", "Queued"}
    /\ exec[t] \in {"spawned", "stranding", "stranded"}
         => turnStatus[t] = "Queued"
    /\ exec[t] \in Running => turnStatus[t] = "Running"
    /\ exec[t] = "explaining"
         => result[t] \in Terminal /\ turnStatus[t] = result[t]
    /\ exec[t] \in Cleaning =>
         \/ result[t] \in Terminal /\ turnStatus[t] = result[t]
         \/ result[t] = "none" /\ turnStatus[t] \in {"Running"} \cup Terminal
    /\ exec[t] \in {"leaving", "gone"}
         => turnStatus[t] \in {"Running"} \cup Terminal
    /\ announced[t] # "None" => turnStatus[t] = announced[t]

\* What a cleaned up Turn is about to announce is safe to read.
Announceable ==
  \A t \in Turns :
    exec[t] \in {"releasing", "announcing"} /\ result[t] \in Terminal =>
      threadStatus[ThreadOf[t]] = "Idle" \/ claimant[ThreadOf[t]] # t

\* While no store call has failed in this process, nothing is orphaned, and a
\* request about to claim or to release its Thread finds it Idle.
Clean ==
  /\ NothingOrphaned
  /\ mode = "up" /\ errors = 0 =>
       \A t \in Turns :
         /\ prep[t] \in {"reserved", "releasing"} \/ exec[t] = "releasing"
              => threadStatus[ThreadOf[t]] = "Idle"
         /\ exec[t] \in Cleaning => result[t] \in Terminal

\* A lease is the adapter the preparation resolved, until the execution takes
\* it; no execution has an adapter before that.
Leased ==
  /\ LeasePinsAdapter
  /\ \A t \in Turns :
       /\ prep[t] # "idle" => picked[t] \in Adapters
       /\ \/ prep[t] \in {"leased", "registered"}
          \/ exec[t] \in {"spawned", "claimed"}
          => leases[t] = picked[t]
       /\ exec[t] = "none" => used[t] = NoAdapter

\* A stored answer belongs to an execution whose outcome is that answer.
Answered ==
  /\ NoAnswerOnCancelledTurn
  /\ \A t \in answers :
       /\ exec[t] \in Cleaning \cup {"ended", "explaining", "leaving", "gone",
                                     "crashed"}
       /\ exec[t] = "ended" => result[t] = "text"

\* The native loop has an approval pending only while it waits for it.
Swept ==
  /\ NoStaleQuestion
  /\ \A t \in approvals \ External : exec[t] = "waiting"

\* A Turn that a crash left Queued or Running has no task any more.  Recovery
\* fails it, and between its two writes it is the one being explained.
Interrupted ==
  /\ mode = "up" => explaining = NoTurn
  /\ \A t \in interrupted :
       /\ prep[t] \in {"done", "crashed"}
       /\ exec[t] \in {"none", "gone", "crashed"}
       /\ \/ mode # "up" /\ turnStatus[t] \in Active
          \/ /\ turnStatus[t] = "Failed"
             /\ t \in reasons \cup torn \/ explaining = t

\* Without failing store calls a Failed Turn lacks its error only between two
\* writes, or because a crash fell between them.
Explained ==
  MaxStoreErrors = 0 =>
    \A t \in Turns : turnStatus[t] = "Failed" =>
      \/ t \in reasons \cup torn
      \/ explaining = t
      \/ exec[t] = "explaining"

Control ==
  /\ Placed
  /\ Guarded
  /\ StatusFollowsControl
  /\ Announceable
  /\ Clean
  /\ Leased
  /\ Answered
  /\ Swept

IInv ==
  /\ TypeOK
  /\ Control
  /\ MaxStoreErrors = 0 => OneActiveTurnPerThread
==============================================================================
