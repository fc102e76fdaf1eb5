-------------------------- MODULE TurnRuntimeProofs ---------------------------
(***************************************************************************)
(* Theorems about TurnRuntime for every set of Threads, Turns and adapters *)
(* and every bound: its types, its inductive invariant and what follows    *)
(* from it, and that it implements LinearThread when no store call fails.  *)
(***************************************************************************)
EXTENDS TurnRuntime, TLAPS

------------------------------------------------------------------------------
(* Type correctness *)

LEMMA InitTyped == Init => TypeOK
BY SMTT(60), ConstantsAssumption
   DEF Init, TypeOK, PrepSteps, ExecSteps, PrepHolding, ExecHolding

LEMMA PreparingTyped ==
  ASSUME TypeOK, NEW t \in Turns, Preparing(t)
  PROVE  TypeOK'
<1> USE DEF TypeOK, PrepMoves, durable, memory, slots, brokers, table, locals,
            caller, task, world, calm, history, bounds, PrepSteps, ExecSteps,
            PrepHolding,
            ExecHolding, Active, Terminal, SetTurn, StoreFails
<1>0. ThreadOf[t] \in Threads
  BY ConstantsAssumption
<1>1. CASE LoadThread(t) BY <1>1 DEF LoadThread
<1>2. CASE ReserveThread(t) BY <1>2, <1>0 DEF ReserveThread
<1>3. CASE ClaimThread(t) BY <1>3, <1>0 DEF ClaimThread
<1>4. CASE ClaimThreadFails(t)
  BY <1>4, ConstantsAssumption DEF ClaimThreadFails
<1>5. CASE PersistQueuedTurn(t) BY <1>5 DEF PersistQueuedTurn
<1>6. CASE PersistQueuedTurnFails(t)
  BY <1>6, ConstantsAssumption DEF PersistQueuedTurnFails
<1>7. CASE UndoClaim(t)
  BY <1>7, <1>0, ConstantsAssumption DEF UndoClaim, MarkThreadIdle
<1>8. CASE ReleaseRejected(t) BY <1>8 DEF ReleaseRejected
<1>9. CASE GrantLease(t) BY <1>9 DEF GrantLease
<1>10. CASE RegisterToken(t) BY <1>10 DEF RegisterToken
<1>11. CASE SpawnExecution(t) BY <1>11 DEF SpawnExecution
<1>12. QED
  BY SMTT(60), <1>1, <1>2, <1>3, <1>4, <1>5, <1>6, <1>7, <1>8, <1>9, <1>10, <1>11
     DEF Preparing

LEMMA StartingTyped ==
  ASSUME TypeOK, NEW t \in Turns, Starting(t)
  PROVE  TypeOK'
<1> USE DEF TypeOK, ExecMoves, durable, memory, slots, brokers, table, locals,
            caller, task, world, calm, history, bounds, ExecSteps,
            ExecHolding, Active,
            Terminal, SetTurn, StoreFails
<1>1. CASE ClaimTurn(t) BY <1>1 DEF ClaimTurn
<1>2. CASE ClaimTurnFails(t) BY <1>2, ConstantsAssumption DEF ClaimTurnFails
<1>3. CASE TakeLease(t) BY <1>3 DEF TakeLease
<1>4. QED
  BY <1>1, <1>2, <1>3 DEF Starting

LEMMA WorkingTyped ==
  ASSUME TypeOK, NEW t \in Turns, Working(t)
  PROVE  TypeOK'
<1> USE DEF TypeOK, ExecMoves, durable, memory, slots, brokers, table, locals,
            caller, task, world, calm, history, bounds, ExecSteps,
            ExecHolding, Active,
            Terminal
<1>1. CASE RequestApproval(t) BY <1>1 DEF RequestApproval
<1>2. CASE ApprovalDecided(t) BY <1>2 DEF ApprovalDecided
<1>3. CASE ApprovalCancelled(t) BY <1>3 DEF ApprovalCancelled
<1>4. CASE BackendAsks(t) BY <1>4 DEF BackendAsks
<1>5. CASE NativeFails(t) BY <1>5 DEF NativeFails
<1>6. CASE NativeCancelled(t) BY <1>6 DEF NativeCancelled
<1>7. CASE NativeAnswers(t) BY <1>7 DEF NativeAnswers
<1>8. CASE BackendCancelled(t) BY <1>8 DEF BackendCancelled
<1>9. CASE BackendReturns(t) BY <1>9 DEF BackendReturns
<1>10. QED
  BY <1>1, <1>2, <1>3, <1>4, <1>5, <1>6, <1>7, <1>8, <1>9 DEF Working

LEMMA FinishingTyped ==
  ASSUME TypeOK, NEW t \in Turns, Finishing(t)
  PROVE  TypeOK'
<1> USE DEF TypeOK, ExecMoves, durable, memory, slots, brokers, table, locals,
            caller, task, world, calm, history, bounds, ExecSteps,
            ExecHolding, Active,
            Terminal, StoreFails
<1>0. FinalStatus(t) \in Terminal
  BY DEF FinalStatus
<1>1. CASE PersistActivity(t) BY <1>1, ConstantsAssumption DEF PersistActivity
<1>2. CASE PersistAnswer(t) BY <1>2, ConstantsAssumption DEF PersistAnswer
<1>3. CASE FinishTurn(t) BY <1>3, <1>0 DEF FinishTurn, SetTurn
<1>4. CASE FinishTurnFails(t) BY <1>4, ConstantsAssumption DEF FinishTurnFails
<1>5. CASE ExplainTurn(t) BY <1>5, ConstantsAssumption DEF ExplainTurn
<1>6. CASE SweepPrompts(t) BY <1>6 DEF SweepPrompts
<1>7. CASE IdleThread(t)
  BY <1>7, ConstantsAssumption DEF IdleThread, MarkThreadIdle
<1>8. CASE ReleaseThread(t) BY <1>8 DEF ReleaseThread
<1>9. CASE Announce(t) BY <1>9 DEF Announce
<1>10. CASE LeaveManager(t) BY <1>10 DEF LeaveManager
<1>11. QED
  BY SMTT(60), <1>1, <1>2, <1>3, <1>4, <1>5, <1>6, <1>7, <1>8, <1>9, <1>10
     DEF Finishing

LEMMA ClientsTyped ==
  ASSUME TypeOK, NEW t \in Turns, Clients(t)
  PROVE  TypeOK'
<1> USE DEF TypeOK, durable, memory, slots, brokers, table, locals, caller,
            task, world, calm, history, bounds, PrepSteps, PrepHolding
<1>1. CASE RespondApproval(t) BY <1>1 DEF RespondApproval
<1>2. CASE RespondPrompt(t) BY <1>2 DEF RespondPrompt
<1>3. CASE CancelTurn(t) BY <1>3 DEF CancelTurn
<1>4. CASE AbandonPrepare(t) BY <1>4 DEF AbandonPrepare
<1>5. CASE LoseClaim(t) BY <1>5, ConstantsAssumption DEF LoseClaim, Duplicate
<1>6. QED
  BY <1>1, <1>2, <1>3, <1>4, <1>5 DEF Clients

LEMMA RecoveringTyped ==
  ASSUME TypeOK, Recovering
  PROVE  TypeOK'
<1> USE DEF TypeOK, durable, memory, slots, brokers, table, locals, caller,
            task, world, calm, history, bounds, SetTurn, Active, Terminal
<1>1. ASSUME NEW t \in Turns, RecoverQueued(t) PROVE TypeOK'
  BY <1>1 DEF RecoverQueued
<1>2. ASSUME NEW t \in Turns, RecoverRunning(t) PROVE TypeOK'
  BY <1>2 DEF RecoverRunning
<1>3. ASSUME NEW t \in Turns, RecoverReason(t) PROVE TypeOK'
  BY <1>3 DEF RecoverReason
<1>4. ASSUME NEW h \in Threads, RecoverThread(h) PROVE TypeOK'
  BY <1>4 DEF RecoverThread, MarkThreadIdle
<1>5. CASE FinishRecovery BY <1>5 DEF FinishRecovery
<1>6. QED
  BY <1>1, <1>2, <1>3, <1>4, <1>5, Recovering DEF Recovering

LEMMA CrashTyped ==
  ASSUME TypeOK, Crash
  PROVE  TypeOK'
BY ConstantsAssumption
   DEF Crash, TypeOK, durable, bounds, PrepSteps, ExecSteps, PrepHolding,
       ExecHolding, PrepLive, ExecLive

LEMMA StepTyped == TypeOK /\ [Next]_vars => TypeOK'
<1> SUFFICES ASSUME TypeOK, [Next]_vars PROVE TypeOK'
  OBVIOUS
<1>1. ASSUME NEW t \in Turns,
             Preparing(t) \/ Starting(t) \/ Working(t) \/ Finishing(t)
               \/ Clients(t)
      PROVE  TypeOK'
  BY <1>1, PreparingTyped, StartingTyped, WorkingTyped, FinishingTyped,
     ClientsTyped
<1>2. ASSUME NEW a \in Adapters, ReplaceProvider(a) PROVE TypeOK'
  BY <1>2 DEF ReplaceProvider, TypeOK, durable, brokers, table, locals,
              caller, task, world, calm, history, bounds
<1>3. CASE Restart
  BY <1>3 DEF Restart, TypeOK, durable, memory, slots, brokers, table, locals,
              caller, task, history, bounds
<1>4. CASE UNCHANGED vars
  BY <1>4 DEF vars, TypeOK, durable, memory, slots, brokers, table, locals,
              caller, task, world, calm, history, bounds
<1>5. QED
  BY <1>1, <1>2, <1>3, <1>4, CrashTyped, RecoveringTyped DEF Next

\* Every variable of the runtime model keeps its type (the state read and
\* written by prepare_turn, execute_turn, finish_turn and recovery).
THEOREM TypeCorrect == Spec => []TypeOK
<1>1. Init => TypeOK
  BY InitTyped
<1>2. TypeOK /\ [Next]_vars => TypeOK'
  BY StepTyped
<1>3. QED
  BY <1>1, <1>2, PTL DEF Spec

------------------------------------------------------------------------------
(* The inductive invariant: each step preserves Control.  Holding a Thread    *)
(* (Guarded) is what makes the stored status follow the control points, and   *)
(* both together make the Thread Idle whenever it changes hands.              *)

LEMMA InitControlled == Init => Control
BY SMTT(60), ConstantsAssumption
   DEF Init, Control, Placed, Guarded, OneHolderPerThread, NothingOrphaned,
       StatusFollowsControl, Announceable, Clean, Leased, LeasePinsAdapter,
       Answered, NoAnswerOnCancelledTurn, Swept, NoStaleQuestion, Holds,
       PrepHolding, ExecHolding, ExecLive, ExecSteps, Untouched, Running,
       Cleaning, Active, Terminal

LEMMA PreparingControlled ==
  ASSUME TypeOK, Control, NEW t \in Turns, Preparing(t)
  PROVE  Control'
<1> USE ConstantsAssumption
    DEF TypeOK, Control, Placed, Guarded, OneHolderPerThread, NothingOrphaned,
        StatusFollowsControl, Announceable, Clean, Leased, LeasePinsAdapter,
        Answered, NoAnswerOnCancelledTurn, Swept, NoStaleQuestion, Holds,
        PrepHolding, ExecHolding, ExecLive, ExecSteps, PrepSteps, Untouched,
        Running, Cleaning, Active, Terminal, durable, memory, slots, brokers,
        table, locals, caller, task, world, calm, history, bounds
<1> USE DEF PrepMoves, SetTurn, StoreFails, MarkThreadIdle
<1>1. CASE LoadThread(t) BY SMTT(60), <1>1 DEF LoadThread
<1>2. CASE ReserveThread(t) BY SMTT(60), <1>2 DEF ReserveThread
<1>3. CASE ClaimThread(t) BY <1>3 DEF ClaimThread
<1>4. CASE ClaimThreadFails(t) BY <1>4 DEF ClaimThreadFails
<1>5. CASE PersistQueuedTurn(t) BY <1>5 DEF PersistQueuedTurn
<1>6. CASE PersistQueuedTurnFails(t) BY <1>6 DEF PersistQueuedTurnFails
<1>7. CASE UndoClaim(t) BY SMTT(60), <1>7 DEF UndoClaim
<1>8. CASE ReleaseRejected(t) BY <1>8 DEF ReleaseRejected
<1>9. CASE GrantLease(t) BY <1>9 DEF GrantLease
<1>10. CASE RegisterToken(t) BY <1>10 DEF RegisterToken
<1>11. CASE SpawnExecution(t) BY SMTT(60), <1>11 DEF SpawnExecution
<1>12. QED
  BY SMTT(60), <1>1, <1>2, <1>3, <1>4, <1>5, <1>6, <1>7, <1>8, <1>9, <1>10,
     <1>11
     DEF Preparing

LEMMA StartingControlled ==
  ASSUME TypeOK, Control, NEW t \in Turns, Starting(t)
  PROVE  Control'
<1> USE ConstantsAssumption
    DEF TypeOK, Control, Placed, Guarded, OneHolderPerThread, NothingOrphaned,
        StatusFollowsControl, Announceable, Clean, Leased, LeasePinsAdapter,
        Answered, NoAnswerOnCancelledTurn, Swept, NoStaleQuestion, Holds,
        PrepHolding, ExecHolding, ExecLive, ExecSteps, PrepSteps, Untouched,
        Running, Cleaning, Active, Terminal, durable, memory, slots, brokers,
        table, locals, caller, task, world, calm, history, bounds
<1> USE DEF ExecMoves, SetTurn, StoreFails
<1>1. CASE ClaimTurn(t) BY <1>1 DEF ClaimTurn
<1>2. CASE ClaimTurnFails(t) BY <1>2 DEF ClaimTurnFails
<1>3. CASE TakeLease(t) BY SMTT(60), <1>3 DEF TakeLease
<1>4. QED
  BY <1>1, <1>2, <1>3 DEF Starting

LEMMA WorkingControlled ==
  ASSUME TypeOK, Control, NEW t \in Turns, Working(t)
  PROVE  Control'
<1> USE ConstantsAssumption
    DEF TypeOK, Control, Placed, Guarded, OneHolderPerThread, NothingOrphaned,
        StatusFollowsControl, Announceable, Clean, Leased, LeasePinsAdapter,
        Answered, NoAnswerOnCancelledTurn, Swept, NoStaleQuestion, Holds,
        PrepHolding, ExecHolding, ExecLive, ExecSteps, PrepSteps, Untouched,
        Running, Cleaning, Active, Terminal, durable, memory, slots, brokers,
        table, locals, caller, task, world, calm, history, bounds
<1> USE DEF ExecMoves
<1>1. CASE RequestApproval(t) BY <1>1 DEF RequestApproval
<1>2. CASE ApprovalDecided(t) BY SMTT(60), <1>2 DEF ApprovalDecided
<1>3. CASE ApprovalCancelled(t) BY <1>3 DEF ApprovalCancelled
<1>4. CASE BackendAsks(t) BY <1>4 DEF BackendAsks
<1>5. CASE NativeFails(t) BY <1>5 DEF NativeFails
<1>6. CASE NativeCancelled(t) BY <1>6 DEF NativeCancelled
<1>7. CASE NativeAnswers(t) BY <1>7 DEF NativeAnswers
<1>8. CASE BackendCancelled(t) BY SMTT(60), <1>8 DEF BackendCancelled
<1>9. CASE BackendReturns(t) BY SMTT(60), <1>9 DEF BackendReturns
<1>10. QED
  BY SMTT(60), <1>1, <1>2, <1>3, <1>4, <1>5, <1>6, <1>7, <1>8, <1>9 DEF Working

LEMMA FinishingControlled ==
  ASSUME TypeOK, Control, NEW t \in Turns, Finishing(t)
  PROVE  Control'
<1> USE ConstantsAssumption
    DEF TypeOK, Control, Placed, Guarded, OneHolderPerThread, NothingOrphaned,
        StatusFollowsControl, Announceable, Clean, Leased, LeasePinsAdapter,
        Answered, NoAnswerOnCancelledTurn, Swept, NoStaleQuestion, Holds,
        PrepHolding, ExecHolding, ExecLive, ExecSteps, PrepSteps, Untouched,
        Running, Cleaning, Active, Terminal, durable, memory, slots, brokers,
        table, locals, caller, task, world, calm, history, bounds
<1> USE DEF ExecMoves, SetTurn, StoreFails, MarkThreadIdle, FinalStatus
<1>1. CASE PersistActivity(t) BY SMTT(60), <1>1 DEF PersistActivity
<1>2. CASE PersistAnswer(t) BY SMTT(60), <1>2 DEF PersistAnswer
<1>3. CASE FinishTurn(t) BY SMTT(60), <1>3 DEF FinishTurn
<1>4. CASE FinishTurnFails(t) BY SMTT(60), <1>4 DEF FinishTurnFails
<1>5. CASE ExplainTurn(t) BY SMTT(60), <1>5 DEF ExplainTurn
<1>6. CASE SweepPrompts(t) BY SMTT(60), <1>6 DEF SweepPrompts
<1>7. CASE IdleThread(t) BY SMTT(60), <1>7 DEF IdleThread
<1>8. CASE ReleaseThread(t) BY SMTT(60), <1>8 DEF ReleaseThread
<1>9. CASE Announce(t) BY SMTT(60), <1>9 DEF Announce
<1>10. CASE LeaveManager(t) BY SMTT(60), <1>10 DEF LeaveManager
<1>11. QED
  BY SMTT(60), <1>1, <1>2, <1>3, <1>4, <1>5, <1>6, <1>7, <1>8, <1>9, <1>10
     DEF Finishing

LEMMA ClientsControlled ==
  ASSUME TypeOK, Control, NEW t \in Turns, Clients(t)
  PROVE  Control'
<1> USE ConstantsAssumption
    DEF TypeOK, Control, Placed, Guarded, OneHolderPerThread, NothingOrphaned,
        StatusFollowsControl, Announceable, Clean, Leased, LeasePinsAdapter,
        Answered, NoAnswerOnCancelledTurn, Swept, NoStaleQuestion, Holds,
        PrepHolding, ExecHolding, ExecLive, ExecSteps, PrepSteps, Untouched,
        Running, Cleaning, Active, Terminal, durable, memory, slots, brokers,
        table, locals, caller, task, world, calm, history, bounds
<1>1. CASE RespondApproval(t) BY SMTT(60), <1>1 DEF RespondApproval
<1>2. CASE RespondPrompt(t) BY <1>2 DEF RespondPrompt
<1>3. CASE CancelTurn(t) BY SMTT(60), <1>3 DEF CancelTurn
<1>4. CASE AbandonPrepare(t) BY SMTT(60), <1>4 DEF AbandonPrepare
<1>5. CASE LoseClaim(t) BY SMTT(60), <1>5 DEF LoseClaim, Duplicate
<1>6. QED
  BY SMTT(60), <1>1, <1>2, <1>3, <1>4, <1>5 DEF Clients

LEMMA RecoveringControlled ==
  ASSUME TypeOK, Control, Recovering
  PROVE  Control'
<1> USE ConstantsAssumption
    DEF TypeOK, Control, Placed, Guarded, OneHolderPerThread, NothingOrphaned,
        StatusFollowsControl, Announceable, Clean, Leased, LeasePinsAdapter,
        Answered, NoAnswerOnCancelledTurn, Swept, NoStaleQuestion, Holds,
        PrepHolding, ExecHolding, ExecLive, ExecSteps, PrepSteps, Untouched,
        Running, Cleaning, Active, Terminal, durable, memory, slots, brokers,
        table, locals, caller, task, world, calm, history, bounds
<1> USE DEF SetTurn, MarkThreadIdle
<1>1. ASSUME NEW t \in Turns, RecoverQueued(t) PROVE Control'
  BY SMTT(60), <1>1 DEF RecoverQueued
<1>2. ASSUME NEW t \in Turns, RecoverRunning(t) PROVE Control'
  BY SMTT(60), <1>2 DEF RecoverRunning
<1>3. ASSUME NEW t \in Turns, RecoverReason(t) PROVE Control'
  BY SMTT(60), <1>3 DEF RecoverReason
<1>4. ASSUME NEW h \in Threads, RecoverThread(h) PROVE Control'
  BY SMTT(60), <1>4 DEF RecoverThread
<1>5. CASE FinishRecovery BY SMTT(60), <1>5 DEF FinishRecovery
<1>6. QED
  BY SMTT(60), <1>1, <1>2, <1>3, <1>4, <1>5, Recovering DEF Recovering

LEMMA CrashControlled ==
  ASSUME TypeOK, Control, Crash
  PROVE  Control'
BY SMTT(60), ConstantsAssumption
   DEF Crash, PrepLive, TypeOK, Control, Placed, Guarded, OneHolderPerThread,
       NothingOrphaned,
       StatusFollowsControl, Announceable, Clean, Leased, LeasePinsAdapter,
       Answered, NoAnswerOnCancelledTurn, Swept, NoStaleQuestion, Holds,
       PrepHolding, ExecHolding, ExecLive, ExecSteps, PrepSteps, Untouched,
       Running, Cleaning, Active, Terminal, durable, memory, slots, brokers,
       table, locals, caller, task, world, calm, history, bounds

LEMMA StepControlled == TypeOK /\ Control /\ [Next]_vars => Control'
<1> SUFFICES ASSUME TypeOK, Control, [Next]_vars PROVE Control'
  BY SMTT(60)
<1> USE ConstantsAssumption
    DEF TypeOK, Control, Placed, Guarded, OneHolderPerThread, NothingOrphaned,
        StatusFollowsControl, Announceable, Clean, Leased, LeasePinsAdapter,
        Answered, NoAnswerOnCancelledTurn, Swept, NoStaleQuestion, Holds,
        PrepHolding, ExecHolding, ExecLive, ExecSteps, PrepSteps, Untouched,
        Running, Cleaning, Active, Terminal, durable, memory, slots, brokers,
        table, locals, caller, task, world, calm, history, bounds
<1>1. ASSUME NEW t \in Turns,
             Preparing(t) \/ Starting(t) \/ Working(t) \/ Finishing(t)
               \/ Clients(t)
      PROVE  Control'
  BY SMTT(60), <1>1, PreparingControlled, StartingControlled, WorkingControlled,
     FinishingControlled, ClientsControlled
<1>2. ASSUME NEW a \in Adapters, ReplaceProvider(a) PROVE Control'
  BY <1>2 DEF ReplaceProvider
<1>3. CASE Restart BY SMTT(60), <1>3 DEF Restart
<1>4. CASE UNCHANGED vars BY <1>4 DEF vars
<1>5. QED
  BY SMTT(60), <1>1, <1>2, <1>3, <1>4, CrashControlled,
     RecoveringControlled DEF Next

\* Only a process that is up makes a Turn active.
LEMMA NoNewActiveTurns ==
  ASSUME TypeOK, [Next]_vars, mode' # "up", NEW t \in Turns,
         turnStatus'[t] \in Active
  PROVE  turnStatus[t] \in Active
<1> USE DEF TypeOK, SetTurn, Active, Terminal, durable, memory, locals, task,
            world, calm, history, bounds
<1>1. ASSUME NEW u \in Turns,
             Preparing(u) \/ Starting(u) \/ Working(u) \/ Finishing(u)
               \/ Clients(u)
      PROVE  FALSE
  <2> USE DEF PrepMoves, ExecMoves
  <2>1. ~ Preparing(u)
    BY DEF Preparing, LoadThread, ReserveThread, ClaimThread,
           ClaimThreadFails, PersistQueuedTurn, PersistQueuedTurnFails,
           UndoClaim, ReleaseRejected, GrantLease, RegisterToken,
           SpawnExecution
  <2>2. ~ Starting(u)
    BY DEF Starting, ClaimTurn, ClaimTurnFails, TakeLease
  <2>3. ~ Working(u)
    BY DEF Working, RequestApproval, ApprovalDecided, ApprovalCancelled,
           BackendAsks, NativeFails, NativeCancelled, NativeAnswers,
           BackendCancelled, BackendReturns
  <2>4. ~ Finishing(u)
    BY DEF Finishing, PersistActivity, PersistAnswer, FinishTurn,
           FinishTurnFails, ExplainTurn, SweepPrompts, IdleThread,
           ReleaseThread, Announce, LeaveManager
  <2>5. ~ Clients(u)
    BY DEF Clients, RespondApproval, RespondPrompt, CancelTurn,
           AbandonPrepare, LoseClaim, Duplicate
  <2>6. QED
    BY <1>1, <2>1, <2>2, <2>3, <2>4, <2>5
<1>2. CASE \E a \in Adapters : ReplaceProvider(a)
  BY <1>2 DEF ReplaceProvider
<1>3. CASE Crash BY <1>3 DEF Crash
<1>4. CASE Restart BY <1>4 DEF Restart
<1>5. CASE Recovering
  BY <1>5 DEF Recovering, RecoverQueued, RecoverRunning, RecoverReason,
              RecoverThread, FinishRecovery
<1>6. CASE UNCHANGED vars BY <1>6 DEF vars
<1>7. QED
  BY <1>1, <1>2, <1>3, <1>4, <1>5, <1>6 DEF Next

LEMMA StepInvariant == IInv /\ [Next]_vars => IInv'
<1> SUFFICES ASSUME IInv, [Next]_vars PROVE IInv'
  OBVIOUS
<1>1. TypeOK'
  BY StepTyped DEF IInv
<1>2. Control'
  BY StepControlled DEF IInv
<1>3. ASSUME MaxStoreErrors = 0 PROVE OneActiveTurnPerThread'
  <2> SUFFICES ASSUME NEW t1 \in Turns, NEW t2 \in Turns,
                      ThreadOf[t1] = ThreadOf[t2],
                      turnStatus'[t1] \in Active, turnStatus'[t2] \in Active
               PROVE  t1 = t2
    BY DEF OneActiveTurnPerThread
  <2>1. CASE mode' = "up"
    <3>1. errors' = 0
      BY <1>1, <1>3 DEF TypeOK
    <3>2. Holds(t1)' /\ Holds(t2)'
      BY <1>2, <2>1, <3>1 DEF Control, Clean, NothingOrphaned
    <3>3. QED
      BY <1>2, <3>2 DEF Control, Guarded, OneHolderPerThread
  <2>2. CASE mode' # "up"
    <3>1. turnStatus[t1] \in Active /\ turnStatus[t2] \in Active
      BY <2>2, NoNewActiveTurns DEF IInv
    <3>2. QED
      BY <1>3, <3>1 DEF IInv, OneActiveTurnPerThread
  <2>3. QED
    BY <2>1, <2>2
<1>4. QED
  BY <1>1, <1>2, <1>3 DEF IInv

\* The inductive invariant: where each Turn's tasks are determines what the
\* store, the reservation table, the leases and the brokers hold for it.
THEOREM Invariant == Spec => []IInv
<1>1. Init => IInv
  <2>1. Init => OneActiveTurnPerThread
    BY DEF Init, OneActiveTurnPerThread, Active
  <2>2. QED
    BY <2>1, InitTyped, InitControlled DEF IInv
<1>2. IInv /\ [Next]_vars => IInv'
  BY StepInvariant
<1>3. QED
  BY <1>1, <1>2, PTL DEF Spec

------------------------------------------------------------------------------
(* Safety *)

\* At most one request holds a Thread between its reservation in
\* active_threads and its release, whatever store calls fail, callers vanish,
\* duplicates arrive or crashes happen.
THEOREM OneHolder == Spec => []OneHolderPerThread
<1>1. IInv => OneHolderPerThread
  BY DEF IInv, Control, Guarded
<1>2. QED
  BY <1>1, Invariant, PTL

\* While no store call has failed, no Thread stays Running and no Turn stays
\* Queued or Running without a request of this process behind it: the cleanup
\* of prepare_turn and execute_turn, a vanished caller's reservation and
\* recover_interrupted_turns together lose nothing.
THEOREM NothingIsOrphaned == Spec => []NothingOrphaned
<1>1. IInv => NothingOrphaned
  BY DEF IInv, Control, Clean
<1>2. QED
  BY <1>1, Invariant, PTL

\* A Thread has at most one Queued or Running Turn if its store never fails;
\* the run TwoActive shows that one failing write is enough to break it.
THEOREM OneActiveTurn ==
  ASSUME MaxStoreErrors = 0
  PROVE  Spec => []OneActiveTurnPerThread
<1>1. IInv => OneActiveTurnPerThread
  BY DEF IInv
<1>2. QED
  BY <1>1, Invariant, PTL

\* Replacing a provider while a Turn is queued never moves the Turn to another
\* adapter (provider_leases).
THEOREM LeasesPin == Spec => []LeasePinsAdapter
<1>1. IInv => LeasePinsAdapter
  BY DEF IInv, Control, Leased
<1>2. QED
  BY <1>1, Invariant, PTL

\* No Turn of an external backend is Cancelled with a stored answer: the answer
\* is the commit point (execute_turn_with_backend's fresh token).
THEOREM AnswerCommits == Spec => []NoAnswerOnCancelledTurn
<1>1. IInv => NoAnswerOnCancelledTurn
  BY DEF IInv, Control, Answered
<1>2. QED
  BY <1>1, Invariant, PTL

\* After its cleanup no Turn has a structured question left, and no native
\* Turn an approval.
THEOREM QuestionsAreSwept == Spec => []NoStaleQuestion
<1>1. IInv => NoStaleQuestion
  BY DEF IInv, Control, Swept
<1>2. QED
  BY <1>1, Invariant, PTL

\* The four of them together, for any number of faults.
THEOREM TurnsStayApartAlways == Spec => []TurnsStayApart
BY OneHolder, LeasesPin, AnswerCommits, QuestionsAreSwept, PTL
   DEF TurnsStayApart

------------------------------------------------------------------------------
(* Recovery *)

\* No task of a process touches a Turn that an earlier process left active.
LEMMA InterruptedTurnsRest ==
  ASSUME IInv, Interrupted, NEW u \in Turns,
         Preparing(u) \/ Starting(u) \/ Working(u) \/ Finishing(u) \/ Clients(u)
  PROVE  /\ UNCHANGED <<mode, explaining, interrupted, torn>>
         /\ \A t \in interrupted :
              /\ UNCHANGED <<prep[t], exec[t], turnStatus[t]>>
              /\ t \in reasons => t \in reasons'
<1> USE DEF IInv, TypeOK, Interrupted, SetTurn, StoreFails, durable, memory,
            slots, brokers, table, caller, task, locals, world, calm, history,
            bounds
<1>1. CASE Preparing(u)
  BY <1>1 DEF PrepMoves, Preparing, LoadThread, ReserveThread, ClaimThread,
              ClaimThreadFails, PersistQueuedTurn, PersistQueuedTurnFails,
              UndoClaim, ReleaseRejected, GrantLease, RegisterToken,
              SpawnExecution
<1>2. CASE Starting(u)
  BY <1>2 DEF ExecMoves, Starting, ClaimTurn, ClaimTurnFails, TakeLease
<1>3. CASE Working(u)
  BY <1>3 DEF ExecMoves, Working, RequestApproval, ApprovalDecided,
              ApprovalCancelled, BackendAsks, NativeFails, NativeCancelled,
              NativeAnswers, BackendCancelled, BackendReturns
<1>4. CASE Finishing(u)
  BY <1>4 DEF ExecMoves, Finishing, PersistActivity, PersistAnswer, FinishTurn,
              FinishTurnFails, ExplainTurn, SweepPrompts, IdleThread,
              ReleaseThread, Announce, LeaveManager
<1>5. CASE Clients(u)
  BY <1>5 DEF Clients, RespondApproval, RespondPrompt, CancelTurn,
              AbandonPrepare, LoseClaim, Duplicate
<1>6. QED
  BY <1>1, <1>2, <1>3, <1>4, <1>5

\* A crash ends every task of the Turns it leaves active.
LEMMA CrashInterrupts == IInv /\ Interrupted /\ Crash => Interrupted'
<1> SUFFICES ASSUME IInv, Interrupted, Crash PROVE Interrupted'
  OBVIOUS
<1>1. /\ mode' = "down" /\ explaining' = NoTurn
      /\ UNCHANGED <<turnStatus, reasons>>
  BY DEF Crash, durable
<1>2. ASSUME NEW t \in interrupted'
      PROVE  /\ prep'[t] \in {"done", "crashed"}
             /\ exec'[t] \in {"none", "gone", "crashed"}
             /\ \/ turnStatus[t] \in Active
                \/ turnStatus[t] = "Failed" /\ t \in reasons \cup torn'
  <2>1. t \in Turns
    BY DEF Crash, IInv, TypeOK
  <2>2. /\ prep'[t] = IF prep[t] \in PrepLive THEN "crashed" ELSE prep[t]
        /\ exec'[t] = IF exec[t] \in ExecLive THEN "crashed" ELSE exec[t]
        /\ prep[t] \in PrepSteps /\ exec[t] \in ExecSteps
    BY <2>1 DEF Crash, IInv, TypeOK
  <2>3. exec'[t] \in {"none", "gone", "crashed"}
    BY <2>2 DEF ExecLive
  <2>4. CASE t \in interrupted
    <3>1. t \in torn' \/ explaining # t
      BY <2>1 DEF Crash
    <3>2. torn \subseteq torn'
      BY DEF Crash
    <3> QED
      BY <2>2, <2>3, <2>4, <3>1, <3>2 DEF Interrupted
  <2>5. CASE t \notin interrupted
    <3>1. turnStatus[t] \in Active
      BY <2>5 DEF Crash
    <3>2. prep[t] \notin Untouched
      BY <2>1, <3>1 DEF Active, IInv, Control, StatusFollowsControl
    <3>3. prep'[t] \in {"done", "crashed"}
      BY <2>2, <3>2 DEF PrepLive, Untouched
    <3> QED
      BY <2>3, <3>1, <3>3
  <2> QED
    BY <2>4, <2>5
<1> QED
  BY <1>1, <1>2 DEF Interrupted

\* Recovery looks at each active Turn, makes it Failed and says why.
LEMMA RecoveryExplains ==
  IInv /\ Interrupted /\ (Restart \/ Recovering) => Interrupted'
<1> SUFFICES ASSUME IInv, Interrupted, Restart \/ Recovering PROVE Interrupted'
  OBVIOUS
<1> USE DEF IInv, TypeOK, Interrupted, SetTurn, durable, locals, caller, task,
            world, history, bounds
<1>1. CASE Restart
  BY <1>1 DEF Restart
<1>2. ASSUME NEW t \in Turns, RecoverQueued(t) PROVE Interrupted'
  BY <1>2 DEF RecoverQueued, Active
<1>3. ASSUME NEW t \in Turns, RecoverRunning(t) PROVE Interrupted'
  BY <1>3, ConstantsAssumption DEF RecoverRunning
<1>4. ASSUME NEW t \in Turns, RecoverReason(t) PROVE Interrupted'
  BY <1>4, ConstantsAssumption DEF RecoverReason
<1>5. ASSUME NEW h \in Threads, RecoverThread(h) PROVE Interrupted'
  BY <1>5 DEF RecoverThread
<1>6. CASE FinishRecovery
  BY <1>6, ConstantsAssumption DEF FinishRecovery
<1> QED
  BY <1>1, <1>2, <1>3, <1>4, <1>5, <1>6 DEF Recovering

\* Only the two writes of finish_turn and the two of recovery make a Failed
\* Turn, and without failing store calls each pair is completed or cut off.
LEMMA FailuresAreExplained ==
  IInv /\ Interrupted /\ Explained /\ [Next]_vars => Explained'
<1> SUFFICES ASSUME IInv, Interrupted, Explained, [Next]_vars,
                    MaxStoreErrors = 0,
                    NEW t \in Turns, turnStatus'[t] = "Failed"
             PROVE  \/ t \in reasons' \cup torn'
                    \/ explaining' = t
                    \/ exec'[t] = "explaining"
  BY DEF Explained
<1> USE DEF IInv, TypeOK, SetTurn, durable, memory, slots, brokers, table,
            caller, task, locals, world, calm, history, bounds
<1>0. /\ errors = 0 /\ ~ StoreFails
      /\ turnStatus[t] = "Failed" =>
           \/ t \in reasons \cup torn
           \/ explaining = t
           \/ exec[t] = "explaining"
  BY ConstantsAssumption DEF Explained, StoreFails
<1> DEFINE Said == \/ t \in reasons' \cup torn'
                   \/ explaining' = t
                   \/ exec'[t] = "explaining"
<1>1. ASSUME NEW u \in Turns, Preparing(u) PROVE Said
  BY <1>0, <1>1
     DEF PrepMoves, Preparing, LoadThread, ReserveThread, ClaimThread,
         ClaimThreadFails, PersistQueuedTurn, PersistQueuedTurnFails, UndoClaim,
         ReleaseRejected, GrantLease, RegisterToken, SpawnExecution, Control,
         StatusFollowsControl
<1>2. ASSUME NEW u \in Turns, Starting(u) PROVE Said
  BY <1>0, <1>2
     DEF ExecMoves, Starting, ClaimTurn, ClaimTurnFails, TakeLease, Control,
         StatusFollowsControl, Running
<1>3. ASSUME NEW u \in Turns, Working(u) PROVE Said
  BY <1>0, <1>3
     DEF ExecMoves, Working, RequestApproval, ApprovalDecided,
         ApprovalCancelled, BackendAsks, NativeFails, NativeCancelled,
         NativeAnswers, BackendCancelled, BackendReturns
<1>4. ASSUME NEW u \in Turns, Finishing(u) PROVE Said
  BY <1>0, <1>4
     DEF ExecMoves, Finishing, PersistActivity, PersistAnswer, FinishTurn,
         FinishTurnFails, ExplainTurn, SweepPrompts, IdleThread, ReleaseThread,
         Announce, LeaveManager, Control, StatusFollowsControl
<1>5. ASSUME NEW u \in Turns, Clients(u) PROVE Said
  BY <1>0, <1>5
     DEF Clients, RespondApproval, RespondPrompt, CancelTurn, AbandonPrepare,
         LoseClaim, Duplicate
<1>6. CASE Crash
  <2>1. UNCHANGED <<turnStatus, reasons>>
    BY <1>6 DEF Crash
  <2>2. explaining = t \/ (exec[t] = "explaining" /\ result[t] = "Failed")
          => t \in torn'
    BY <1>6 DEF Crash
  <2>3. exec[t] = "explaining" => result[t] = turnStatus[t]
    BY DEF Control, StatusFollowsControl
  <2>4. torn \subseteq torn'
    BY <1>6 DEF Crash
  <2> QED
    BY <1>0, <2>1, <2>2, <2>3, <2>4
<1>7. CASE Restart \/ Recovering
  BY <1>0, <1>7, ConstantsAssumption
     DEF Restart, Recovering, RecoverQueued, RecoverRunning, RecoverReason,
         RecoverThread, FinishRecovery
<1>8. CASE (\E a \in Adapters : ReplaceProvider(a)) \/ UNCHANGED vars
  BY <1>0, <1>8 DEF ReplaceProvider, vars
<1> QED
  BY <1>1, <1>2, <1>3, <1>4, <1>5, <1>6, <1>7, <1>8 DEF Next

\* "If the app server stopped after a Turn was queued or running,
\* KodyEngine::new marks that Turn failed with a restart reason"
\* (docs/architecture.md:180): once a process is up again, every Turn that an
\* earlier one left Queued or Running is Failed, whatever else failed and
\* however often the process died, and says why unless a crash fell between the
\* two writes of its recovery; without failing store calls every other Failed
\* Turn says why too, but for the window between finish_turn's two writes
\* (recover_interrupted_turns, finish_turn).
THEOREM InterruptedTurnsAreExplained == Spec => []InterruptedTurnIsExplained
<1>1. Init => Interrupted /\ Explained
  BY DEF Init, Interrupted, Explained
<1>2. IInv /\ Interrupted /\ [Next]_vars => Interrupted'
  <2> SUFFICES ASSUME IInv, Interrupted, [Next]_vars PROVE Interrupted'
    OBVIOUS
  <2>1. ASSUME NEW u \in Turns,
               Preparing(u) \/ Starting(u) \/ Working(u) \/ Finishing(u)
                 \/ Clients(u)
        PROVE  Interrupted'
    BY <2>1, InterruptedTurnsRest DEF Interrupted
  <2>2. CASE (\E a \in Adapters : ReplaceProvider(a)) \/ UNCHANGED vars
    BY <2>2 DEF ReplaceProvider, vars, durable, locals, caller, task, world,
                history, bounds, Interrupted
  <2> QED
    BY <2>1, <2>2, CrashInterrupts, RecoveryExplains DEF Next
<1>3. IInv /\ Interrupted /\ Explained => InterruptedTurnIsExplained
  BY ConstantsAssumption
     DEF IInv, TypeOK, Interrupted, Explained, InterruptedTurnIsExplained
<1> QED
  BY <1>1, <1>2, <1>3, FailuresAreExplained, Invariant, PTL DEF Spec

------------------------------------------------------------------------------
(* Action properties *)

\* emit_terminal is the only step that announces.
LEMMA OnlyAnnounceAnnounces ==
  ASSUME [Next]_vars, announced' # announced
  PROVE  \E t \in Turns : Announce(t)
<1> USE DEF memory, locals, caller, task, world, calm, history, bounds
<1>1. ASSUME NEW u \in Turns,
             Preparing(u) \/ Starting(u) \/ Working(u) \/ Clients(u)
      PROVE  FALSE
  <2>1. ~ Preparing(u)
    BY DEF Preparing, LoadThread, ReserveThread, ClaimThread,
           ClaimThreadFails, PersistQueuedTurn, PersistQueuedTurnFails,
           UndoClaim, ReleaseRejected, GrantLease, RegisterToken,
           SpawnExecution
  <2>2. ~ Starting(u)
    BY DEF Starting, ClaimTurn, ClaimTurnFails, TakeLease
  <2>3. ~ Working(u)
    BY DEF Working, RequestApproval, ApprovalDecided, ApprovalCancelled,
           BackendAsks, NativeFails, NativeCancelled, NativeAnswers,
           BackendCancelled, BackendReturns
  <2>4. ~ Clients(u)
    BY DEF Clients, RespondApproval, RespondPrompt, CancelTurn,
           AbandonPrepare, LoseClaim, Duplicate
  <2>5. QED
    BY <1>1, <2>1, <2>2, <2>3, <2>4
<1>2. ASSUME NEW u \in Turns, Finishing(u) PROVE Announce(u)
  BY <1>2 DEF Finishing, PersistActivity, PersistAnswer, FinishTurn,
              FinishTurnFails, ExplainTurn, SweepPrompts, IdleThread,
              ReleaseThread, LeaveManager
<1>3. ~ \E a \in Adapters : ReplaceProvider(a)
  BY DEF ReplaceProvider
<1>4. ~ Crash /\ ~ Restart
  BY DEF Crash, Restart
<1>5. ~ Recovering
  BY DEF Recovering, RecoverQueued, RecoverRunning, RecoverReason,
         RecoverThread, FinishRecovery
<1>6. ~ UNCHANGED vars
  BY DEF vars
<1>7. QED
  BY <1>1, <1>2, <1>3, <1>4, <1>5, <1>6 DEF Next

\* A status is announced only once it is stored and the Thread is Idle again or
\* has been claimed by another request since, however many store calls fail.
THEOREM TerminalEventsAreSafe == Spec => AnnouncedAfterIdle
<1> DEFINE Safe ==
      \A t \in Turns : announced'[t] # announced[t] =>
        /\ turnStatus[t] = announced'[t]
        /\ \/ threadStatus[ThreadOf[t]] = "Idle"
           \/ claimant[ThreadOf[t]] # t
<1>1. IInv /\ [Next]_vars => [Safe]_vars
  <2> SUFFICES ASSUME IInv, [Next]_vars, NEW t \in Turns,
                      announced'[t] # announced[t]
               PROVE  /\ turnStatus[t] = announced'[t]
                      /\ \/ threadStatus[ThreadOf[t]] = "Idle"
                         \/ claimant[ThreadOf[t]] # t
    OBVIOUS
  <2>1. PICK u \in Turns : Announce(u)
    BY OnlyAnnounceAnnounces
  <2>2. /\ u = t
        /\ exec[t] = "announcing"
        /\ result[t] \in Terminal
        /\ announced'[t] = result[t]
    BY <2>1 DEF Announce, ExecMoves, IInv, TypeOK
  <2>3. turnStatus[t] = result[t]
    BY <2>2 DEF IInv, Control, StatusFollowsControl, Cleaning, Terminal
  <2>4. QED
    BY <2>2, <2>3 DEF IInv, Control, Announceable
<1>2. QED
  BY <1>1, Invariant, PTL DEF Spec, AnnouncedAfterIdle

\* No step takes a Turn out of Completed, Failed or Cancelled: not a late
\* cancellation, a duplicate execution or a recovery.
THEOREM TerminalStays == Spec => TerminalIsFinal
<1> DEFINE Final ==
      \A t \in Turns : turnStatus[t] \in Terminal =>
        turnStatus'[t] = turnStatus[t]
<1>1. TypeOK /\ [Next]_vars => [Final]_vars
  <2> SUFFICES ASSUME TypeOK, [Next]_vars PROVE Final
    OBVIOUS
  <2> USE DEF TypeOK, Terminal, SetTurn, durable
  <2>1. ASSUME NEW u \in Turns,
               Preparing(u) \/ Starting(u) \/ Working(u) \/ Finishing(u)
                 \/ Clients(u)
        PROVE  Final
    <3>1. CASE Preparing(u)
      BY <3>1 DEF Preparing, LoadThread, ReserveThread, ClaimThread,
                  ClaimThreadFails, PersistQueuedTurn, PersistQueuedTurnFails,
                  UndoClaim, ReleaseRejected, GrantLease, RegisterToken,
                  SpawnExecution
    <3>2. CASE Starting(u)
      BY <3>2 DEF Starting, ClaimTurn, ClaimTurnFails, TakeLease
    <3>3. CASE Working(u)
      BY <3>3 DEF Working, RequestApproval, ApprovalDecided,
                  ApprovalCancelled, BackendAsks, NativeFails,
                  NativeCancelled, NativeAnswers, BackendCancelled,
                  BackendReturns
    <3>4. CASE Finishing(u)
      BY <3>4 DEF Finishing, PersistActivity, PersistAnswer, FinishTurn,
                  FinishTurnFails, ExplainTurn, SweepPrompts, IdleThread,
                  ReleaseThread, Announce, LeaveManager
    <3>5. CASE Clients(u)
      BY <3>5 DEF Clients, RespondApproval, RespondPrompt, CancelTurn,
                  AbandonPrepare, LoseClaim, Duplicate
    <3>6. QED
      BY <2>1, <3>1, <3>2, <3>3, <3>4, <3>5
  <2>2. CASE Recovering
    BY <2>2 DEF Recovering, RecoverQueued, RecoverRunning, RecoverReason,
                RecoverThread, FinishRecovery
  <2>3. CASE Crash \/ Restart \/ (\E a \in Adapters : ReplaceProvider(a))
    BY <2>3 DEF Crash, Restart, ReplaceProvider
  <2> QED
    BY <2>1, <2>2, <2>3 DEF Next, vars
<1>2. QED
  BY <1>1, TypeCorrect, PTL DEF Spec, TerminalIsFinal

\* An end is told only once it is stored, and nothing changes it afterwards.
THEOREM EndsStaySettled == Spec => EndsAreSettled
BY TerminalEventsAreSafe, TerminalStays, PTL DEF EndsAreSettled

------------------------------------------------------------------------------
(* Refinement: when no store call fails, every step of the tasks, the clients
   and recovery is one step of the linear conversation or changes nothing of
   it. *)

\* The refinement mapping, by name: who has each Thread, and what each holder
\* may have done in one step.
Held == [h \in Threads |-> HolderOf(h)]

Keeps == \A u \in Turns : Holds(u)' <=> Holds(u)
Gains(t) == /\ ~ Holds(t) /\ Holds(t)'
            /\ \A u \in Turns \ {t} : Holds(u)' <=> Holds(u)
Drops(t) == /\ Holds(t) /\ ~ Holds(t)'
            /\ \A u \in Turns \ {t} : Holds(u)' <=> Holds(u)

\* With one holder per Thread, HolderOf names it.
HolderFacts ==
  \A h \in Threads :
    /\ \A t \in Turns : Holds(t) /\ ThreadOf[t] = h => HolderOf(h) = t
    /\ (\A t \in Turns : Holds(t) => ThreadOf[t] # h) => HolderOf(h) = NoTurn

LEMMA HolderIs == OneHolderPerThread => HolderFacts
BY DEF OneHolderPerThread, HolderOf, HolderFacts

LEMMA HolderIsNext == OneHolderPerThread' => HolderFacts'
BY HolderIs, PTL

LEMMA KeepsHeld ==
  ASSUME OneHolderPerThread, OneHolderPerThread', Keeps
  PROVE  Held' = Held
<1>1. ASSUME NEW h \in Threads PROVE HolderOf(h)' = HolderOf(h)
  <2>1. CASE \E t \in Turns : Holds(t) /\ ThreadOf[t] = h
    BY <2>1, HolderIs, HolderIsNext DEF HolderFacts, Keeps
  <2>2. CASE ~ \E t \in Turns : Holds(t) /\ ThreadOf[t] = h
    BY <2>2, HolderIs, HolderIsNext DEF HolderFacts, Keeps
  <2>3. QED
    BY <2>1, <2>2
<1>2. QED
  BY <1>1 DEF Held

LEMMA GainsHeld ==
  ASSUME OneHolderPerThread, OneHolderPerThread', NEW t \in Turns, Gains(t)
  PROVE  /\ Held[ThreadOf[t]] = NoTurn
         /\ Held' = [Held EXCEPT ![ThreadOf[t]] = t]
<1>0. ThreadOf[t] \in Threads
  BY ConstantsAssumption
<1>1. \A u \in Turns : Holds(u) => ThreadOf[u] # ThreadOf[t]
  BY DEF Gains, OneHolderPerThread
<1>2. ASSUME NEW h \in Threads, h # ThreadOf[t]
      PROVE  HolderOf(h)' = HolderOf(h)
  <2>1. CASE \E u \in Turns : Holds(u) /\ ThreadOf[u] = h
    BY <1>2, <2>1, HolderIs, HolderIsNext DEF HolderFacts, Gains
  <2>2. CASE ~ \E u \in Turns : Holds(u) /\ ThreadOf[u] = h
    BY <1>2, <2>2, HolderIs, HolderIsNext DEF HolderFacts, Gains
  <2>3. QED
    BY <2>1, <2>2
<1>3. HolderOf(ThreadOf[t]) = NoTurn /\ HolderOf(ThreadOf[t])' = t
  BY <1>0, <1>1, HolderIs, HolderIsNext DEF HolderFacts, Gains
<1>4. QED
  BY <1>0, <1>2, <1>3 DEF Held

LEMMA DropsHeld ==
  ASSUME OneHolderPerThread, OneHolderPerThread', NEW t \in Turns, Drops(t)
  PROVE  Held' = [Held EXCEPT ![ThreadOf[t]] = NoTurn]
<1>0. ThreadOf[t] \in Threads
  BY ConstantsAssumption
<1>1. \A u \in Turns : Holds(u)' => ThreadOf[u] # ThreadOf[t]
  BY DEF Drops, OneHolderPerThread
<1>2. ASSUME NEW h \in Threads, h # ThreadOf[t]
      PROVE  HolderOf(h)' = HolderOf(h)
  <2>1. CASE \E u \in Turns : Holds(u) /\ ThreadOf[u] = h
    BY <1>2, <2>1, HolderIs, HolderIsNext DEF HolderFacts, Drops
  <2>2. CASE ~ \E u \in Turns : Holds(u) /\ ThreadOf[u] = h
    BY <1>2, <2>2, HolderIs, HolderIsNext DEF HolderFacts, Drops
  <2>3. QED
    BY <2>1, <2>2
<1>3. HolderOf(ThreadOf[t])' = NoTurn
  BY <1>0, <1>1, HolderIsNext DEF HolderFacts
<1>4. QED
  BY <1>0, <1>2, <1>3 DEF Held

LEMMA HolderHas ==
  ASSUME OneHolderPerThread, NEW t \in Turns, Holds(t)
  PROVE  Held[ThreadOf[t]] = t
BY HolderIs, ConstantsAssumption DEF Held, HolderFacts

------------------------------------------------------------------------------
(* Steps of one task *)

Quiet == Keeps /\ UNCHANGED <<turnStatus, mode>>

LEMMA QuietImplements ==
  ASSUME OneHolderPerThread, OneHolderPerThread', Quiet
  PROVE  UNCHANGED Linear!linearVars
BY KeepsHeld DEF Quiet, Held, Linear!linearVars

LEMMA PreparingImplements ==
  ASSUME IInv, IInv', NEW t \in Turns, Preparing(t)
  PROVE  [Linear!Next]_(Linear!linearVars)
<1>0. OneHolderPerThread /\ OneHolderPerThread'
  BY DEF IInv, Control, Guarded
<1> USE DEF IInv, TypeOK, PrepMoves, SetTurn, Holds, PrepHolding, PrepSteps,
            durable, memory, locals, task, world, calm, history, bounds
<1>1. CASE \/ LoadThread(t) \/ ClaimThread(t) \/ ClaimThreadFails(t)
           \/ PersistQueuedTurnFails(t) \/ UndoClaim(t) \/ GrantLease(t)
           \/ RegisterToken(t)
  <2>1. Quiet
    BY <1>1 DEF Quiet, Keeps, LoadThread, ClaimThread, ClaimThreadFails,
                PersistQueuedTurnFails, UndoClaim, GrantLease, RegisterToken
  <2>2. QED
    BY <1>0, <2>1, QuietImplements
<1>2. CASE SpawnExecution(t)
  <2>1. Quiet
    BY <1>2 DEF Quiet, Keeps, SpawnExecution, ExecHolding
  <2>2. QED
    BY <1>0, <2>1, QuietImplements
<1>3. CASE ReserveThread(t) /\ ThreadOf[t] \in reserved
  <2>1. Quiet
    BY <1>3 DEF Quiet, Keeps, ReserveThread
  <2>2. QED
    BY <1>0, <2>1, QuietImplements
<1>4. CASE ReserveThread(t) /\ ThreadOf[t] \notin reserved
  <2>1. Gains(t)
    BY <1>4 DEF Gains, ReserveThread, Control, Guarded
  <2>2. turnStatus[t] = "None" /\ mode = "up"
    BY <1>4 DEF ReserveThread, Control, StatusFollowsControl, Untouched
  <2>3. Linear!Take(t)
    BY <1>0, <1>4, <2>1, <2>2, GainsHeld
       DEF ReserveThread, Linear!Take, Linear!Holder, Held
  <2>4. QED
    BY <2>3 DEF Linear!Next
<1>5. CASE PersistQueuedTurn(t)
  <2>1. Keeps /\ Holds(t)
    BY <1>5 DEF Keeps, PersistQueuedTurn
  <2>2. Linear!Enqueue(t)
    BY <1>0, <1>5, <2>1, KeepsHeld, HolderHas
       DEF PersistQueuedTurn, Linear!Enqueue, Linear!Becomes, Linear!Holder,
           Held
  <2>3. QED
    BY <2>2 DEF Linear!Next
<1>6. CASE ReleaseRejected(t)
  <2>1. Drops(t)
    BY <1>6 DEF Drops, ReleaseRejected, Control, Placed, ExecHolding
  <2>2. turnStatus[t] = "None"
    BY <1>6 DEF ReleaseRejected, Control, StatusFollowsControl, Untouched
  <2>3. Linear!GiveBack(t)
    BY <1>0, <1>6, <2>1, <2>2, DropsHeld, HolderHas
       DEF Drops, ReleaseRejected, Linear!GiveBack, Linear!Holder,
           Linear!Active, Held
  <2>4. QED
    BY <2>3 DEF Linear!Next
<1>7. QED
  BY <1>1, <1>2, <1>3, <1>4, <1>5, <1>6 DEF Preparing

LEMMA StartingImplements ==
  ASSUME IInv, IInv', NEW t \in Turns, Starting(t)
  PROVE  [Linear!Next]_(Linear!linearVars)
<1>0. OneHolderPerThread /\ OneHolderPerThread'
  BY DEF IInv, Control, Guarded
<1> USE DEF IInv, TypeOK, ExecMoves, SetTurn, Holds, ExecHolding, ExecSteps,
            durable, memory, caller, world, calm, history, bounds
<1>1. CASE ClaimTurn(t)
  <2>1. Keeps /\ Holds(t)
    BY <1>1 DEF Keeps, ClaimTurn
  <2>2. Linear!Start(t)
    BY <1>0, <1>1, <2>1, KeepsHeld, HolderHas
       DEF ClaimTurn, Linear!Start, Linear!Becomes, Linear!Holder, Held
  <2>3. QED
    BY <2>2 DEF Linear!Next
<1>2. CASE ClaimTurnFails(t) \/ TakeLease(t)
  <2>1. Quiet
    BY <1>2 DEF Quiet, Keeps, ClaimTurnFails, TakeLease
  <2>2. QED
    BY <1>0, <2>1, QuietImplements
<1>3. QED
  BY <1>1, <1>2 DEF Starting

LEMMA WorkingImplements ==
  ASSUME IInv, IInv', NEW t \in Turns, Working(t)
  PROVE  UNCHANGED Linear!linearVars
<1>1. Quiet
  <2> USE DEF IInv, TypeOK, ExecMoves, Holds, ExecHolding, ExecSteps, durable,
              memory, locals, caller, task, world, calm, history, bounds,
              Quiet, Keeps
  <2>1. CASE RequestApproval(t) \/ ApprovalDecided(t) \/ ApprovalCancelled(t)
    BY <2>1 DEF RequestApproval, ApprovalDecided, ApprovalCancelled
  <2>2. CASE BackendAsks(t)
    BY <2>2 DEF BackendAsks
  <2>3. CASE NativeFails(t) \/ NativeCancelled(t) \/ NativeAnswers(t)
    BY <2>3 DEF NativeFails, NativeCancelled, NativeAnswers
  <2>4. CASE BackendCancelled(t) \/ BackendReturns(t)
    BY <2>4 DEF BackendCancelled, BackendReturns
  <2>5. QED
    BY <2>1, <2>2, <2>3, <2>4 DEF Working
<1>2. QED
  BY <1>1, QuietImplements DEF IInv, Control, Guarded

\* Only here it matters that no store call fails: the Turn is terminal when the
\* Thread is given back.
LEMMA FinishingImplements ==
  ASSUME MaxStoreErrors = 0, IInv, IInv', NEW t \in Turns, Finishing(t)
  PROVE  [Linear!Next]_(Linear!linearVars)
<1>0. OneHolderPerThread /\ OneHolderPerThread'
  BY DEF IInv, Control, Guarded
<1> USE DEF IInv, TypeOK, ExecMoves, Holds, ExecHolding, ExecSteps, durable,
            memory, caller, world, calm, history, bounds
<1>1. CASE \/ PersistActivity(t) \/ PersistAnswer(t) \/ FinishTurnFails(t)
           \/ ExplainTurn(t) \/ SweepPrompts(t) \/ IdleThread(t) \/ Announce(t)
           \/ LeaveManager(t)
  <2>1. Quiet
    BY <1>1 DEF Quiet, Keeps, PersistActivity, PersistAnswer, FinishTurnFails,
                ExplainTurn, SweepPrompts, IdleThread, Announce, LeaveManager
  <2>2. QED
    BY <1>0, <2>1, QuietImplements
<1>2. CASE FinishTurn(t)
  <2>1. Keeps /\ Holds(t)
    BY <1>2 DEF Keeps, FinishTurn
  <2>2. FinalStatus(t) \in Linear!Ended
    BY DEF FinalStatus, Linear!Ended
  <2>3. Linear!End(t)
    BY <1>0, <1>2, <2>1, <2>2, KeepsHeld, HolderHas
       DEF FinishTurn, SetTurn, Linear!End, Linear!Becomes, Linear!Holder,
           Held
  <2>4. QED
    BY <2>3 DEF Linear!Next
<1>3. CASE ReleaseThread(t)
  <2>1. Drops(t)
    BY <1>3 DEF Drops, ReleaseThread, Control, Placed, PrepHolding
  <2>2. turnStatus[t] \in Terminal
    <3>1. mode = "up" /\ exec[t] = "releasing"
      BY <1>3 DEF ReleaseThread
    <3>2. errors = 0
      BY MaxStoreErrors = 0
    <3>3. result[t] \in Terminal
      BY <3>1, <3>2 DEF Control, Clean, Cleaning
    <3>4. QED
      BY <3>1, <3>3 DEF Control, StatusFollowsControl, Cleaning, Terminal
  <2>3. Linear!GiveBack(t)
    BY <1>0, <1>3, <2>1, <2>2, DropsHeld, HolderHas
       DEF Drops, ReleaseThread, Linear!GiveBack, Linear!Holder, Linear!Active,
           Terminal, Held
  <2>4. QED
    BY <2>3 DEF Linear!Next
<1>4. QED
  BY <1>1, <1>2, <1>3 DEF Finishing

LEMMA ClientsImplement ==
  ASSUME IInv, IInv', NEW t \in Turns, Clients(t)
  PROVE  UNCHANGED Linear!linearVars
<1>1. Quiet
  BY DEF IInv, TypeOK, Holds, PrepHolding, PrepSteps, durable, memory, locals,
         caller, task, world, calm, history, bounds, Quiet, Keeps, Clients,
         RespondApproval, RespondPrompt,
         CancelTurn, AbandonPrepare, LoseClaim, Duplicate
<1>2. QED
  BY <1>1, QuietImplements DEF IInv, Control, Guarded

------------------------------------------------------------------------------
(* Crash, recovery and the theorem *)

LEMMA WorldImplements ==
  ASSUME IInv, IInv',
         \/ Crash \/ Restart \/ Recovering \/ UNCHANGED vars
         \/ \E a \in Adapters : ReplaceProvider(a)
  PROVE  [Linear!Next]_(Linear!linearVars)
<1>0. OneHolderPerThread /\ OneHolderPerThread'
  BY DEF IInv, Control, Guarded
<1> USE DEF IInv, TypeOK, Holds, durable, memory, locals, caller, task, world,
            calm, history,
            bounds
<1>1. CASE \/ Restart \/ UNCHANGED vars \/ \E a \in Adapters : ReplaceProvider(a)
  <2>1. Keeps /\ UNCHANGED turnStatus /\ (mode = "up") = (mode' = "up")
    BY <1>1 DEF Keeps, Restart, ReplaceProvider, vars
  <2>2. QED
    BY <1>0, <2>1, KeepsHeld DEF Held, Linear!linearVars
<1>2. CASE Crash
  <2>1. \A t \in Turns : ~ Holds(t)'
    BY <1>2 DEF Crash, PrepLive, ExecLive, PrepHolding, ExecHolding, PrepSteps,
                ExecSteps
  <2>2. Held' = [h \in Threads |-> NoTurn]
    BY <1>0, <2>1, HolderIsNext DEF Held, HolderFacts
  <2>3. QED
    BY <1>2, <2>2 DEF Crash, Linear!Next, Linear!Interrupt, Held
<1>3. CASE \E t \in Turns : RecoverQueued(t) \/ RecoverRunning(t)
  <2>1. PICK t \in Turns : RecoverQueued(t) \/ RecoverRunning(t)
    BY <1>3
  <2>2. Keeps
    BY <2>1 DEF Keeps, RecoverQueued, RecoverRunning
  <2>3. Linear!FailInterrupted(t)
    BY <1>0, <2>1, <2>2, KeepsHeld
       DEF RecoverQueued, RecoverRunning, SetTurn, Linear!FailInterrupted,
           Linear!Becomes, Held
  <2>4. QED
    BY <2>3 DEF Linear!Next
<1>4. CASE \/ \E t \in Turns : RecoverReason(t)
           \/ \E h \in Threads : RecoverThread(h)
  <2>1. Quiet
    BY <1>4 DEF Quiet, Keeps, RecoverReason, RecoverThread
  <2>2. QED
    BY <1>0, <2>1, QuietImplements
<1>5. CASE FinishRecovery
  <2>1. Keeps
    BY <1>5 DEF Keeps, FinishRecovery
  <2>2. Linear!Reopen
    BY <1>0, <1>5, <2>1, KeepsHeld
       DEF FinishRecovery, Active, Linear!Reopen, Linear!Active, Held
  <2>3. QED
    BY <2>2 DEF Linear!Next
<1>6. QED
  BY <1>1, <1>2, <1>3, <1>4, <1>5 DEF Recovering

\* If the store never fails, what clients see of a Thread is a linear
\* conversation: one request takes it, only its Turn is stored, started and
\* ended, and the Thread is given back after the end, across cancellations,
\* vanished callers, duplicate executions, crashes and restarts.
THEOREM Refinement ==
  ASSUME MaxStoreErrors = 0
  PROVE  Spec => LinearConversation
<1>1. Init => Linear!Init
  BY DEF Init, Linear!Init, HolderOf, Holds, PrepHolding, ExecHolding
<1>2. IInv /\ IInv' /\ [Next]_vars => [Linear!Next]_(Linear!linearVars)
  <2> SUFFICES ASSUME IInv, IInv', [Next]_vars
               PROVE  [Linear!Next]_(Linear!linearVars)
    OBVIOUS
  <2>1. ASSUME NEW t \in Turns,
               Preparing(t) \/ Starting(t) \/ Working(t) \/ Finishing(t)
                 \/ Clients(t)
        PROVE  [Linear!Next]_(Linear!linearVars)
    BY <2>1, PreparingImplements, StartingImplements, WorkingImplements,
       FinishingImplements, ClientsImplement, MaxStoreErrors = 0
  <2>2. QED
    BY <2>1, WorldImplements DEF Next
<1>3. QED
  BY <1>1, <1>2, Invariant, PTL DEF Spec, LinearConversation, Linear!Spec

==============================================================================
