----------------------------- MODULE StoreProofs ------------------------------
(***************************************************************************)
(* Proofs about the store of kody, in two parts.  Part 1 is about the file *)
(* of JsonStore, for any set of writers, mutations and states: its         *)
(* inductive invariant, that whatever is on disk can be opened again, and  *)
(* that the store implements DurableStore.  Part 2 is about the records of *)
(* StoreRelations: whichever StateStore methods run in whichever order, no *)
(* context names a record that is gone and every process has its Thread,   *)
(* its Turn and its Project.                                               *)
(***************************************************************************)
EXTENDS JsonStore, StoreRelations, TLAPS

-------------------------------------------------------------------------------
(***************************************************************************)
(* Part 1: JsonStore                                                       *)
(***************************************************************************)
LEMMA InitInvariant == Init => IInv
<1> SUFFICES ASSUME Init PROVE IInv
  OBVIOUS
<1> USE ConstantsAssumption DEF Init, Absent
<1>1. file \in Snapshots /\ Readable(file)
  <2>1. CASE file = Absent
    BY <2>1 DEF Snapshots, Readable
  <2>2. CASE file \in [version : {"legacy", "current"}, state : Valid,
                       synced : {TRUE}]
    BY <2>2 DEF Snapshots, Readable
  <2> QED
    BY <2>1, <2>2
<1>2. memory \in Valid
  BY <1>1 DEF Loaded, Readable
<1>3. TypeOK
  BY <1>1, <1>2 DEF TypeOK, Writing
<1>4. Guarded
  BY DEF Guarded, Writing
<1>5. Intact
  BY <1>1 DEF Intact
<1>6. Installed
  BY DEF Installed
<1> QED
  BY <1>3, <1>4, <1>5, <1>6 DEF IInv

\* The snapshot a writer's rename installs is readable.
LEMMA SnapshotReadable ==
  ASSUME NEW s \in Valid
  PROVE  /\ Snapshot(s, TRUE) \in Snapshots
         /\ Readable(Snapshot(s, TRUE))
         /\ Loaded(Snapshot(s, TRUE)) = s
  BY ConstantsAssumption DEF Snapshot, Snapshots, Readable, Loaded

\* What open makes of a readable snapshot is a valid state.
LEMMA LoadedValid ==
  ASSUME NEW e, Readable(e)
  PROVE  Loaded(e) \in Valid
  BY ConstantsAssumption DEF Readable, Loaded

LEMMA MutatingKeepsInvariant ==
  ASSUME IInv, NEW w \in Writers, Mutating(w)
  PROVE  IInv'
<1> USE ConstantsAssumption
    DEF IInv, TypeOK, Guarded, Intact, Installed, Writing, calls, disk
<1>1. CASE \E op \in Ops : Request(w, op)
  <2>1. PICK op \in Ops : Request(w, op)
    BY <1>1
  <2> QED
    BY ZenonT(60), <2>1 DEF Request, Readable
<1>2. CASE Begin(w)
  <2> DEFINE next == Apply[request[w]][memory]
  <2>1. CASE next \in Valid
    <3>1. /\ mode = "up" /\ pc[w] = "waiting" /\ lock = NoWriter
          /\ lock' = w
          /\ pc' = [pc EXCEPT ![w] = "writing"]
          /\ candidate' = [candidate EXCEPT ![w] = next]
          /\ UNCHANGED <<request, temp, memory, file, entries, late, loose,
                          mode>>
      BY <1>2, <2>1 DEF Begin
    <3>2. \A v \in Writers : pc[v] \notin Writing
      BY <3>1
    <3>3. TypeOK' /\ Intact' /\ (~ loose' => Installed')
      BY ZenonT(60), <2>1, <3>1, <3>2 DEF Readable
    <3>4. Guarded'
      BY <2>1, <3>1, <3>2
    <3> QED
      BY <3>3, <3>4
  <2>2. CASE Return(w)
    BY ZenonT(60), <1>2, <2>2 DEF Begin, Return, Readable
  <2> QED
    BY <1>2, <2>1, <2>2 DEF Begin
<1>3. CASE WriteTemporary(w)
  BY ZenonT(60), <1>3 DEF WriteTemporary, Readable
<1>4. CASE SyncTemporary(w)
  BY ZenonT(60), <1>4 DEF SyncTemporary, Readable
<1>5. CASE IssueRename(w)
  BY ZenonT(60), <1>5 DEF IssueRename, Readable
<1>6. CASE RenameLands(w)
  <2>1. /\ Snapshot(candidate[w], TRUE) \in Snapshots
        /\ Readable(Snapshot(candidate[w], TRUE))
    BY <1>6, SnapshotReadable DEF RenameLands
  <2>2. file' = Snapshot(candidate[w], TRUE)
    BY <1>6 DEF RenameLands, Install
  <2> QED
    BY ZenonT(60), <1>6, <2>1, <2>2 DEF RenameLands, Install
<1>7. CASE SyncDirectory(w)
  BY ZenonT(60), <1>7 DEF SyncDirectory, Readable
<1>8. CASE Publish(w)
  BY ZenonT(60), <1>8 DEF Publish, Return, Readable
<1>9. CASE WriteFails(w)
  BY ZenonT(60), <1>9 DEF WriteFails, Return, Readable
<1>10. CASE Abandon(w)
  <2>1. late' \subseteq Snapshots /\ \A e \in late' : Readable(e)
    <3>1. CASE pc[w] = "renaming"
      <4>1. late' = late \cup {Snapshot(candidate[w], TRUE)}
        BY <1>10, <3>1 DEF Abandon
      <4> QED
        BY ZenonT(60), <3>1, <4>1, SnapshotReadable
    <3>2. CASE pc[w] # "renaming"
      BY <1>10, <3>2 DEF Abandon
    <3> QED
      BY <3>1, <3>2
  <2>2. ~ loose' => ~ loose /\ late' = late
    BY <1>10 DEF Abandon
  <2> QED
    BY ZenonT(60), <1>10, <2>1, <2>2 DEF Abandon
<1> QED
  BY <1>1, <1>2, <1>3, <1>4, <1>5, <1>6, <1>7, <1>8, <1>9, <1>10 DEF Mutating

LEMMA CrashKeepsInvariant ==
  ASSUME IInv, Crash
  PROVE  IInv'
  BY ConstantsAssumption
  DEF IInv, TypeOK, Guarded, Intact, Installed, Writing, Crash, Readable

LEMMA OpeningKeepsInvariant ==
  ASSUME IInv, Opening
  PROVE  IInv'
<1> USE ConstantsAssumption
    DEF IInv, TypeOK, Guarded, Intact, Installed, Writing, calls, disk
<1>1. CASE Open
  <2>1. memory' \in Valid
    BY <1>1, LoadedValid DEF Open
  <2> QED
    BY <1>1, <2>1 DEF Open, Readable
<1>2. CASE MigrationRenamed
  <2>1. /\ Snapshot(memory, TRUE) \in Snapshots
        /\ Readable(Snapshot(memory, TRUE))
    BY SnapshotReadable
  <2> QED
    BY <1>2, <2>1 DEF MigrationRenamed, Install
<1>3. CASE MigrationSynced
  BY <1>3 DEF MigrationSynced
<1>4. CASE MigrationFails
  BY <1>4 DEF MigrationFails
<1> QED
  BY <1>1, <1>2, <1>3, <1>4 DEF Opening

LEMMA LateRenameKeepsInvariant ==
  ASSUME IInv, LateRenameLands
  PROVE  IInv'
<1>1. PICK e \in late : /\ file' = e /\ entries' = entries \cup {e}
                       /\ late' = late \ {e}
                       /\ UNCHANGED <<memory, calls, loose, mode>>
  BY DEF LateRenameLands, Install
<1>2. loose
  BY <1>1 DEF IInv, Installed
<1> QED
  BY <1>1, <1>2, ConstantsAssumption
  DEF IInv, TypeOK, Guarded, Intact, Installed, Writing, calls, Readable

LEMMA StepKeepsInvariant == IInv /\ [Next]_vars => IInv'
<1> SUFFICES ASSUME IInv, [Next]_vars PROVE IInv'
  OBVIOUS
<1>1. CASE \E w \in Writers : Mutating(w)
  BY <1>1, MutatingKeepsInvariant
<1>2. CASE LateRenameLands
  BY <1>2, LateRenameKeepsInvariant
<1>3. CASE Crash
  BY <1>3, CrashKeepsInvariant
<1>4. CASE Opening
  BY <1>4, OpeningKeepsInvariant
<1>5. CASE UNCHANGED vars
  BY <1>5 DEF vars, calls, disk, IInv, TypeOK, Guarded, Intact, Installed,
              Readable
<1> QED
  BY <1>1, <1>2, <1>3, <1>4, <1>5 DEF Next

\* The control points of the writers determine what memory, lock and disk
\* hold (JsonFileStore::commit_candidate and open).
THEOREM Invariant == Spec => []IInv
  BY InitInvariant, StepKeepsInvariant, PTL DEF Spec

\* Every variable of the store keeps its type; readers never see a state
\* that validate_store_state rejects.
THEOREM TypeCorrect == Spec => []TypeOK
<1>1. IInv => TypeOK
  BY DEF IInv
<1> QED
  BY <1>1, Invariant, PTL

\* JsonFileStore::open never meets a snapshot it refuses, even when renames
\* of abandoned calls land late and the machine loses power.
THEOREM StoreAlwaysOpens == Spec => []AlwaysOpens
<1>1. IInv => AlwaysOpens
  BY DEF IInv, Intact, AlwaysOpens
<1> QED
  BY <1>1, Invariant, PTL

------------------------------------------------------------------------------
(* Refinement *)

LEMMA InitDurable == Init => Durable!Init
<1> SUFFICES ASSUME Init PROVE Durable!Init
  OBVIOUS
<1>1. memory \in Valid
  BY InitInvariant DEF IInv, TypeOK
<1>2. /\ entries = {file} /\ memory = Loaded(file)
      /\ mode = "down" /\ loose = FALSE
  BY DEF Init
<1>3. {Loaded(e) : e \in entries} \ {memory} = {}
  BY <1>2
<1> QED
  BY <1>1, <1>2, <1>3 DEF Durable!Init

LEMMA MutatingIsDurable ==
  ASSUME IInv, NEW w \in Writers, Mutating(w)
  PROVE  [Durable!Next]_(Durable!durableVars)
<1> USE ConstantsAssumption
<1> DEFINE limbo == {Loaded(e) : e \in entries} \ {memory}
<1>a. ASSUME UNCHANGED <<memory, disk, mode>>
      PROVE  UNCHANGED Durable!durableVars
  BY <1>a DEF disk, Durable!durableVars, Loaded
<1>1. CASE \E op \in Ops : Request(w, op)
  BY <1>1, <1>a DEF Request
<1>2. CASE Begin(w)
  BY <1>2, <1>a DEF Begin
<1>3. CASE WriteTemporary(w)
  BY <1>3, <1>a DEF WriteTemporary
<1>4. CASE SyncTemporary(w)
  BY <1>4, <1>a DEF SyncTemporary
<1>5. CASE IssueRename(w)
  BY <1>5, <1>a DEF IssueRename
<1>6. CASE RenameLands(w)
  <2> DEFINE op == request[w]
  <2>1. /\ op \in Ops /\ candidate[w] = Apply[op][memory]
        /\ candidate[w] \in Valid /\ temp[w] = "synced" /\ mode = "up"
    BY <1>6 DEF RenameLands, IInv, Guarded, Writing
  <2>2. entries' = entries \cup {Snapshot(candidate[w], TRUE)}
    BY <1>6, <2>1 DEF RenameLands, Install
  <2>3. UNCHANGED <<memory, loose, mode>>
    BY <1>6 DEF RenameLands
  <2>4. limbo' = limbo \cup ({Apply[op][memory]} \ {memory})
    <3>1. Loaded(Snapshot(candidate[w], TRUE)) = Apply[op][memory]
      BY <2>1, SnapshotReadable
    <3>2. {Loaded(e) : e \in entries'} =
             {Loaded(e) : e \in entries} \cup {Apply[op][memory]}
      BY <2>2, <3>1
    <3> QED
      BY <2>3, <3>2
  <2>5. Durable!Attempt(op)
    BY <2>1, <2>3, <2>4 DEF Durable!Attempt
  <2> QED
    BY <2>1, <2>5 DEF Durable!Next
<1>7. CASE SyncDirectory(w)
  <2>1. entries' \subseteq entries /\ UNCHANGED <<memory, loose, mode>>
    BY <1>7 DEF SyncDirectory, IInv, Intact
  <2>2. Durable!Settle
    BY <2>1 DEF Durable!Settle, Loaded
  <2> QED
    BY <2>2 DEF Durable!Next
<1>8. CASE Publish(w)
  <2> DEFINE op == request[w]
  <2>1. /\ op \in Ops /\ candidate[w] = Apply[op][memory]
        /\ candidate[w] \in Valid /\ mode = "up"
    BY <1>8 DEF Publish, IInv, Guarded, Writing
  <2>2. /\ entries' = entries /\ memory' = candidate[w]
        /\ loose' = loose /\ mode' = mode
    BY <1>8 DEF Publish, disk
  <2>3. limbo' \subseteq IF loose THEN limbo \cup {memory} ELSE {}
    <3>1. CASE loose
      BY <2>2, <3>1 DEF Loaded
    <3>2. CASE ~ loose
      <4>1. entries' = {Snapshot(candidate[w], TRUE)}
        BY <1>8, <2>2, <3>2 DEF Publish, IInv, Installed
      <4>2. {Loaded(e) : e \in entries'} = {candidate[w]}
        BY <2>1, <4>1, SnapshotReadable
      <4> QED
        BY <2>2, <3>2, <4>2
    <3> QED
      BY <3>1, <3>2
  <2>4. Durable!Commit(op)
    BY <2>1, <2>2, <2>3 DEF Durable!Commit
  <2> QED
    BY <2>1, <2>4 DEF Durable!Next
<1>9. CASE WriteFails(w)
  BY <1>9, <1>a DEF WriteFails
<1>10. CASE Abandon(w)
  <2>1. UNCHANGED <<memory, entries, mode>> /\ mode = "up"
    BY <1>10 DEF Abandon
  <2>2. limbo' = limbo
    BY <2>1 DEF Loaded
  <2>3. loose' = TRUE \/ loose' = loose
    BY <1>10 DEF Abandon
  <2>4. Durable!GiveUp \/ UNCHANGED Durable!durableVars
    BY <2>1, <2>2, <2>3 DEF Durable!GiveUp, Durable!durableVars
  <2> QED
    BY <2>4 DEF Durable!Next
<1> QED
  BY <1>1, <1>2, <1>3, <1>4, <1>5, <1>6, <1>7, <1>8, <1>9, <1>10 DEF Mutating

LEMMA LateRenameIsDurable ==
  ASSUME IInv, LateRenameLands
  PROVE  Durable!Next
<1> DEFINE limbo == {Loaded(e) : e \in entries} \ {memory}
<1>1. PICK e \in late : /\ mode = "up"
                       /\ entries' = entries \cup {e}
                       /\ UNCHANGED <<memory, loose, mode>>
  BY DEF LateRenameLands, Install
<1>2. loose /\ Loaded(e) \in Valid
  BY <1>1, LoadedValid DEF IInv, Intact, Installed
<1>3. limbo' = limbo \cup ({Loaded(e)} \ {memory})
  <2>1. {Loaded(f) : f \in entries'} =
           {Loaded(f) : f \in entries} \cup {Loaded(e)}
    BY <1>1
  <2> QED
    BY <1>1, <2>1
<1>4. Durable!Haunt
  BY <1>1, <1>2, <1>3 DEF Durable!Haunt
<1> QED
  BY <1>4 DEF Durable!Next

LEMMA CrashIsDurable ==
  ASSUME IInv, Crash
  PROVE  Durable!Next
<1>1. entries' \subseteq entries
  BY DEF Crash
<1>2. Durable!Stop
  BY <1>1 DEF Crash, Durable!Stop, Loaded
<1> QED
  BY <1>2 DEF Durable!Next

LEMMA OpeningIsDurable ==
  ASSUME IInv, Opening
  PROVE  [Durable!Next]_(Durable!durableVars)
<1> USE ConstantsAssumption
<1> DEFINE limbo == {Loaded(e) : e \in entries} \ {memory}
<1>1. CASE Open
  <2>1. /\ mode = "down" /\ Readable(file) /\ entries' = entries
        /\ memory' = Loaded(file) /\ file \in entries
        /\ loose' = loose
    BY <1>1 DEF Open, IInv, Intact, disk
  <2>2. limbo' = {Loaded(e) : e \in entries} \ {Loaded(file)}
    BY <2>1 DEF Loaded
  <2>3. Durable!Load
    BY <2>1, <2>2 DEF Durable!Load
  <2> QED
    BY <2>3 DEF Durable!Next
<1>2. CASE MigrationRenamed
  <2>1. /\ entries' = entries \cup {Snapshot(memory, TRUE)}
        /\ memory' = memory /\ loose' = loose
        /\ mode = "migrating" /\ mode' = "renamed"
    BY <1>2 DEF MigrationRenamed, Install
  <2>2. Loaded(Snapshot(memory, TRUE)) = memory
    BY SnapshotReadable DEF IInv, TypeOK
  <2>3. limbo' = limbo
    BY <2>1, <2>2 DEF Loaded
  <2> QED
    BY <2>1, <2>3 DEF Durable!durableVars
<1>3. CASE MigrationSynced
  <2>1. /\ entries' \subseteq entries /\ UNCHANGED <<memory, loose>>
        /\ mode = "renamed" /\ mode' = "up"
    BY <1>3 DEF MigrationSynced, IInv, Intact
  <2>2. Durable!Open
    BY <2>1 DEF Durable!Open, Loaded
  <2> QED
    BY <2>2 DEF Durable!Next
<1>4. CASE MigrationFails
  BY <1>4 DEF MigrationFails, disk, Durable!durableVars, Loaded
<1> QED
  BY <1>1, <1>2, <1>3, <1>4 DEF Opening

\* Every mutation is atomic, and durable unless a rename outlives the call
\* that asked for it: JsonFileStore implements DurableStore.
THEOREM MutationsAreDurable == Spec => DurableMutations
<1>1. IInv /\ [Next]_vars => [Durable!Next]_(Durable!durableVars)
  <2> SUFFICES ASSUME IInv, [Next]_vars
               PROVE  [Durable!Next]_(Durable!durableVars)
    OBVIOUS
  <2>1. CASE \E w \in Writers : Mutating(w)
    BY <2>1, MutatingIsDurable
  <2>2. CASE LateRenameLands
    BY <2>2, LateRenameIsDurable
  <2>3. CASE Crash
    BY <2>3, CrashIsDurable
  <2>4. CASE Opening
    BY <2>4, OpeningIsDurable
  <2>5. CASE UNCHANGED vars
    BY <2>5 DEF vars, disk, Durable!durableVars, Loaded
  <2> QED
    BY <2>1, <2>2, <2>3, <2>4, <2>5 DEF Next
<1> QED
  BY <1>1, InitDurable, Invariant, PTL DEF Spec, DurableMutations, Durable!Spec

-------------------------------------------------------------------------------
(***************************************************************************)
(* Part 2: StoreRelations                                                  *)
(***************************************************************************)
LEMMA InitRelations == RelationsInit => Relations
  BY RelationsAssumption
  DEF RelationsInit, Relations, TablesTyped, NoDanglingContext, ContextsOK, ProcessesOwned,
      ProcessesOK, OriginsUnique, Stored

\* The rule of contexts mentions nothing but these tables.
LEMMA ContextsSame ==
  NoDanglingContext /\ UNCHANGED <<projects, threads, messages>>
    => NoDanglingContext'
  BY DEF NoDanglingContext, ContextsOK, ContextOK, Stored

LEMMA ProcessesSame ==
  ProcessesOwned /\ UNCHANGED <<projects, threads, turns, processes>>
    => ProcessesOwned'
  BY DEF ProcessesOwned, ProcessesOK, ProcessOK, OriginsUnique, Origin, Stored

\* The methods that validate the whole candidate.
LEMMA ValidatedStates ==
  StoreValid' => NoDanglingContext' /\ ProcessesOwned'
  BY DEF StoreValid, NoDanglingContext, ProcessesOwned

\* insert_project and delete_project keep the relations.
LEMMA ProjectKeepsRelations == Relations /\ ProjectStep => Relations'
<1> SUFFICES ASSUME Relations, ProjectStep
             PROVE  Relations'
  OBVIOUS
<1> USE RelationsAssumption
<1>1. PICK p \in ProjectIds :
        (\E root \in Roots : InsertProject(p, root)) \/ DeleteProject(p)
  BY DEF ProjectStep
<1>2. CASE \E root \in Roots : InsertProject(p, root)
  <2>1. PICK root \in Roots : InsertProject(p, root)
    BY <1>2
  <2>2. TablesTyped'
    BY <2>1 DEF InsertProject, Relations, TablesTyped, Put
  <2>3. Stored(projects) \subseteq Stored(projects)'
    BY <2>1 DEF InsertProject, Relations, TablesTyped, Put, Stored
  <2>4. NoDanglingContext'
    BY <2>1, <2>3 DEF InsertProject, Relations, NoDanglingContext, ContextsOK,
                      ContextOK, Stored
  <2>5. ProcessesOwned'
    BY <2>1, <2>3 DEF InsertProject, Relations, ProcessesOwned, ProcessesOK,
                      ProcessOK, OriginsUnique, Origin, Stored
  <2> QED
    BY <2>2, <2>4, <2>5 DEF Relations
<1>3. CASE DeleteProject(p)
  <2>1. TablesTyped'
    BY <1>3 DEF DeleteProject, Relations, TablesTyped, Put, Stored, ProcessRecords
  <2>2. Stored(projects)' = Stored(projects) \ {p}
    BY <1>3 DEF DeleteProject, Relations, TablesTyped, Put, Stored
  <2>3. NoDanglingContext'
    BY <1>3, <2>2 DEF DeleteProject, ProjectReferenced, Relations,
                      NoDanglingContext, ContextsOK, ContextOK, Stored
  <2>4. /\ Stored(processes)' = Stored(processes)
        /\ \A q \in Stored(processes) :
             /\ processes'[q].thread = processes[q].thread
             /\ processes'[q].turn = processes[q].turn
             /\ processes'[q].call = processes[q].call
             /\ processes'[q].project # p
             /\ \/ processes'[q].project = None
                \/ processes'[q].project = processes[q].project
    BY SMTT(60), <1>3 DEF DeleteProject, Relations, TablesTyped, Stored, ProcessRecords
  <2>5. ProcessesOK'
    BY <1>3, <2>2, <2>4 DEF DeleteProject, Relations, ProcessesOwned,
                            ProcessesOK, ProcessOK
  <2>6. OriginsUnique'
    BY <2>4 DEF Relations, ProcessesOwned, OriginsUnique, Origin
  <2> QED
    BY <2>1, <2>3, <2>5, <2>6 DEF Relations, ProcessesOwned
<1> QED
  BY <1>1, <1>2, <1>3

\* The methods on Threads and Workspaces keep the relations.
LEMMA ThreadKeepsRelations == Relations /\ ThreadStep => Relations'
<1> SUFFICES ASSUME Relations, ThreadStep
             PROVE  Relations'
  OBVIOUS
<1> USE RelationsAssumption
<1>1. ASSUME NEW h \in ThreadIds, NEW k \in WorkspaceIds, NEW c \in Contexts,
             InsertThreadWithWorkspace(h, k, c) \/ InsertThread(h, k, c)
      PROVE  Relations'
  <2>1. TablesTyped'
    BY <1>1 DEF InsertThreadWithWorkspace, InsertThread, Relations, TablesTyped,
                Put, ThreadRecords
  <2>2. /\ h \notin Stored(threads)
        /\ Stored(threads)' = Stored(threads) \cup {h}
        /\ threads'[h].context = c /\ ContextOK(h, c)
        /\ \A g \in Stored(threads) : threads'[g] = threads[g]
        /\ UNCHANGED <<projects, messages, turns, processes>>
    <3>1. [workspace |-> k, context |-> c] \in ThreadRecords
      BY <1>1 DEF ThreadRecords
    <3> QED
      BY <1>1, <3>1 DEF InsertThreadWithWorkspace, InsertThread, Relations,
                        TablesTyped, Put, Stored
  <2>3. NoDanglingContext'
    BY <2>2 DEF Relations, NoDanglingContext, ContextsOK, ContextOK
  <2>4. ProcessesOwned'
    BY <2>2 DEF Relations, ProcessesOwned, ProcessesOK, ProcessOK,
                OriginsUnique, Origin
  <2> QED
    BY <2>1, <2>3, <2>4 DEF Relations
<1>2. ASSUME NEW h \in ThreadIds, NEW c \in Contexts, UpdateThread(h, c)
      PROVE  Relations'
  <2>1. TablesTyped'
    BY <1>2 DEF UpdateThread, Relations, TablesTyped, Stored, ThreadRecords
  <2>2. /\ Stored(threads)' = Stored(threads)
        /\ threads'[h].context = c /\ ContextOK(h, c)
        /\ \A g \in Stored(threads) \ {h} : threads'[g] = threads[g]
        /\ UNCHANGED <<projects, messages, turns, processes>>
    BY <1>2, <2>1 DEF UpdateThread, Relations, TablesTyped, Stored, ThreadRecords
  <2>3. NoDanglingContext'
    BY <2>2 DEF Relations, NoDanglingContext, ContextsOK, ContextOK
  <2>4. ProcessesOwned'
    BY <2>2 DEF Relations, ProcessesOwned, ProcessesOK, ProcessOK,
                OriginsUnique, Origin
  <2> QED
    BY <2>1, <2>3, <2>4 DEF Relations
<1>3. ASSUME NEW h \in ThreadIds, DeleteThread(h)
      PROVE  Relations'
  <2>1. TablesTyped'
    BY <1>3 DEF DeleteThread, Relations, TablesTyped, Put, Without, Stored,
                ThreadRecords
  <2>2. /\ Stored(threads)' = Stored(threads) \ {h}
        /\ \A g \in Stored(threads) \ {h} : threads'[g] = threads[g]
        /\ UNCHANGED projects
    BY <1>3 DEF DeleteThread, Relations, TablesTyped, Put, Stored
  <2>3. /\ Stored(messages)' =
             {m \in Stored(messages) : messages[m].thread # h}
        /\ \A m \in Stored(messages)' : messages'[m] = messages[m]
    BY <1>3 DEF DeleteThread, Relations, TablesTyped, Without, Of, Stored
  <2>4. /\ Stored(turns)' = {t \in Stored(turns) : turns[t].thread # h}
        /\ \A t \in Stored(turns)' : turns'[t] = turns[t]
    BY <1>3 DEF DeleteThread, Relations, TablesTyped, Without, Of, Stored
  <2>5. /\ Stored(processes)' =
             {q \in Stored(processes) : processes[q].thread # h}
        /\ \A q \in Stored(processes)' : processes'[q] = processes[q]
    BY <1>3 DEF DeleteThread, Relations, TablesTyped, Without, Of, Stored
  <2>6. NoDanglingContext'
    <3>1. ~ ThreadReferenced(h)
      BY <1>3 DEF DeleteThread
    <3> QED
      BY <2>2, <2>3, <3>1 DEF Relations, NoDanglingContext, ContextsOK,
                              ContextOK, ThreadReferenced, Selects
  <2>7. ProcessesOwned'
    BY <2>2, <2>4, <2>5 DEF Relations, ProcessesOwned, ProcessesOK, ProcessOK,
                            OriginsUnique, Origin
  <2> QED
    BY <2>1, <2>6, <2>7 DEF Relations
<1>4. ASSUME NEW k \in WorkspaceIds, NEW h \in ThreadIds,
             InsertWorkspace(k, h) \/ DeleteWorkspace(k)
      PROVE  Relations'
  <2>1. TablesTyped'
    BY <1>4 DEF InsertWorkspace, DeleteWorkspace, Relations, TablesTyped, Put
  <2>2. UNCHANGED <<projects, threads, messages, turns, processes>>
    BY <1>4 DEF InsertWorkspace, DeleteWorkspace
  <2> QED
    BY <2>1, <2>2, ContextsSame, ProcessesSame DEF Relations
<1>5. ASSUME NEW k \in WorkspaceIds, DeleteWorkspace(k)
      PROVE  Relations'
  <2>1. workspaces[k] \in ThreadIds
    BY <1>5 DEF DeleteWorkspace, Relations, TablesTyped, Stored
  <2> QED
    BY <1>4, <1>5, <2>1
<1> QED
  BY <1>1, <1>2, <1>3, <1>4, <1>5 DEF ThreadStep

\* The methods on messages keep the relations.
LEMMA MessageKeepsRelations == Relations /\ MessageStep => Relations'
<1> SUFFICES ASSUME Relations, MessageStep
             PROVE  Relations'
  OBVIOUS
<1> USE RelationsAssumption
<1>1. ASSUME NEW m \in MessageIds, NEW r \in MessageRecords,
             AppendMessage(m, r) \/ UpdateMessage(m, r)
      PROVE  Relations'
  <2>1. TablesTyped'
    BY <1>1 DEF AppendMessage, UpdateMessage, Relations, TablesTyped, Put
  <2>2. /\ messages'[m] = r /\ MessageOK(m, r)
        /\ m \in Stored(messages) => r.thread = messages[m].thread
        /\ Stored(messages)' = Stored(messages) \cup {m}
        /\ \A n \in Stored(messages) \ {m} : messages'[n] = messages[n]
        /\ UNCHANGED <<projects, threads, turns, processes>>
    BY <1>1 DEF AppendMessage, UpdateMessage, Relations, TablesTyped, Put, Stored
  <2>3. ASSUME NEW h, NEW c, ContextOK(h, c)
        PROVE  ContextOK(h, c)'
    BY <2>2, <2>3 DEF ContextOK
  <2>4. NoDanglingContext'
    BY <2>2, <2>3 DEF Relations, NoDanglingContext, ContextsOK, MessageOK
  <2>5. ProcessesOwned'
    BY <2>2, ProcessesSame DEF Relations
  <2> QED
    BY <2>1, <2>4, <2>5 DEF Relations
<1>2. ASSUME NEW m \in MessageIds, DeleteMessage(m)
      PROVE  Relations'
  <2>1. artifacts' \in [ArtifactIds -> ArtifactRecords \cup {None}]
    BY <1>2 DEF DeleteMessage, Relations, TablesTyped, ArtifactRecords
  <2>2. TablesTyped'
    BY <1>2, <2>1 DEF DeleteMessage, Relations, TablesTyped, Put
  <2>3. /\ Stored(messages)' = Stored(messages) \ {m}
        /\ \A n \in Stored(messages) \ {m} : messages'[n] = messages[n]
        /\ ~ MessageReferenced(m)
        /\ UNCHANGED <<projects, threads, turns, processes>>
    BY <1>2 DEF DeleteMessage, Relations, TablesTyped, Put, Stored
  <2>4. NoDanglingContext'
    BY <2>3 DEF Relations, NoDanglingContext, ContextsOK, ContextOK,
                MessageReferenced, SelectsMessage
  <2>5. ProcessesOwned'
    BY <2>3, ProcessesSame DEF Relations
  <2> QED
    BY <2>2, <2>4, <2>5 DEF Relations
<1> QED
  BY <1>1, <1>2 DEF MessageStep

\* The methods on artifacts and the image commit keep the relations.
LEMMA ArtifactKeepsRelations == Relations /\ ArtifactStep => Relations'
<1> SUFFICES ASSUME Relations, ArtifactStep
             PROVE  Relations'
  OBVIOUS
<1> USE RelationsAssumption
<1>1. ASSUME NEW A \in SUBSET ArtifactIds, NEW r \in ArtifactRecords,
             InsertArtifacts(A, r)
      PROVE  Relations'
  <2>1. TablesTyped'
    BY <1>1 DEF InsertArtifacts, NewArtifacts, Relations, TablesTyped
  <2> QED
    BY <1>1, <2>1, ValidatedStates DEF InsertArtifacts, Relations
<1>2. ASSUME NEW a \in ArtifactIds, DeleteArtifact(a)
      PROVE  Relations'
  <2>1. TablesTyped'
    BY <1>2 DEF DeleteArtifact, Relations, TablesTyped, Put
  <2> QED
    BY <1>2, <2>1, ContextsSame, ProcessesSame DEF DeleteArtifact, Relations
<1>3. ASSUME NEW h \in ThreadIds, NEW u \in MessageIds, NEW v \in MessageIds,
             NEW user \in Bodies, NEW assistant \in Bodies,
             NEW A \in SUBSET ArtifactIds,
             AppendImageGeneration(h, u, user, v, assistant, A)
      PROVE  Relations'
  <2>1. /\ [thread |-> h, turn |-> None, body |-> user] \in MessageRecords
        /\ [thread |-> h, turn |-> None, body |-> assistant] \in MessageRecords
        /\ [thread |-> h, message |-> v] \in ArtifactRecords
    BY DEF MessageRecords, ArtifactRecords
  <2>2. TablesTyped'
    BY <1>3, <2>1 DEF AppendImageGeneration, NewArtifacts, Relations, TablesTyped
  <2> QED
    BY <1>3, <2>2, ValidatedStates DEF AppendImageGeneration, Relations
<1> QED
  BY <1>1, <1>2, <1>3 DEF ArtifactStep

\* The methods on Turns keep the relations.
LEMMA TurnKeepsRelations == Relations /\ TurnStep => Relations'
<1> SUFFICES ASSUME Relations, TurnStep
             PROVE  Relations'
  OBVIOUS
<1> USE RelationsAssumption
<1>1. ASSUME NEW h \in ThreadIds, NEW t \in TurnIds, NEW m \in MessageIds,
             NEW input \in Bodies, NEW A \in SUBSET ArtifactIds,
             InsertTurnInput(h, t, m, input, A)
      PROVE  Relations'
  <2>1. /\ [thread |-> h, turn |-> t, body |-> input] \in MessageRecords
        /\ [thread |-> h, input |-> m] \in TurnRecords
        /\ [thread |-> h, message |-> m] \in ArtifactRecords
    BY DEF MessageRecords, TurnRecords, ArtifactRecords
  <2>2. TablesTyped'
    BY <1>1, <2>1 DEF InsertTurnInput, NewArtifacts, Put, Relations, TablesTyped
  <2> QED
    BY <1>1, <2>2, ValidatedStates DEF InsertTurnInput, Relations
<1>2. ASSUME NEW t \in TurnIds, NEW r \in TurnRecords, InsertTurn(t, r)
      PROVE  Relations'
  <2>1. TablesTyped'
    BY <1>2 DEF InsertTurn, Relations, TablesTyped, Put
  <2>2. /\ t \notin Stored(turns)
        /\ Stored(turns) \subseteq Stored(turns)'
        /\ \A s \in Stored(turns) : turns'[s] = turns[s]
        /\ UNCHANGED <<projects, threads, messages, processes>>
    BY <1>2 DEF InsertTurn, Relations, TablesTyped, Put, Stored
  <2>3. ProcessesOwned'
    BY <2>2 DEF Relations, ProcessesOwned, ProcessesOK, ProcessOK,
                OriginsUnique, Origin
  <2> QED
    BY <2>1, <2>2, <2>3, ContextsSame DEF Relations
<1>3. ASSUME NEW t \in TurnIds, DeleteTurn(t)
      PROVE  Relations'
  <2>1. TablesTyped'
    BY <1>3 DEF DeleteTurn, Relations, TablesTyped, Put
  <2>2. /\ Stored(turns)' = Stored(turns) \ {t}
        /\ \A s \in Stored(turns) \ {t} : turns'[s] = turns[s]
        /\ \A q \in Stored(processes) : processes[q].turn # t
        /\ UNCHANGED <<projects, threads, messages, processes>>
    BY <1>3 DEF DeleteTurn, Relations, TablesTyped, Put, Stored
  <2>3. ProcessesOwned'
    BY <2>2 DEF Relations, ProcessesOwned, ProcessesOK, ProcessOK,
                OriginsUnique, Origin
  <2> QED
    BY <2>1, <2>2, <2>3, ContextsSame DEF Relations
<1> QED
  BY <1>1, <1>2, <1>3 DEF TurnStep

\* The methods on managed processes keep the relations.
LEMMA ProcessKeepsRelations == Relations /\ ProcessStep => Relations'
<1> SUFFICES ASSUME Relations, ProcessStep
             PROVE  Relations'
  OBVIOUS
<1> USE RelationsAssumption
<1>1. PICK q \in ProcessIds :
        \/ \E r \in ProcessRecords : InsertProcess(q, r)
        \/ EndProcess(q) \/ DeleteProcess(q)
  BY DEF ProcessStep
<1>2. UNCHANGED <<projects, threads, messages, turns>>
  BY <1>1 DEF InsertProcess, EndProcess, DeleteProcess
<1>3. CASE \E r \in ProcessRecords : InsertProcess(q, r)
  <2>1. PICK r \in ProcessRecords : InsertProcess(q, r)
    BY <1>3
  <2>2. TablesTyped'
    BY <2>1 DEF InsertProcess, Relations, TablesTyped, Put
  <2>3. /\ q \notin Stored(processes)
        /\ Stored(processes)' = Stored(processes) \cup {q}
        /\ processes'[q] = r
        /\ \A p \in Stored(processes) : processes'[p] = processes[p]
    BY <2>1 DEF InsertProcess, Relations, TablesTyped, Put, Stored
  <2>4. /\ ProcessOK(r)
        /\ \A p \in Stored(processes) : Origin(processes[p]) # Origin(r)
    BY <2>1 DEF InsertProcess
  <2>5. ProcessesOK'
    BY <1>2, <2>3, <2>4 DEF Relations, ProcessesOwned, ProcessesOK, ProcessOK
  <2>6. OriginsUnique'
    BY <2>3, <2>4 DEF Relations, ProcessesOwned, OriginsUnique
  <2>7. ProcessesOwned'
    BY <2>5, <2>6 DEF ProcessesOwned
  <2> QED
    BY <1>2, <2>2, <2>7, ContextsSame DEF Relations
<1>4. CASE EndProcess(q)
  <2> DEFINE ended == [processes[q] EXCEPT !.active = FALSE]
  <2>1. /\ processes[q] \in ProcessRecords
        /\ processes' = [processes EXCEPT ![q] = ended]
    BY <1>4 DEF EndProcess, Relations, TablesTyped, Stored
  <2>2. /\ ended \in ProcessRecords
        /\ ended.thread = processes[q].thread
        /\ ended.turn = processes[q].turn
        /\ ended.call = processes[q].call
        /\ ended.project = processes[q].project
    BY <2>1 DEF ProcessRecords
  <2> HIDE DEF ended
  <2>3. TablesTyped'
    <3>1. processes' \in [ProcessIds -> ProcessRecords \cup {None}]
      BY <2>1, <2>2 DEF Relations, TablesTyped
    <3> QED
      BY <1>4, <3>1 DEF EndProcess, Relations, TablesTyped
  <2>4. Stored(processes)' = Stored(processes)
    BY <2>1, <2>2 DEF Relations, TablesTyped, Stored
  <2>5. \A p \in Stored(processes) :
          /\ processes'[p].thread = processes[p].thread
          /\ processes'[p].turn = processes[p].turn
          /\ processes'[p].call = processes[p].call
          /\ processes'[p].project = processes[p].project
    BY <2>1, <2>2 DEF Relations, TablesTyped, Stored
  <2>6. ProcessesOK'
    BY <1>2, <2>4, <2>5 DEF Relations, ProcessesOwned, ProcessesOK, ProcessOK
  <2>7. OriginsUnique'
    BY <2>4, <2>5 DEF Relations, ProcessesOwned, OriginsUnique, Origin
  <2>8. ProcessesOwned'
    BY <2>6, <2>7 DEF ProcessesOwned
  <2> QED
    BY <1>2, <2>3, <2>8, ContextsSame DEF Relations
<1>5. CASE DeleteProcess(q)
  <2>1. TablesTyped'
    BY <1>5 DEF DeleteProcess, Relations, TablesTyped, Put
  <2>2. /\ Stored(processes)' = Stored(processes) \ {q}
        /\ \A p \in Stored(processes) \ {q} : processes'[p] = processes[p]
    BY <1>5 DEF DeleteProcess, Relations, TablesTyped, Put, Stored
  <2>3. ProcessesOwned'
    BY <1>2, <2>2 DEF Relations, ProcessesOwned, ProcessesOK, ProcessOK,
                      OriginsUnique, Origin
  <2> QED
    BY <1>2, <2>1, <2>3, ContextsSame DEF Relations
<1> QED
  BY <1>1, <1>3, <1>4, <1>5

\* What every method keeps: the types and the two rules.
THEOREM RelationsHold == RelationsSpec => []Relations
<1>1. Relations /\ [RelationsNext]_relationVars => Relations'
  <2> SUFFICES ASSUME Relations, [RelationsNext]_relationVars
               PROVE  Relations'
    OBVIOUS
  <2>1. CASE RelationsNext
    BY <2>1, ProjectKeepsRelations, ThreadKeepsRelations,
       MessageKeepsRelations, ArtifactKeepsRelations, TurnKeepsRelations,
       ProcessKeepsRelations DEF RelationsNext
  <2>2. CASE UNCHANGED relationVars
    BY <2>2, ContextsSame, ProcessesSame DEF relationVars, Relations, TablesTyped
  <2> QED
    BY <2>1, <2>2
<1> QED
  BY InitRelations, <1>1, PTL DEF RelationsSpec

\* delete_project, delete_thread and delete_message refuse to remove what a
\* context still names, so no context of a Thread or a Message dangles.
THEOREM ContextsNeverDangle == RelationsSpec => []NoDanglingContext
BY RelationsHold, PTL DEF Relations

\* A managed process never loses its Thread, Turn or Project, and no tool call
\* ever owns two.
THEOREM ProcessesStayOwned == RelationsSpec => []ProcessesOwned
BY RelationsHold, PTL DEF Relations
------------------------------------------------------------------------------
(* The rules of validate_store_state that callers have a part in             *)

\* What StoreValid asks for beyond the two rules that every method keeps.
Joined == RootsUnique /\ HomesOK /\ MessagesOK /\ ArtifactsOK /\ TurnsOK

LEMMA ValidIsJoined == Relations => (StoreValid <=> Joined)
BY DEF Relations, NoDanglingContext, ProcessesOwned, StoreValid, Joined

\* The rules other than HomesOK mention nothing but these tables; HomesOK
\* mentions only Threads and Workspaces.
LEMMA RecordsSame ==
  ASSUME MessagesOK, ArtifactsOK, TurnsOK, ContextsOK',
         UNCHANGED <<messages, artifacts, turns>>,
         Stored(threads) \subseteq Stored(threads)'
  PROVE  MessagesOK' /\ ArtifactsOK' /\ TurnsOK'
BY DEF MessagesOK, MessageOK, ArtifactsOK, ArtifactOK, TurnsOK, TurnOK,
       ContextsOK, Stored

LEMMA HomesSame ==
  HomesOK /\ UNCHANGED <<workspaces, homes>>
    /\ Stored(threads)' = Stored(threads)
    /\ (\A h \in Stored(threads) : threads'[h].workspace = threads[h].workspace)
    => HomesOK'
BY DEF HomesOK, HomeOK, Stored

\* insert_project and delete_project keep every rule.
LEMMA ProjectKeepsJoined ==
  Relations /\ Relations' /\ Joined /\ ProjectStep => Joined'
<1> SUFFICES ASSUME Relations, Relations', Joined, ProjectStep PROVE Joined'
  OBVIOUS
<1>1. PICK p \in ProjectIds :
        (\E root \in Roots : InsertProject(p, root)) \/ DeleteProject(p)
  BY DEF ProjectStep
<1>2. UNCHANGED <<threads, messages, artifacts, turns, workspaces, homes>>
  BY <1>1 DEF InsertProject, DeleteProject
<1>3. RootsUnique'
  BY <1>1, RelationsAssumption
     DEF InsertProject, DeleteProject, Put, Relations, TablesTyped, Joined,
         RootsUnique, Stored
<1>4. MessagesOK' /\ ArtifactsOK' /\ TurnsOK'
  BY <1>2, RecordsSame DEF Joined, Relations, NoDanglingContext, Stored
<1>5. HomesOK'
  BY <1>2, HomesSame DEF Joined, Stored
<1> QED
  BY <1>3, <1>4, <1>5 DEF Joined

\* The methods on Threads keep every rule: a Workspace comes and goes with its
\* Thread, and what belongs to a Thread goes with it.
LEMMA ThreadKeepsJoined ==
  Relations /\ Relations' /\ ~ partial /\ Joined /\ ThreadStep => Joined'
<1> SUFFICES ASSUME Relations, Relations', ~ partial, Joined, ThreadStep
             PROVE  Joined'
  OBVIOUS
<1> USE RelationsAssumption
<1>1. ASSUME NEW h \in ThreadIds, NEW k \in WorkspaceIds, NEW c \in Contexts,
             InsertThreadWithWorkspace(h, k, c)
      PROVE  Joined'
  <2>1. [workspace |-> k, context |-> c] \in ThreadRecords
    BY DEF ThreadRecords
  <2>2. /\ h \notin Stored(threads)
        /\ Stored(threads)' = Stored(threads) \cup {h}
        /\ threads'[h].workspace = k
        /\ \A g \in Stored(threads) : threads'[g] = threads[g]
    BY <1>1, <2>1 DEF InsertThreadWithWorkspace, Relations, TablesTyped, Put, Stored
  <2>3. /\ workspaces[k] = None /\ homes[h] = None
        /\ \A j \in WorkspaceIds :
             workspaces'[j] = IF j = k THEN h ELSE workspaces[j]
        /\ \A g \in ThreadIds : homes'[g] = IF g = h THEN k ELSE homes[g]
    BY <1>1 DEF InsertThreadWithWorkspace, Relations, TablesTyped, Put
  <2>4. UNCHANGED <<projects, messages, artifacts, turns>>
    BY <1>1 DEF InsertThreadWithWorkspace
  <2>5. HomesOK'
    <3>1. \A g \in ThreadIds, j \in WorkspaceIds :
            homes'[g] = j <=> workspaces'[j] = g
      BY <2>3 DEF Joined, HomesOK
    <3>2. Stored(workspaces)' = Stored(workspaces) \cup {k}
      BY <1>1, <2>3 DEF InsertThreadWithWorkspace, Relations, TablesTyped, Put, Stored
    <3>3. k \notin Stored(workspaces)
      BY <2>3 DEF Stored
    <3>4. \A j \in Stored(workspaces)' :
            /\ workspaces'[j] \in Stored(threads)'
            /\ threads'[workspaces'[j]].workspace = j
      BY <2>2, <2>3, <3>2, <3>3 DEF Joined, HomesOK, Stored, Relations, TablesTyped
    <3>5. \A g \in Stored(threads)' :
            /\ threads'[g].workspace \in Stored(workspaces)'
            /\ HomeOK(g, threads[g].workspace)'
      <4> SUFFICES ASSUME NEW g \in Stored(threads)'
                   PROVE  /\ threads'[g].workspace \in Stored(workspaces)'
                          /\ HomeOK(g, threads[g].workspace)'
        OBVIOUS
      <4>1. CASE g = h
        BY <2>2, <2>3, <3>2, <4>1 DEF HomeOK
      <4>2. CASE g # h
        <5>1. /\ g \in Stored(threads) /\ g \in ThreadIds
              /\ threads[g].workspace \in Stored(workspaces)
              /\ HomeOK(g, threads[g].workspace)
          BY <2>2, <4>2 DEF Joined, HomesOK, Relations, TablesTyped, Stored
        <5>2. threads[g].workspace # k /\ threads[g].workspace \in WorkspaceIds
          BY <3>3, <5>1 DEF Stored, Relations, TablesTyped
        <5> QED
          BY <2>2, <2>3, <3>2, <4>2, <5>1, <5>2 DEF HomeOK
      <4> QED
        BY <4>1, <4>2
    <3> QED
      BY <3>1, <3>4, <3>5 DEF HomesOK
  <2>6. MessagesOK' /\ ArtifactsOK' /\ TurnsOK'
    BY <2>2, <2>4, RecordsSame DEF Joined, Relations, NoDanglingContext
  <2> QED
    BY <2>4, <2>5, <2>6 DEF Joined, RootsUnique, Stored
<1>2. ASSUME NEW h \in ThreadIds, NEW c \in Contexts, UpdateThread(h, c)
      PROVE  Joined'
  <2>1. /\ Stored(threads)' = Stored(threads)
        /\ \A g \in Stored(threads) :
             threads'[g].workspace = threads[g].workspace
        /\ UNCHANGED <<projects, messages, artifacts, turns, workspaces, homes>>
    BY <1>2 DEF UpdateThread, Relations, TablesTyped, Stored, ThreadRecords
  <2>2. MessagesOK' /\ ArtifactsOK' /\ TurnsOK'
    BY <2>1, RecordsSame DEF Joined, Relations, NoDanglingContext
  <2>3. HomesOK'
    BY <2>1, HomesSame DEF Joined
  <2> QED
    BY <2>1, <2>2, <2>3 DEF Joined, RootsUnique, Stored
<1>3. ASSUME NEW h \in ThreadIds, DeleteThread(h)
      PROVE  Joined'
  <2>1. /\ h \in Stored(threads)
        /\ Stored(threads)' = Stored(threads) \ {h}
        /\ \A g \in Stored(threads) \ {h} : threads'[g] = threads[g]
        /\ UNCHANGED projects
    BY <1>3 DEF DeleteThread, Relations, TablesTyped, Put, Stored
  <2>2. /\ Stored(messages)' =
             {m \in Stored(messages) : messages[m].thread # h}
        /\ \A m \in Stored(messages)' : messages'[m] = messages[m]
    BY <1>3 DEF DeleteThread, Relations, TablesTyped, Without, Of, Stored
  <2>3. /\ Stored(turns)' = {t \in Stored(turns) : turns[t].thread # h}
        /\ \A t \in Stored(turns)' : turns'[t] = turns[t]
    BY <1>3 DEF DeleteThread, Relations, TablesTyped, Without, Of, Stored
  <2>4. /\ Stored(artifacts)' =
             {a \in Stored(artifacts) : artifacts[a].thread # h}
        /\ \A a \in Stored(artifacts)' : artifacts'[a] = artifacts[a]
    BY <1>3 DEF DeleteThread, Relations, TablesTyped, Without, Of, Stored
  <2>5. MessagesOK'
    <3> SUFFICES ASSUME NEW m \in Stored(messages)'
                 PROVE  MessageOK(m, messages[m])'
      BY DEF MessagesOK
    <3>1. /\ MessageOK(m, messages[m]) /\ messages'[m] = messages[m]
          /\ messages[m].thread # h
      BY <2>2 DEF Joined, MessagesOK
    <3>2. ContextOK(messages[m].thread, messages[m].body.context)'
      BY DEF Relations, NoDanglingContext, ContextsOK
    <3> QED
      BY <2>1, <2>3, <2>4, <3>1, <3>2 DEF MessageOK
  <2>6. ArtifactsOK'
    BY <2>1, <2>2, <2>4 DEF Joined, ArtifactsOK, ArtifactOK
  <2>7. TurnsOK'
    BY <2>1, <2>2, <2>3 DEF Joined, TurnsOK, TurnOK
  <2>8. HomesOK'
    <3> DEFINE j == threads[h].workspace
    <3>1. /\ j \in WorkspaceIds /\ workspaces[j] = h /\ homes[h] = j
      BY <2>1 DEF Joined, HomesOK, HomeOK, Stored, Relations, TablesTyped
    <3>2. /\ \A k \in WorkspaceIds :
               workspaces'[k] = IF k = j THEN None ELSE workspaces[k]
          /\ \A g \in ThreadIds : homes'[g] = IF g = h THEN None ELSE homes[g]
      BY <1>3, <3>1 DEF DeleteThread, Put, Relations, TablesTyped
    <3>3. Stored(workspaces)' = Stored(workspaces) \ {j}
      BY <3>2 DEF Stored, Relations, TablesTyped
    <3> HIDE DEF j
    <3>4. \A g \in ThreadIds, k \in WorkspaceIds :
            homes'[g] = k <=> workspaces'[k] = g
      BY <3>1, <3>2 DEF Joined, HomesOK
    <3>5. \A k \in Stored(workspaces)' :
            /\ workspaces'[k] \in Stored(threads)'
            /\ threads'[workspaces'[k]].workspace = k
      BY <2>1, <3>1, <3>2, <3>3 DEF Joined, HomesOK, Stored, Relations, TablesTyped
    <3>6. \A g \in Stored(threads)' :
            /\ threads'[g].workspace \in Stored(workspaces)'
            /\ HomeOK(g, threads[g].workspace)'
      BY <2>1, <3>1, <3>2, <3>3
         DEF Joined, HomesOK, HomeOK, Stored, Relations, TablesTyped
    <3> QED
      BY <3>4, <3>5, <3>6 DEF HomesOK
  <2> QED
    BY <2>1, <2>5, <2>6, <2>7, <2>8 DEF Joined, RootsUnique, Stored
<1>4. ASSUME NEW k \in WorkspaceIds, DeleteWorkspace(k)
      PROVE  FALSE
  BY <1>4 DEF DeleteWorkspace, Joined, HomesOK
<1> QED
  BY <1>1, <1>2, <1>3, <1>4 DEF ThreadStep, InsertThread, InsertWorkspace

\* The methods on messages keep every rule: the input of a Turn is not deleted,
\* and the artifacts of a deleted message forget it.
LEMMA MessageKeepsJoined ==
  Relations /\ Relations' /\ ~ partial /\ Joined /\ MessageStep => Joined'
<1> SUFFICES ASSUME Relations, Relations', ~ partial, Joined, MessageStep
             PROVE  Joined'
  OBVIOUS
<1> USE RelationsAssumption
<1>1. ASSUME NEW m \in MessageIds, NEW r \in MessageRecords, AppendMessage(m, r)
      PROVE  Joined'
  <2>1. /\ messages'[m] = r /\ MessageOK(m, r) /\ m \notin Stored(messages)
        /\ Stored(messages)' = Stored(messages) \cup {m}
        /\ \A n \in Stored(messages) : messages'[n] = messages[n]
        /\ UNCHANGED <<projects, threads, artifacts, turns, workspaces, homes>>
    BY <1>1 DEF AppendMessage, Relations, TablesTyped, Put, Stored
  <2>2. MessagesOK'
    <3> SUFFICES ASSUME NEW n \in Stored(messages)'
                 PROVE  MessageOK(n, messages[n])'
      BY DEF MessagesOK
    <3>1. MessageOK(n, messages'[n])
      BY <2>1 DEF Joined, MessagesOK
    <3>2. ContextOK(messages[n].thread, messages[n].body.context)'
      BY DEF Relations, NoDanglingContext, ContextsOK
    <3> QED
      BY <2>1, <3>1, <3>2 DEF MessageOK
  <2>3. ArtifactsOK'
    BY <2>1 DEF Joined, ArtifactsOK, ArtifactOK
  <2>4. TurnsOK'
    BY <2>1 DEF Joined, TurnsOK, TurnOK
  <2>5. HomesOK'
    BY <2>1, HomesSame DEF Joined, Stored
  <2> QED
    BY <2>1, <2>2, <2>3, <2>4, <2>5 DEF Joined, RootsUnique, Stored
<1>2. ASSUME NEW m \in MessageIds, DeleteMessage(m)
      PROVE  Joined'
  <2>1. /\ Stored(messages)' = Stored(messages) \ {m}
        /\ \A n \in Stored(messages) \ {m} : messages'[n] = messages[n]
        /\ \A t \in Stored(turns) : turns[t].input # m
        /\ UNCHANGED <<projects, threads, turns, workspaces, homes>>
    BY <1>2 DEF DeleteMessage, Relations, TablesTyped, Put, Stored
  <2>2. /\ Stored(artifacts)' = Stored(artifacts)
        /\ \A a \in Stored(artifacts) :
             /\ artifacts'[a].thread = artifacts[a].thread
             /\ artifacts'[a].message =
                  IF artifacts[a].message = m THEN None ELSE artifacts[a].message
    BY SMTT(60), <1>2 DEF DeleteMessage, Relations, TablesTyped, Stored, ArtifactRecords
  <2>3. MessagesOK'
    <3> SUFFICES ASSUME NEW n \in Stored(messages)'
                 PROVE  MessageOK(n, messages[n])'
      BY DEF MessagesOK
    <3>1. MessageOK(n, messages'[n]) /\ n # m
      BY <2>1 DEF Joined, MessagesOK
    <3>2. ContextOK(messages[n].thread, messages[n].body.context)'
      BY DEF Relations, NoDanglingContext, ContextsOK
    <3> QED
      BY <2>1, <2>2, <3>1, <3>2 DEF MessageOK
  <2>4. ArtifactsOK'
    BY <2>1, <2>2 DEF Joined, ArtifactsOK, ArtifactOK
  <2>5. TurnsOK'
    BY <2>1 DEF Joined, TurnsOK, TurnOK
  <2>6. HomesOK'
    BY <2>1, HomesSame DEF Joined, Stored
  <2> QED
    BY <2>1, <2>3, <2>4, <2>5, <2>6 DEF Joined, RootsUnique, Stored
<1> QED
  BY <1>1, <1>2 DEF MessageStep, UpdateMessage

\* The methods on Turns keep every rule: insert_turn checks its input, and
\* delete_turn looks for messages of the Turn.
LEMMA TurnKeepsJoined ==
  Relations /\ Relations' /\ Joined /\ TurnStep => Joined'
<1> SUFFICES ASSUME Relations, Relations', Joined, TurnStep PROVE Joined'
  OBVIOUS
<1> USE RelationsAssumption
<1>1. CASE \E h \in ThreadIds, t \in TurnIds, m \in MessageIds,
             input \in Bodies, A \in SUBSET ArtifactIds :
             InsertTurnInput(h, t, m, input, A)
  BY <1>1, ValidIsJoined DEF InsertTurnInput, StoreValid, Joined
<1>2. ASSUME NEW t \in TurnIds,
             (\E r \in TurnRecords : InsertTurn(t, r)) \/ DeleteTurn(t)
      PROVE  Joined'
  <2>1. /\ UNCHANGED <<projects, threads, messages, artifacts, workspaces, homes>>
        /\ \A s \in Stored(turns) \ {t} :
             s \in Stored(turns)' /\ turns'[s] = turns[s]
        /\ Stored(turns)' \subseteq Stored(turns) \cup {t}
        /\ t \in Stored(turns)' => TurnOK(t, turns'[t]) /\ t \notin Stored(turns)
        /\ t \notin Stored(turns)' =>
             \A m \in Stored(messages) : messages[m].turn # t
    BY <1>2 DEF InsertTurn, DeleteTurn, Put, Stored, Relations, TablesTyped
  <2>2. MessagesOK'
    <3> SUFFICES ASSUME NEW n \in Stored(messages)'
                 PROVE  MessageOK(n, messages[n])'
      BY DEF MessagesOK
    <3>1. /\ n \in Stored(messages) /\ messages'[n] = messages[n]
          /\ MessageOK(n, messages[n])
      BY <2>1 DEF Joined, MessagesOK, Stored
    <3>2. ContextOK(messages[n].thread, messages[n].body.context)'
      BY DEF Relations, NoDanglingContext, ContextsOK
    <3>3. messages[n].turn # None =>
            /\ messages[n].turn \in Stored(turns)'
            /\ turns'[messages[n].turn] = turns[messages[n].turn]
      BY <2>1, <3>1 DEF MessageOK
    <3> QED
      BY <2>1, <3>1, <3>2, <3>3 DEF MessageOK, Stored
  <2>3. ArtifactsOK'
    BY <2>1 DEF Joined, ArtifactsOK, ArtifactOK, Stored
  <2>4. TurnsOK'
    <3> SUFFICES ASSUME NEW s \in Stored(turns)' PROVE TurnOK(s, turns[s])'
      BY DEF TurnsOK
    <3>1. TurnOK(s, turns'[s])
      BY <2>1 DEF Joined, TurnsOK
    <3> QED
      BY <2>1, <3>1 DEF TurnOK, Stored
  <2>5. HomesOK'
    BY <2>1, HomesSame DEF Joined, Stored
  <2> QED
    BY <2>1, <2>2, <2>3, <2>4, <2>5 DEF Joined, RootsUnique, Stored
<1> QED
  BY <1>1, <1>2 DEF TurnStep

\* As long as only the calls the program makes are made, the store is one that
\* validate_store_state accepts: the next open and the next queued Turn find
\* every rule kept.
THEOREM StoreStaysValid == RelationsSpec => []StaysValid
<1>1. RelationsInit => (~ partial => Joined)
  BY RelationsAssumption
     DEF RelationsInit, Joined, RootsUnique, HomesOK, MessagesOK, ArtifactsOK, TurnsOK,
         Stored
<1>2. Relations /\ Relations' /\ (~ partial => Joined) /\ [RelationsNext]_relationVars
        => (~ partial => Joined)'
  <2> SUFFICES ASSUME Relations, Relations', ~ partial => Joined, [RelationsNext]_relationVars,
                      ~ partial'
               PROVE  Joined'
    OBVIOUS
  <2>1. CASE UNCHANGED relationVars
    BY <2>1 DEF relationVars, Joined, RootsUnique, HomesOK, HomeOK, MessagesOK,
                MessageOK, ContextOK, ArtifactsOK, ArtifactOK, TurnsOK, TurnOK,
                Stored
  <2>2. CASE ArtifactStep
    <3>1. \A a \in ArtifactIds : DeleteArtifact(a) => partial'
      BY DEF DeleteArtifact
    <3> QED
      BY ZenonT(60), <2>2, <3>1, ValidIsJoined
         DEF ArtifactStep, InsertArtifacts, AppendImageGeneration, StoreValid, Joined
  <2>3. CASE ProcessStep
    <3>1. UNCHANGED <<projects, threads, messages, artifacts, turns, workspaces,
                      homes, partial>>
      BY <2>3 DEF ProcessStep, InsertProcess, EndProcess, DeleteProcess
    <3> QED
      BY <3>1 DEF Joined, RootsUnique, HomesOK, HomeOK, MessagesOK, MessageOK,
                  ContextOK, ArtifactsOK, ArtifactOK, TurnsOK, TurnOK, Stored
  <2>4. CASE ProjectStep
    BY <2>4, ProjectKeepsJoined DEF ProjectStep, InsertProject, DeleteProject
  <2>5. CASE ThreadStep
    <3>1. UNCHANGED partial
      BY ZenonT(60), <2>5 DEF ThreadStep, UpdateThread, InsertThreadWithWorkspace,
                  InsertThread, DeleteThread, DeleteWorkspace, InsertWorkspace
    <3> QED
      BY <2>5, <3>1, ThreadKeepsJoined
  <2>6. CASE MessageStep
    <3>1. UNCHANGED partial
      BY <2>6 DEF MessageStep, AppendMessage, UpdateMessage, DeleteMessage
    <3> QED
      BY <2>6, <3>1, MessageKeepsJoined
  <2>7. CASE TurnStep
    <3>1. UNCHANGED partial
      BY ZenonT(60), <2>7 DEF TurnStep, InsertTurnInput, InsertTurn, DeleteTurn
    <3> QED
      BY <2>7, <3>1, TurnKeepsJoined
  <2> QED
    BY <2>1, <2>2, <2>3, <2>4, <2>5, <2>6, <2>7 DEF RelationsNext
<1>3. Relations /\ (~ partial => Joined) => StaysValid
  BY ValidIsJoined DEF StaysValid
<1> QED
  BY <1>1, <1>2, <1>3, RelationsHold, PTL DEF RelationsSpec
===============================================================================
