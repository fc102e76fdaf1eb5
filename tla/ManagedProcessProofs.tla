------------------------ MODULE ManagedProcessProofs ------------------------
(***************************************************************************)
(* Proofs about module ManagedProcess, for any set of start requests,      *)
(* callers and quotas, any output and any number of failures and deaths    *)
(* of the app-server.                                                      *)
(***************************************************************************)
EXTENDS ManagedProcess, FiniteSetTheorems, TLAPS

-----------------------------------------------------------------------------
(* The inductive invariant                                                   *)

\* Stages of an actor that is through with its group, if there ever was one.
Leaving == {"none", "failing", "ending", "done"}
\* Stages between the spawn of the command and the end of its supervision.
Supervising == {"arming", "starting", "running", "stopping", "draining", "closing"}
\* Stages in which the readers feed the logger.
Logging == {"running", "stopping", "draining"}

\* Nothing has happened yet to the process of a request.
Untouched(p) ==
  /\ log[p] = NoLog /\ group[p] = "none" /\ guard[p] = "none"
  /\ runs[p] = 0 /\ heard[p] = <<>>

\* Where record, handle and actor of a process are, relative to each other.
Placed(p) ==
  /\ handle[p] = "actor" <=> actor[p] # "none"
  /\ actor[p] # "none" => server = "up" /\ rec[p] # Absent
  /\ actor[p] = "none" => /\ ~held[p] /\ logger[p] = "none"
                         /\ fate[p] = NewFate /\ io[p] = NoIO
  /\ rec[p].st = "absent" => rec[p] = Absent
  /\ rec[p] = Absent => handle[p] = "none" /\ Untouched(p)
  /\ actor[p] = "init" => Untouched(p)
  /\ server = "up" /\ rec[p] # Absent /\ handle[p] = "none" =>
       /\ rec[p] = [st |-> "Starting", seq |-> 0, end |-> 0]
       /\ Untouched(p)

\* The process group at each stage of its actor.
Spawned(p) ==
  /\ runs[p] <= 1
  /\ runs[p] = 0 <=> group[p] = "none"
  /\ actor[p] \in {"init", "logged"} => group[p] = "none"
  /\ actor[p] \in Supervising => group[p] # "none"
  /\ actor[p] \in {"draining", "closing", "failing", "ending", "done"} => ~GroupAlive(p)
  /\ GroupAlive(p) => guard[p] \in Watching
  /\ guard[p] \in Watching => group[p] # "none"
  /\ rec[p].st \in Terminal \ {"Lost"} => ~GroupAlive(p)

\* What record and snapshot show at each stage of the actor.
Shown(p) ==
  /\ actor[p] \in {"init", "logged", "arming"} =>
       rec[p].st = "Starting" /\ snap[p].st = "Starting"
  /\ actor[p] = "starting" => rec[p].st = "Running" /\ snap[p].st = "Running"
  /\ actor[p] \in {"init", "logged", "arming", "starting"} => ~fate[p].stop
  /\ actor[p] \in {"running", "draining", "closing"} /\ ~fate[p].stop =>
       rec[p].st = "Running" /\ snap[p].st = "Running"
  /\ actor[p] \in {"running", "draining", "closing"} /\ fate[p].stop =>
       /\ snap[p].st = "Stopping" /\ rec[p].st \in {"Running", "Stopping"}
       /\ ~fate[p].error => rec[p].st = "Stopping"
  /\ actor[p] = "stopping" =>
       fate[p].stop /\ rec[p].st = "Running" /\ snap[p].st = "Stopping"
  /\ actor[p] = "ending" =>
       /\ snap[p].st \in {"Exited", "Stopped", "Failed"}
       /\ rec[p].st \in {"Running", "Stopping"}
       /\ snap[p].st = "Stopped" => rec[p].st = "Stopping"
  /\ actor[p] = "failing" => snap[p].st = "Failed" /\ rec[p].st \in {"Starting", "Running"}
  /\ actor[p] = "done" =>
       /\ snap[p].st \in Terminal \ {"Lost"}
       /\ rec[p].st \in Active \cup {snap[p].st}

\* Sequences and cursors of record, snapshot, log and logger.
Counted(p) ==
  /\ ~log[p].on => log[p] = NoLog
  /\ actor[p] # "none" =>
       /\ rec[p].seq <= snap[p].seq /\ rec[p].end <= snap[p].end
       /\ snap[p].end <= io[p].mem /\ log[p].end <= io[p].mem
       /\ log[p].seq <= snap[p].seq + 1
  /\ held[p] => actor[p] \in Announcing /\ logger[p] # "written"
  /\ logger[p] \in {"idle", "written"} => actor[p] \in Logging
  /\ logger[p] = "written" =>
       log[p].on /\ log[p].end = io[p].mem /\ log[p].seq = snap[p].seq + 1
  /\ handle[p] = "cached" =>
       /\ snap[p] = rec[p] /\ rec[p].st \in Terminal
       /\ log[p].end <= rec[p].end

\* What clients have heard of a process.
Heard(p) ==
  /\ \A i \in 1..Len(heard[p]) - 1 : heard[p][i].seq < heard[p][i + 1].seq
  /\ \A i \in 1..Len(heard[p]) :
       /\ heard[p][i].seq <= rec[p].seq \/ heard[p][i].seq <= log[p].seq
       /\ actor[p] # "none" => heard[p][i].seq <= snap[p].seq
       /\ held[p] => heard[p][i].seq < snap[p].seq
       /\ handle[p] = "cached" => heard[p][i].seq <= rec[p].seq
       /\ heard[p][i].kind \in Terminal =>
            i = Len(heard[p]) /\ rec[p].st = heard[p][i].kind /\ actor[p] \in {"none", "done"}
       /\ heard[p][i].kind = "Output" => log[p].on /\ heard[p][i].end <= log[p].end

Sound(p) == Placed(p) /\ Spawned(p) /\ Shown(p) /\ Counted(p) /\ Heard(p)

\* What the calls at each stage may rely on.
Calling ==
  \A c \in Callers :
    /\ call[c].at # "idle" => server = "up"
    /\ call[c].at \in {"entering", "checked", "inserted"} => \E p \in Processes : call[c].for = {p}
    /\ call[c].at \in {"checked", "inserted", "starting"} => lock = c
    /\ call[c].at = "inserted" =>
         \A p \in call[c].for : rec[p] # Absent /\ handle[p] = "none"

\* A shutdown past its barrier lets no start through and waits for all that runs.
ShuttingDown ==
  LET past(c) == call[c].at \in {"waiting", "hopeless"} IN
  /\ \A c \in Callers : call[c].at = "barrier" => shutting
  /\ closed \/ (\E c \in Callers : past(c)) =>
       shutting /\ \A c \in Callers : call[c].at \notin {"checked", "inserted"}
  /\ closed => \A p \in Processes : actor[p] \in Leaving
  /\ \A c \in Callers : past(c) => \A p \in Processes : p \in call[c].for \/ actor[p] \in Leaving

\* The records of each quota.
Of(p) == {q \in ActiveIn(rec) : ThreadOf[q] = ThreadOf[p]}

Admitted ==
  /\ IsFiniteSet(ActiveIn(rec)) /\ Cardinality(ActiveIn(rec)) <= MaxActive
  /\ \A p \in Processes : Cardinality(Of(p)) <= MaxPerThread

IInv ==
  /\ TypeOK
  /\ \A p \in Processes : Sound(p)
  /\ Calling
  /\ ShuttingDown
  /\ Admitted

-----------------------------------------------------------------------------
(* Steps of one process                                                      *)

\* A step leaves a process alone.
Alone(q) ==
  /\ rec'[q] = rec[q] /\ snap'[q] = snap[q] /\ handle'[q] = handle[q]
  /\ actor'[q] = actor[q] /\ held'[q] = held[q] /\ fate'[q] = fate[q]
  /\ logger'[q] = logger[q] /\ io'[q] = io[q] /\ log'[q] = log[q]
  /\ group'[q] = group[q] /\ guard'[q] = guard[q] /\ runs'[q] = runs[q]
  /\ heard'[q] = heard[q]

\* What is left alone stays sound.
LEMMA AloneIsSound ==
  ASSUME NEW q \in Processes, Sound(q), Alone(q), server' = server
  PROVE  Sound(q)'
<1>1. Placed(q)'
  BY DEF Sound, Placed, Alone, Untouched
<1>2. Spawned(q)'
  BY DEF Sound, Spawned, Alone, GroupAlive
<1>3. Shown(q)'
  BY DEF Sound, Shown, Alone
<1>4. Counted(q)'
  BY DEF Sound, Counted, Alone
<1>5. Heard(q)'
  BY DEF Sound, Heard, Alone
<1>6. QED
  BY <1>1, <1>2, <1>3, <1>4, <1>5 DEF Sound

\* What a step of actor, logger or guardian does to its process besides keeping
\* it sound: it makes and revives nothing.
Advances(p) ==
  /\ Sound(p)'
  /\ handle' = handle
  /\ rec'[p] = Absent => rec[p] = Absent
  /\ rec'[p].st \in Active => rec[p].st \in Active
  /\ actor[p] \in Leaving => actor'[p] \in Leaving

\* The types of what is kept of a process.
Events  == [seq : Nat, end : Nat, kind : {"Started", "Output"} \cup Active \cup Terminal]
Logs    == [on : BOOLEAN, end : Nat, seq : Nat]
Outputs == [made : Nat, mem : Nat, err : BOOLEAN]
Fates   == [stop : BOOLEAN, error : BOOLEAN, unsaved : BOOLEAN]

\* What an update of one field makes of it.
LEMMA SnapshotShows ==
  ASSUME TypeOK, NEW p \in Processes, NEW s,
         snap' = [snap EXCEPT ![p].st = s]
  PROVE  /\ snap'[p] = [st |-> s, seq |-> snap[p].seq, end |-> snap[p].end]
         /\ s \in Active \cup Terminal => snap' \in [Processes -> Record]
<1>1. snap \in [Processes -> Record]
  BY DEF TypeOK, Record
<1>2. snap'[p] = [snap[p] EXCEPT !.st = s] /\ snap[p] \in Record
  BY <1>1
<1>3. snap'[p] = [st |-> s, seq |-> snap[p].seq, end |-> snap[p].end]
  BY <1>2 DEF Record
<1>4. s \in Active \cup Terminal => snap'[p] \in Record
  BY <1>2, <1>3 DEF Record
<1>5. QED
  BY <1>1, <1>3, <1>4

LEMMA SnapshotCounts ==
  ASSUME TypeOK, NEW p \in Processes,
         snap' = [snap EXCEPT ![p].seq = @ + 1]
  PROVE  /\ snap'[p] = [st |-> snap[p].st, seq |-> snap[p].seq + 1, end |-> snap[p].end]
         /\ snap' \in [Processes -> Record]
<1>1. snap \in [Processes -> Record]
  BY DEF TypeOK, Record
<1>2. snap'[p] = [snap[p] EXCEPT !.seq = @ + 1] /\ snap[p] \in Record
  BY <1>1
<1>3. snap'[p] = [st |-> snap[p].st, seq |-> snap[p].seq + 1, end |-> snap[p].end]
  BY <1>2 DEF Record
<1>4. snap'[p] \in Record
  BY <1>2, <1>3 DEF Record
<1>5. QED
  BY <1>1, <1>3, <1>4

LEMMA SnapshotReads ==
  ASSUME TypeOK, NEW p \in Processes, NEW e,
         snap' = [snap EXCEPT ![p].end = e, ![p].seq = @ + 1]
  PROVE  /\ snap'[p] = [st |-> snap[p].st, seq |-> snap[p].seq + 1, end |-> e]
         /\ e \in Nat => snap' \in [Processes -> Record]
<1>1. snap \in [Processes -> Record]
  BY DEF TypeOK, Record
<1>2. snap'[p] = [snap[p] EXCEPT !.end = e, !.seq = @ + 1] /\ snap[p] \in Record
  BY <1>1
<1>3. snap'[p] = [st |-> snap[p].st, seq |-> snap[p].seq + 1, end |-> e]
  BY ZenonT(60), <1>2 DEF Record
<1>4. e \in Nat => snap'[p] \in Record
  BY <1>2, <1>3 DEF Record
<1>5. QED
  BY <1>1, <1>3, <1>4

LEMMA RecordShows ==
  ASSUME TypeOK, NEW p \in Processes, NEW s,
         rec' = [rec EXCEPT ![p].st = s]
  PROVE  /\ rec'[p] = [st |-> s, seq |-> rec[p].seq, end |-> rec[p].end]
         /\ s \in Active \cup Terminal => rec' \in [Processes -> Record]
<1>1. rec \in [Processes -> Record]
  BY DEF TypeOK, Record
<1>2. rec'[p] = [rec[p] EXCEPT !.st = s] /\ rec[p] \in Record
  BY <1>1
<1>3. rec'[p] = [st |-> s, seq |-> rec[p].seq, end |-> rec[p].end]
  BY <1>2 DEF Record
<1>4. s \in Active \cup Terminal => rec'[p] \in Record
  BY <1>2, <1>3 DEF Record
<1>5. QED
  BY <1>1, <1>3, <1>4

LEMMA LogOpens ==
  ASSUME TypeOK, NEW p \in Processes,
         log' = [log EXCEPT ![p].on = TRUE]
  PROVE  /\ log'[p] = [on |-> TRUE, end |-> log[p].end, seq |-> log[p].seq]
         /\ log' \in [Processes -> Logs]
<1>1. log \in [Processes -> Logs]
  BY DEF TypeOK, Logs
<1>2. log'[p] = [log[p] EXCEPT !.on = TRUE] /\ log[p] \in Logs
  BY <1>1
<1>3. log'[p] = [on |-> TRUE, end |-> log[p].end, seq |-> log[p].seq]
  BY ZenonT(60), <1>2 DEF Logs
<1>4. log'[p] \in Logs
  BY ZenonT(60), <1>2, <1>3 DEF Logs
<1>5. QED
  BY <1>1, <1>3, <1>4

LEMMA OutputRead ==
  ASSUME TypeOK, NEW p \in Processes,
         io' = [io EXCEPT ![p].made = @ + 1]
  PROVE  /\ io'[p] = [made |-> io[p].made + 1, mem |-> io[p].mem, err |-> io[p].err]
         /\ io' \in [Processes -> Outputs]
<1>1. io \in [Processes -> Outputs]
  BY DEF TypeOK, Outputs
<1>2. io'[p] = [io[p] EXCEPT !.made = @ + 1] /\ io[p] \in Outputs
  BY <1>1
<1>3. io'[p] = [made |-> io[p].made + 1, mem |-> io[p].mem, err |-> io[p].err]
  BY <1>2 DEF Outputs
<1>4. io'[p] \in Outputs
  BY <1>2, <1>3 DEF Outputs
<1>5. QED
  BY <1>1, <1>3, <1>4

LEMMA OutputAppended ==
  ASSUME TypeOK, NEW p \in Processes,
         io' = [io EXCEPT ![p].mem = @ + 1]
  PROVE  /\ io'[p] = [made |-> io[p].made, mem |-> io[p].mem + 1, err |-> io[p].err]
         /\ io' \in [Processes -> Outputs]
<1>1. io \in [Processes -> Outputs]
  BY DEF TypeOK, Outputs
<1>2. io'[p] = [io[p] EXCEPT !.mem = @ + 1] /\ io[p] \in Outputs
  BY <1>1
<1>3. io'[p] = [made |-> io[p].made, mem |-> io[p].mem + 1, err |-> io[p].err]
  BY <1>2 DEF Outputs
<1>4. io'[p] \in Outputs
  BY <1>2, <1>3 DEF Outputs
<1>5. QED
  BY <1>1, <1>3, <1>4

LEMMA OutputLost ==
  ASSUME TypeOK, NEW p \in Processes,
         io' = [io EXCEPT ![p].mem = @ + 1, ![p].err = TRUE]
  PROVE  /\ io'[p] = [made |-> io[p].made, mem |-> io[p].mem + 1, err |-> TRUE]
         /\ io' \in [Processes -> Outputs]
<1>1. io \in [Processes -> Outputs]
  BY DEF TypeOK, Outputs
<1>2. io'[p] = [io[p] EXCEPT !.mem = @ + 1, !.err = TRUE] /\ io[p] \in Outputs
  BY <1>1
<1>3. io'[p] = [made |-> io[p].made, mem |-> io[p].mem + 1, err |-> TRUE]
  BY ZenonT(60), <1>2 DEF Outputs
<1>4. io'[p] \in Outputs
  <2>1. io[p].made \in Nat /\ io[p].mem + 1 \in Nat
    BY <1>2 DEF Outputs
  <2>2. \A m, n \in Nat : [made |-> m, mem |-> n, err |-> TRUE] \in Outputs
    BY DEF Outputs
  <2>3. QED
    BY <1>3, <2>1, <2>2
<1>5. QED
  BY <1>1, <1>3, <1>4

LEMMA StopNoted ==
  ASSUME TypeOK, NEW p \in Processes,
         fate' = [fate EXCEPT ![p].stop = TRUE]
  PROVE  /\ fate'[p] = [stop |-> TRUE, error |-> fate[p].error, unsaved |-> fate[p].unsaved]
         /\ fate' \in [Processes -> Fates]
<1>1. fate \in [Processes -> Fates]
  BY DEF TypeOK, Fates
<1>2. fate'[p] = [fate[p] EXCEPT !.stop = TRUE] /\ fate[p] \in Fates
  BY <1>1
<1>3. fate'[p] = [stop |-> TRUE, error |-> fate[p].error, unsaved |-> fate[p].unsaved]
  BY ZenonT(60), <1>2 DEF Fates
<1>4. fate'[p] \in Fates
  BY ZenonT(60), <1>2, <1>3 DEF Fates
<1>5. QED
  BY <1>1, <1>3, <1>4

LEMMA ErrorNoted ==
  ASSUME TypeOK, NEW p \in Processes, NEW e,
         fate' = [fate EXCEPT ![p].error = e]
  PROVE  /\ fate'[p] = [stop |-> fate[p].stop, error |-> e, unsaved |-> fate[p].unsaved]
         /\ e \in BOOLEAN => fate' \in [Processes -> Fates]
<1>1. fate \in [Processes -> Fates]
  BY DEF TypeOK, Fates
<1>2. fate'[p] = [fate[p] EXCEPT !.error = e] /\ fate[p] \in Fates
  BY <1>1
<1>3. fate'[p] = [stop |-> fate[p].stop, error |-> e, unsaved |-> fate[p].unsaved]
  BY <1>2 DEF Fates
<1>4. e \in BOOLEAN => fate'[p] \in Fates
  BY <1>2, <1>3 DEF Fates
<1>5. QED
  BY <1>1, <1>3, <1>4

LEMMA LossNoted ==
  ASSUME TypeOK, NEW p \in Processes,
         fate' = [fate EXCEPT ![p].unsaved = TRUE]
  PROVE  /\ fate'[p] = [stop |-> fate[p].stop, error |-> fate[p].error, unsaved |-> TRUE]
         /\ fate' \in [Processes -> Fates]
<1>1. fate \in [Processes -> Fates]
  BY DEF TypeOK, Fates
<1>2. fate'[p] = [fate[p] EXCEPT !.unsaved = TRUE] /\ fate[p] \in Fates
  BY <1>1
<1>3. fate'[p] = [stop |-> fate[p].stop, error |-> fate[p].error, unsaved |-> TRUE]
  BY ZenonT(60), <1>2 DEF Fates
<1>4. fate'[p] \in Fates
  BY ZenonT(60), <1>2, <1>3 DEF Fates
<1>5. QED
  BY <1>1, <1>3, <1>4

\* A start that fails: fail_start, or fail_after_spawn with the group killed.
LEMMA FailedStartIsSound ==
  ASSUME TypeOK, NEW p \in Processes, Sound(p), server' = server,
         actor[p] \in {"init", "logged", "arming", "starting"}, actor'[p] = "failing",
         snap'[p] = [st |-> "Failed", seq |-> snap[p].seq, end |-> snap[p].end],
         rec'[p] = rec[p], handle'[p] = handle[p], fate'[p] = fate[p], logger'[p] = logger[p],
         io'[p] = io[p], log'[p] = log[p], runs'[p] = runs[p], heard'[p] = heard[p],
         ~held'[p], ~GroupAlive(p)', group'[p] = "none" <=> group[p] = "none",
         guard'[p] \in {guard[p], "gone"}
  PROVE  Sound(p)'
<1>1. Placed(p)'
  BY DEF Sound, Placed, Untouched
<1>2. Spawned(p)'
  BY DEF Sound, Spawned, Supervising, Watching
<1>3. Shown(p)'
  BY DEF Sound, Shown
<1>4. Counted(p)'
  BY DEF Sound, Counted, Placed, Logging
<1>5. Heard(p)'
  BY DEF Sound, Heard
<1>6. QED
  BY <1>1, <1>2, <1>3, <1>4, <1>5 DEF Sound

LEMMA InitLogAdvances ==
  ASSUME TypeOK, NEW p \in Processes, Sound(p), InitLog(p)
  PROVE  Advances(p) /\ \A q \in Processes \ {p} : Alone(q)
<1> USE DEF memory, world, callers
<1>1. \A q \in Processes \ {p} : Alone(q)
  BY SMTT(60) DEF InitLog, FailStart, ToStage, Alone, TypeOK
<1>2. /\ UNCHANGED <<server, rec, handle, held, fate, logger, io, group, guard, runs, heard>>
      /\ actor[p] = "init" /\ rec[p].st = "Starting"
      /\ Untouched(p) /\ ~held[p] /\ ~GroupAlive(p)
  BY DEF InitLog, Sound, Placed, Shown, Counted, Announcing, Untouched, GroupAlive
<1>3. CASE log' = [log EXCEPT ![p].on = TRUE] /\ ToStage(p, "logged") /\ UNCHANGED snap
  <2>1. log[p].end = 0 /\ log[p].seq = 0
    BY <1>2 DEF Untouched, NoLog
  <2>2. log'[p] = [on |-> TRUE, end |-> 0, seq |-> 0]
    BY <1>3, <2>1, LogOpens
  <2>3. actor'[p] = "logged"
    BY <1>3 DEF ToStage, TypeOK
  <2>4. Placed(p)'
    BY <1>2, <1>3, <2>3 DEF Sound, Placed, Untouched
  <2>5. Spawned(p)'
    BY <1>2, <2>3 DEF Sound, Spawned, Untouched, GroupAlive, Supervising
  <2>6. Shown(p)'
    BY <1>2, <1>3, <2>3 DEF Sound, Shown
  <2>7. Counted(p)'
    <3>1. io[p].mem \in Nat /\ snap[p].seq \in Nat /\ log'[p].on
      BY <2>2 DEF TypeOK, Record
    <3>2. QED
      BY <1>2, <1>3, <2>2, <2>3, <3>1 DEF Sound, Counted, Placed, Logging, Announcing
  <2>8. Heard(p)'
    BY <1>2 DEF Heard, Untouched
  <2>9. QED
    BY <1>1, <1>2, <2>3, <2>4, <2>5, <2>6, <2>7, <2>8 DEF Advances, Sound, Leaving
<1>4. CASE FailStart(p) /\ UNCHANGED log
  <2>1. actor'[p] = "failing"
    BY <1>4 DEF FailStart, ToStage, TypeOK
  <2>2. snap'[p] = [st |-> "Failed", seq |-> snap[p].seq, end |-> snap[p].end]
    BY <1>4, SnapshotShows DEF FailStart
  <2>3. Sound(p)'
    BY <1>2, <1>4, <2>1, <2>2, FailedStartIsSound DEF GroupAlive
  <2>4. QED
    BY <1>1, <1>2, <2>1, <2>3 DEF Advances, Leaving
<1>5. QED
  BY <1>3, <1>4 DEF InitLog

LEMMA SpawnAdvances ==
  ASSUME TypeOK, NEW p \in Processes, Sound(p), Spawn(p)
  PROVE  Advances(p) /\ \A q \in Processes \ {p} : Alone(q)
<1> USE DEF memory, world, callers
<1>1. \A q \in Processes \ {p} : Alone(q)
  BY SMTT(60) DEF Spawn, ForkGuardian, SpawnRegistered, FailStart, ToStage, Alone, TypeOK
<1>2. /\ UNCHANGED <<server, rec, handle, held, fate, logger, io, log, heard>>
      /\ actor[p] = "logged" /\ rec[p].st = "Starting" /\ rec[p] # Absent /\ snap[p].st = "Starting"
      /\ group[p] = "none" /\ runs[p] = 0 /\ ~held[p] /\ ~GroupAlive(p)
  BY DEF Spawn, Sound, Placed, Shown, Spawned, Counted, Announcing, GroupAlive
<1>3. CASE ForkGuardian(p) /\ SpawnRegistered(p) /\ ToStage(p, "arming") /\ UNCHANGED snap
  <2>1. /\ actor'[p] = "arming" /\ guard'[p] = "waiting" /\ group'[p] = "leader"
        /\ runs'[p] = 1 /\ snap'[p] = snap[p]
    BY <1>2, <1>3 DEF ForkGuardian, SpawnRegistered, ToStage, TypeOK
  <2>2. Placed(p)'
    BY <1>2, <2>1 DEF Sound, Placed
  <2>3. Spawned(p)'
    BY <1>2, <2>1 DEF Spawned, Supervising, Watching, Terminal
  <2>4. Shown(p)'
    BY <1>2, <2>1 DEF Sound, Shown
  <2>5. Counted(p)'
    BY <1>2, <2>1 DEF Sound, Counted, Logging, Announcing
  <2>6. Heard(p)'
    BY <1>2, <2>1 DEF Sound, Heard
  <2>7. QED
    BY <1>1, <1>2, <2>1, <2>2, <2>3, <2>4, <2>5, <2>6 DEF Advances, Sound, Leaving
<1>4. CASE FailStart(p) /\ UNCHANGED <<group, guard, runs>>
  <2>1. actor'[p] = "failing"
    BY <1>4 DEF FailStart, ToStage, TypeOK
  <2>2. snap'[p] = [st |-> "Failed", seq |-> snap[p].seq, end |-> snap[p].end]
    BY <1>4, SnapshotShows DEF FailStart
  <2>3. Sound(p)'
    BY <1>2, <1>4, <2>1, <2>2, FailedStartIsSound DEF GroupAlive
  <2>4. QED
    BY <1>1, <1>2, <2>1, <2>3 DEF Advances, Leaving
<1>5. QED
  BY <1>3, <1>4 DEF Spawn

LEMMA ConfirmArmedAdvances ==
  ASSUME TypeOK, NEW p \in Processes, Sound(p), ConfirmArmed(p)
  PROVE  Advances(p) /\ \A q \in Processes \ {p} : Alone(q)
<1> USE DEF memory, world, callers
<1>1. \A q \in Processes \ {p} : Alone(q)
  BY SMTT(60) DEF ConfirmArmed, KillAndFail, KillGroup, Disarm, FailStart, ToStage, Alone, TypeOK
<1>2. /\ UNCHANGED <<server, handle, held, fate, logger, io, log, runs, heard>>
      /\ actor[p] = "arming" /\ rec[p].st = "Starting" /\ rec[p] # Absent
      /\ group[p] # "none" /\ ~held[p]
  BY DEF ConfirmArmed, Sound, Placed, Shown, Spawned, Counted, Announcing, Supervising
<1>3. CASE /\ snap' = [snap EXCEPT ![p].st = "Running"]
           /\ rec' = [rec EXCEPT ![p] = snap'[p]]
           /\ ToStage(p, "starting")
           /\ UNCHANGED <<group, guard>>
  <2>1. actor'[p] = "starting" /\ group'[p] = group[p] /\ guard'[p] = guard[p]
    BY <1>3 DEF ToStage, TypeOK
  <2>2. snap'[p] = [st |-> "Running", seq |-> snap[p].seq, end |-> snap[p].end]
    BY <1>3, SnapshotShows
  <2>3. rec'[p] = snap'[p] /\ snap'[p].st = "Running" /\ rec'[p] # Absent
    BY <1>3, <2>2 DEF TypeOK, Absent
  <2>4. Placed(p)'
    BY <1>2, <2>1, <2>3 DEF Sound, Placed
  <2>5. Spawned(p)'
    BY <1>2, <2>1, <2>3 DEF Sound, Spawned, Supervising, Terminal, GroupAlive
  <2>6. Shown(p)'
    BY <1>2, <2>1, <2>3 DEF Sound, Shown
  <2>7. Counted(p)'
    BY SMTT(60), <1>2, <2>1, <2>2, <2>3 DEF Sound, Counted, Logging, Placed, TypeOK, Record
  <2>8. Heard(p)'
    <3>1. rec[p].seq <= rec'[p].seq /\ rec[p].seq \in Nat /\ snap[p].seq \in Nat
          /\ rec'[p].seq = snap[p].seq
      BY <1>2, <2>2, <2>3 DEF Sound, Counted, TypeOK, Record
    <3>2. QED
      BY <1>2, <2>1, <2>2, <2>3, <3>1 DEF Sound, Heard
  <2>9. QED
    BY <1>1, <1>2, <2>1, <2>3, <2>4, <2>5, <2>6, <2>7, <2>8 DEF Advances, Sound, Leaving, Active
<1>4. CASE KillAndFail(p) /\ UNCHANGED rec
  <2>1. actor'[p] = "failing" /\ group'[p] = "dead" /\ guard'[p] = "gone"
    BY <1>4 DEF KillAndFail, KillGroup, Disarm, FailStart, ToStage, TypeOK
  <2>2. snap'[p] = [st |-> "Failed", seq |-> snap[p].seq, end |-> snap[p].end]
    BY <1>4, SnapshotShows DEF KillAndFail, FailStart
  <2>3. Sound(p)'
    BY <1>2, <1>4, <2>1, <2>2, FailedStartIsSound DEF GroupAlive
  <2>4. QED
    BY <1>1, <1>2, <1>4, <2>1, <2>3 DEF Advances, Leaving
<1>5. QED
  BY <1>3, <1>4 DEF ConfirmArmed

\* Numbers of a process.
LEMMA Numbers ==
  ASSUME TypeOK, NEW p \in Processes
  PROVE  /\ rec[p].seq \in Nat /\ rec[p].end \in Nat
         /\ snap[p].seq \in Nat /\ snap[p].end \in Nat
         /\ log[p].seq \in Nat /\ log[p].end \in Nat
         /\ io[p].mem \in Nat /\ Len(heard[p]) \in Nat
         /\ \A i \in 1..Len(heard[p]) : heard[p][i].seq \in Nat /\ heard[p][i].end \in Nat
<1>1. rec[p] \in Record /\ snap[p] \in Record
  BY DEF TypeOK
<1>2. log[p] \in [on : BOOLEAN, end : Nat, seq : Nat] /\ io[p].mem \in Nat
  BY DEF TypeOK
<1> DEFINE Event == [seq : Nat, end : Nat,
                     kind : {"Started", "Output"} \cup Active \cup Terminal]
<1>3. heard[p] \in Seq(Event)
  BY DEF TypeOK
<1>4. /\ Len(heard[p]) \in Nat
      /\ \A i \in 1..Len(heard[p]) : heard[p][i] \in Event
  <2> HIDE DEF Event
  <2> QED
    BY <1>3
<1>5. QED
  BY <1>1, <1>2, <1>4 DEF Record

\* A new event takes its number under event_lock.
LEMMA BeginEventAdvances ==
  ASSUME TypeOK, NEW p \in Processes, Sound(p), BeginEvent(p)
  PROVE  Advances(p) /\ \A q \in Processes \ {p} : Alone(q)
<1> USE DEF memory, world, callers
<1>1. \A q \in Processes \ {p} : Alone(q)
  BY DEF BeginEvent, Alone, TypeOK
<1>2. /\ UNCHANGED <<server, rec, handle, actor, fate, logger, io, log, group, guard, runs, heard>>
      /\ actor[p] \in Announcing /\ actor[p] # "none" /\ ~held[p] /\ logger[p] # "written"
      /\ handle[p] # "cached"
  BY DEF BeginEvent, LockFree, Announcing, Sound, Placed
<1>3. held'[p]
  BY DEF BeginEvent, TypeOK
<1>4. snap'[p] = [st |-> snap[p].st, seq |-> snap[p].seq + 1, end |-> snap[p].end]
  BY SnapshotCounts DEF BeginEvent
<1>5. Placed(p)'
  BY <1>2 DEF Sound, Placed, Untouched
<1>6. Spawned(p)'
  BY <1>2 DEF Sound, Spawned, GroupAlive
<1>7. Shown(p)'
  BY <1>2, <1>4 DEF Sound, Shown
<1>8. Counted(p)'
  BY <1>2, <1>4, Numbers DEF Sound, Counted
<1>9. Heard(p)'
  <2>1. \A i \in 1..Len(heard[p]) : heard[p][i].seq < snap'[p].seq
    BY <1>2, <1>4, Numbers DEF Sound, Heard
  <2>2. \A i \in 1..Len(heard[p]) : heard[p][i].seq <= snap'[p].seq
    BY <1>2, <1>4, Numbers DEF Sound, Heard
  <2>3. QED
    BY ZenonT(60), <1>2, <2>1, <2>2 DEF Sound, Heard
<1>10. QED
  BY <1>1, <1>2, <1>5, <1>6, <1>7, <1>8, <1>9 DEF Advances, Sound

\* What is published last is above all that was heard before.
LEMMA PublishedIsHeard ==
  ASSUME TypeOK, NEW p \in Processes, NEW e, Publish(p, e)
  PROVE  /\ Len(heard'[p]) = Len(heard[p]) + 1
         /\ heard'[p][Len(heard'[p])] = e
         /\ \A i \in 1..Len(heard[p]) : heard'[p][i] = heard[p][i]
         /\ \A i \in 1..Len(heard'[p]) : i = Len(heard'[p]) \/ i \in 1..Len(heard[p])
<1>1. heard'[p] = Append(heard[p], e)
  BY DEF Publish, TypeOK
<1>2. heard[p] \in Seq([seq : Nat, end : Nat,
                        kind : {"Started", "Output"} \cup Active \cup Terminal])
  BY DEF TypeOK
<1>3. Len(heard[p]) \in Nat
  BY <1>2
<1>4. QED
  BY <1>1, <1>2, <1>3

\* An event with a higher number than any before it keeps the order.
LEMMA NewestIsHighest ==
  ASSUME TypeOK, NEW p \in Processes, Heard(p), NEW e, Publish(p, e), e.seq \in Nat,
         \A i \in 1..Len(heard[p]) : heard[p][i].seq < e.seq
  PROVE  \A i \in 1..Len(heard'[p]) - 1 : heard'[p][i].seq < heard'[p][i + 1].seq
<1> SUFFICES ASSUME NEW i \in 1..Len(heard'[p]) - 1
             PROVE  heard'[p][i].seq < heard'[p][i + 1].seq
  OBVIOUS
<1>1. /\ Len(heard'[p]) = Len(heard[p]) + 1 /\ heard'[p][Len(heard'[p])] = e
      /\ \A k \in 1..Len(heard[p]) : heard'[p][k] = heard[p][k]
  BY PublishedIsHeard
<1>2. CASE i = Len(heard[p])
  BY <1>1, <1>2, Numbers
<1>3. CASE i # Len(heard[p])
  <2>1. i \in 1..Len(heard[p]) - 1 /\ i \in 1..Len(heard[p]) /\ i + 1 \in 1..Len(heard[p])
    BY <1>1, <1>3, Numbers
  <2>2. QED
    BY <1>1, <2>1 DEF Heard
<1>4. QED
  BY <1>2, <1>3

\* The record takes the number and the status of the event.
LEMMA EventStoredAdvances ==
  ASSUME TypeOK, NEW p \in Processes, Sound(p), EventStored(p)
  PROVE  Advances(p) /\ \A q \in Processes \ {p} : Alone(q)
<1> USE DEF memory, world, callers
<1>1. \A q \in Processes \ {p} : Alone(q)
  BY DEF EventStored, Publish, AfterEvent, ToStage, Alone, TypeOK
<1>2. /\ UNCHANGED <<server, snap, handle, fate, io, log, group, guard, runs>>
      /\ actor[p] \in Announcing /\ actor[p] # "none" /\ held[p] /\ logger[p] # "written"
      /\ handle[p] = "actor" /\ rec[p] # Absent
  BY DEF EventStored, Announcing, Sound, Placed, Counted
<1>3. /\ rec'[p] = snap[p] /\ ~held'[p]
      /\ actor'[p] = IF actor[p] \in {"starting", "stopping"} THEN "running" ELSE "done"
      /\ logger'[p] = IF actor[p] = "starting" THEN "idle" ELSE logger[p]
  BY DEF EventStored, AfterEvent, ToStage, TypeOK
<1>4. /\ snap[p].st \in Active \cup Terminal /\ rec'[p] # Absent
      /\ rec[p].st \in Active
      /\ snap[p].st \in Terminal \ {"Lost"} <=> actor[p] \in {"ending", "failing"}
      /\ snap[p].st \in Terminal <=> actor[p] \in {"ending", "failing"}
  BY <1>2, <1>3 DEF Sound, Shown, Announcing, Active, Terminal, Absent
<1>5. Placed(p)'
  BY <1>2, <1>3, <1>4 DEF Sound, Placed, Absent, Active, Terminal
<1>6. Spawned(p)'
  BY <1>2, <1>3, <1>4 DEF Sound, Spawned, GroupAlive, Supervising, Leaving, Announcing
<1>7. Shown(p)'
  BY <1>2, <1>3, <1>4 DEF Sound, Shown, Announcing, Active, Terminal
<1>8. Counted(p)'
  BY <1>2, <1>3, Numbers DEF Sound, Counted, Logging, Announcing
<1>9. Heard(p)'
  <2>1. Publish(p, EventOf(p))
    BY DEF EventStored
  <2>2. /\ EventOf(p).seq = snap[p].seq
        /\ EventOf(p).kind = IF actor[p] = "starting" THEN "Started" ELSE snap[p].st
    BY DEF EventOf
  <2>3. \A i \in 1..Len(heard[p]) :
          heard[p][i].seq < snap[p].seq /\ heard[p][i].kind \notin Terminal
    BY <1>2 DEF Sound, Heard, Announcing
  <2>4. /\ Len(heard'[p]) = Len(heard[p]) + 1 /\ heard'[p][Len(heard'[p])] = EventOf(p)
        /\ \A i \in 1..Len(heard[p]) : heard'[p][i] = heard[p][i]
        /\ \A i \in 1..Len(heard'[p]) : i = Len(heard'[p]) \/ i \in 1..Len(heard[p])
    BY <2>1, PublishedIsHeard
  <2>5. \A i \in 1..Len(heard'[p]) - 1 : heard'[p][i].seq < heard'[p][i + 1].seq
    BY <2>1, <2>2, <2>3, Numbers, NewestIsHighest DEF Sound
  <2>6. ASSUME NEW i \in 1..Len(heard'[p])
        PROVE  /\ heard'[p][i].seq <= snap[p].seq
               /\ heard'[p][i].kind \in Terminal =>
                    /\ i = Len(heard'[p]) /\ rec'[p].st = heard'[p][i].kind
                    /\ actor'[p] \in {"none", "done"}
               /\ heard'[p][i].kind = "Output" => log[p].on /\ heard'[p][i].end <= log[p].end
    <3>1. CASE i = Len(heard'[p])
      BY SMTT(60), <1>2, <1>3, <1>4, <2>2, <2>4, <3>1, Numbers DEF Terminal, Active
    <3>2. CASE i \in 1..Len(heard[p])
      BY SMTT(60), <2>3, <2>4, <3>2, Numbers DEF Sound, Heard
    <3>3. QED
      BY <2>4, <3>1, <3>2
  <2>7. QED
    BY <1>2, <1>3, <2>5, <2>6 DEF Heard
<1>10. QED
  BY <1>1, <1>2, <1>3, <1>4, <1>5, <1>6, <1>7, <1>8, <1>9
     DEF Advances, Sound, Leaving, Announcing

LEMMA EventNotStoredAdvances ==
  ASSUME TypeOK, NEW p \in Processes, Sound(p), EventNotStored(p)
  PROVE  Advances(p) /\ \A q \in Processes \ {p} : Alone(q)
<1> USE DEF memory, world, callers
<1>1. \A q \in Processes \ {p} : Alone(q)
  BY SMTT(60) DEF EventNotStored, PublishNothing, AfterEvent, RememberError, KillAndFail, KillGroup,
         Disarm, FailStart, ToStage, Alone, TypeOK
<1>2. /\ UNCHANGED <<server, rec, handle, io, log, runs, heard>>
      /\ actor[p] \in Announcing /\ actor[p] # "none" /\ held[p] /\ ~held'[p]
      /\ logger[p] # "written" /\ handle[p] = "actor" /\ rec[p] # Absent
  BY DEF EventNotStored, PublishNothing, Announcing, Sound, Placed, Counted, TypeOK
<1>3. CASE actor[p] = "starting"
  <2>1. KillAndFail(p) /\ UNCHANGED <<fate, logger>>
    BY <1>3 DEF EventNotStored
  <2>2. actor'[p] = "failing" /\ group'[p] = "dead" /\ group[p] # "none" /\ guard'[p] = "gone"
    BY <1>3, <2>1 DEF KillAndFail, KillGroup, Disarm, FailStart, ToStage, TypeOK, Sound, Spawned,
                      Supervising
  <2>3. snap'[p] = [st |-> "Failed", seq |-> snap[p].seq, end |-> snap[p].end]
    BY <2>1, SnapshotShows DEF KillAndFail, FailStart
  <2>4. Sound(p)'
    BY <1>2, <1>3, <2>1, <2>2, <2>3, FailedStartIsSound DEF GroupAlive
  <2>5. QED
    BY <1>1, <1>2, <1>3, <2>2, <2>4 DEF Advances, Leaving
<1>4. CASE actor[p] # "starting"
  <2>1. AfterEvent(p) /\ RememberError(p) /\ UNCHANGED <<snap, group, guard>>
    BY <1>4 DEF EventNotStored
  <2>2. /\ actor'[p] = IF actor[p] = "stopping" THEN "running" ELSE "done"
        /\ logger'[p] = logger[p]
    BY <1>4, <2>1 DEF AfterEvent, ToStage, TypeOK
  <2>3. /\ fate'[p].stop = fate[p].stop
        /\ actor[p] = "stopping" => fate'[p].error
    <3>1. CASE actor[p] = "stopping"
      <4>1. fate' = [fate EXCEPT ![p].error = TRUE]
        BY <2>1, <3>1 DEF RememberError
      <4>2. fate'[p] = [stop |-> fate[p].stop, error |-> TRUE, unsaved |-> fate[p].unsaved]
        BY <4>1, ErrorNoted
      <4>3. QED
        BY <4>2
    <3>2. CASE actor[p] # "stopping"
      <4>1. fate' = [fate EXCEPT ![p].unsaved = TRUE]
        BY <2>1, <3>2 DEF RememberError
      <4>2. fate'[p] = [stop |-> fate[p].stop, error |-> fate[p].error, unsaved |-> TRUE]
        BY <4>1, LossNoted
      <4>3. QED
        BY <3>2, <4>2
    <3>3. QED
      BY <3>1, <3>2
  <2>4. Placed(p)'
    BY <1>2, <2>1, <2>2 DEF Sound, Placed, Untouched
  <2>5. Spawned(p)'
    BY <1>2, <1>4, <2>1, <2>2 DEF Sound, Spawned, GroupAlive, Supervising, Leaving, Announcing
  <2>6. Shown(p)'
    BY <1>2, <1>4, <2>1, <2>2, <2>3 DEF Sound, Shown, Announcing, Active, Terminal
  <2>7. Counted(p)'
    BY <1>2, <1>4, <2>1, <2>2 DEF Sound, Counted, Logging, Announcing
  <2>8. Heard(p)'
    BY ZenonT(60), <1>2, <1>4, <2>1, <2>2 DEF Sound, Heard, Announcing
  <2>9. QED
    BY <1>1, <1>2, <2>2, <2>4, <2>5, <2>6, <2>7, <2>8 DEF Advances, Sound, Leaving, Announcing
<1>5. QED
  BY <1>3, <1>4

-----------------------------------------------------------------------------
(* The supervision loop                                                      *)

LEMMA TakeStopAdvances ==
  ASSUME TypeOK, NEW p \in Processes, Sound(p), TakeStop(p)
  PROVE  Advances(p) /\ \A q \in Processes \ {p} : Alone(q)
<1> USE DEF memory, world, callers
<1>1. \A q \in Processes \ {p} : Alone(q)
  BY SMTT(60) DEF TakeStop, ToStage, Alone, TypeOK
<1>2. /\ UNCHANGED <<server, rec, handle, held, logger, io, log, group, guard, runs, heard>>
      /\ actor[p] = "running"
  BY DEF TakeStop
<1>3. CASE UNCHANGED <<snap, fate, actor>>
  <2>1. Alone(p)
    BY <1>2, <1>3 DEF Alone
  <2>2. QED
    BY <1>1, <1>2, <1>3, <2>1, AloneIsSound DEF Advances
<1>4. CASE ~ UNCHANGED <<snap, fate, actor>>
  <2>1. /\ ~fate[p].stop
        /\ fate' = [fate EXCEPT ![p].stop = TRUE]
        /\ snap' = [snap EXCEPT ![p].st = "Stopping"]
        /\ ToStage(p, "stopping")
    BY <1>4 DEF TakeStop
  <2>2. actor'[p] = "stopping"
    BY <2>1 DEF ToStage, TypeOK
  <2>3. snap'[p] = [st |-> "Stopping", seq |-> snap[p].seq, end |-> snap[p].end]
    BY <2>1, SnapshotShows
  <2>4. fate'[p].stop
    <3>1. fate'[p] = [stop |-> TRUE, error |-> fate[p].error, unsaved |-> fate[p].unsaved]
      BY <2>1, StopNoted
    <3>2. QED
      BY <3>1
  <2>5. Placed(p)'
    BY <1>2, <2>2 DEF Sound, Placed, Untouched
  <2>6. Spawned(p)'
    BY <1>2, <2>2 DEF Sound, Spawned, GroupAlive, Supervising, Leaving
  <2>7. Shown(p)'
    BY <1>2, <2>1, <2>2, <2>3, <2>4 DEF Sound, Shown
  <2>8. Counted(p)'
    BY <1>2, <2>2, <2>3 DEF Sound, Counted, Logging, Announcing, Placed
  <2>9. Heard(p)'
    BY <1>2, <2>2, <2>3 DEF Sound, Heard
  <2>10. QED
    BY <1>1, <1>2, <2>2, <2>5, <2>6, <2>7, <2>8, <2>9 DEF Advances, Sound, Leaving
<1>5. QED
  BY <1>3, <1>4

\* The death of members of the group, under SIGKILL or by themselves.
LEMMA GroupShrinks ==
  ASSUME TypeOK, NEW p \in Processes, Sound(p), NEW g \in {"orphans", "dead"},
         GroupAlive(p), group' = [group EXCEPT ![p] = g],
         UNCHANGED <<server, rec, memory, log, guard, runs, heard>>
  PROVE  Advances(p) /\ \A q \in Processes \ {p} : Alone(q)
<1> USE DEF memory
<1>1. \A q \in Processes \ {p} : Alone(q)
  BY DEF Alone, TypeOK
<1>2. group'[p] = g /\ group[p] # "none"
  BY DEF TypeOK, GroupAlive
<1>3. Placed(p)'
  BY <1>2 DEF Sound, Placed, Untouched
<1>4. Spawned(p)'
  BY <1>2 DEF Sound, Spawned, GroupAlive
<1>5. Shown(p)' /\ Counted(p)' /\ Heard(p)'
  BY DEF Sound, Shown, Counted, Heard
<1>6. QED
  BY <1>1, <1>3, <1>4, <1>5 DEF Advances, Sound

LEMMA LeaveLoopAdvances ==
  ASSUME TypeOK, NEW p \in Processes, Sound(p), LeaveLoop(p)
  PROVE  Advances(p) /\ \A q \in Processes \ {p} : Alone(q)
<1> USE DEF memory, world, callers
<1>1. \A q \in Processes \ {p} : Alone(q)
  BY DEF LeaveLoop, ToStage, Alone, TypeOK
<1>2. /\ UNCHANGED <<server, rec, snap, handle, held, fate, logger, io, log, group, guard, runs>>
      /\ UNCHANGED heard
      /\ actor[p] = "running" /\ actor'[p] = "draining" /\ group[p] = "dead"
  BY DEF LeaveLoop, GroupGone, ToStage, TypeOK
<1>3. Placed(p)'
  BY <1>2 DEF Sound, Placed, Untouched
<1>4. Spawned(p)'
  BY <1>2 DEF Sound, Spawned, GroupAlive, Supervising, Leaving
<1>5. Shown(p)'
  BY <1>2 DEF Sound, Shown
<1>6. Counted(p)' /\ Heard(p)'
  BY ZenonT(60), <1>2 DEF Sound, Counted, Heard, Logging, Announcing
<1>7. QED
  BY <1>1, <1>2, <1>3, <1>4, <1>5, <1>6 DEF Advances, Sound, Leaving

\* The logger is closed, in order or by its timeout.
LEMMA DrainAdvances ==
  ASSUME TypeOK, NEW p \in Processes, Sound(p), Drained(p) \/ DrainTimeout(p)
  PROVE  Advances(p) /\ \A q \in Processes \ {p} : Alone(q)
<1> USE DEF memory, world, callers
<1>1. \A q \in Processes \ {p} : Alone(q)
  BY SMTT(60) DEF Drained, DrainTimeout, ToStage, Alone, TypeOK
<1>2. /\ UNCHANGED <<server, rec, snap, handle, held, io, log, group, guard, runs, heard>>
      /\ actor[p] = "draining" /\ actor'[p] = "closing" /\ logger'[p] = "closed"
  BY DEF Drained, DrainTimeout, ToStage, TypeOK
<1>3. PICK e \in {fate[p].error \/ io[p].err, TRUE} : fate' = [fate EXCEPT ![p].error = e]
  BY DEF Drained, DrainTimeout
<1>4. fate'[p].stop = fate[p].stop /\ (fate[p].error => fate'[p].error)
  <2>1. fate'[p] = [stop |-> fate[p].stop, error |-> e, unsaved |-> fate[p].unsaved]
    BY <1>3, ErrorNoted
  <2>2. fate[p].error => e
    BY <1>3
  <2>3. QED
    BY <2>1, <2>2
<1>5. Placed(p)'
  BY <1>2 DEF Sound, Placed, Untouched
<1>6. Spawned(p)'
  BY <1>2 DEF Sound, Spawned, GroupAlive, Supervising, Leaving
<1>7. Shown(p)'
  BY <1>2, <1>4 DEF Sound, Shown
<1>8. Counted(p)' /\ Heard(p)'
  BY ZenonT(60), <1>2 DEF Sound, Counted, Heard, Logging, Announcing
<1>9. QED
  BY <1>1, <1>2, <1>5, <1>6, <1>7, <1>8 DEF Advances, Sound, Leaving

LEMMA ConcludeAdvances ==
  ASSUME TypeOK, NEW p \in Processes, Sound(p), Conclude(p)
  PROVE  Advances(p) /\ \A q \in Processes \ {p} : Alone(q)
<1> USE DEF memory, world, callers
<1>1. \A q \in Processes \ {p} : Alone(q)
  BY DEF Conclude, Disarm, ToStage, Alone, TypeOK
<1>2. /\ UNCHANGED <<server, rec, handle, held, fate, logger, io, log, group, runs, heard>>
      /\ actor[p] = "closing" /\ actor'[p] = "ending" /\ group[p] # "none" /\ ~GroupAlive(p)
  BY DEF Conclude, ToStage, TypeOK, Sound, Spawned, Supervising
<1> DEFINE end == IF fate[p].error THEN "Failed" ELSE IF fate[p].stop THEN "Stopped" ELSE "Exited"
<1>3. snap'[p] = [st |-> end, seq |-> snap[p].seq, end |-> snap[p].end]
  <2> HIDE DEF end
  <2>1. snap' = [snap EXCEPT ![p].st = end]
    BY DEF Conclude, end
  <2>2. QED
    BY <2>1, SnapshotShows
<1>4. Placed(p)'
  BY <1>2 DEF Sound, Placed, Untouched
<1>5. Spawned(p)'
  BY <1>2 DEF Sound, Spawned, GroupAlive, Supervising
<1>6. Shown(p)'
  BY <1>2, <1>3 DEF Sound, Shown
<1>7. Counted(p)'
  BY <1>2, <1>3 DEF Sound, Counted, Logging, Announcing, Placed
<1>8. Heard(p)'
  BY <1>2, <1>3 DEF Sound, Heard
<1>9. QED
  BY <1>1, <1>2, <1>4, <1>5, <1>6, <1>7, <1>8 DEF Advances, Sound, Leaving

-----------------------------------------------------------------------------
(* The logger, the command and the guardian                                  *)

LEMMA LogWriteAdvances ==
  ASSUME TypeOK, NEW p \in Processes, Sound(p), LogWrite(p)
  PROVE  Advances(p) /\ \A q \in Processes \ {p} : Alone(q)
<1> USE DEF memory, world, callers
<1>1. \A q \in Processes \ {p} : Alone(q)
  BY SMTT(60) DEF LogWrite, PersistLog, Alone, TypeOK
<1>2. /\ UNCHANGED <<server, rec, snap, handle, actor, held, fate, group, guard, runs, heard>>
      /\ logger[p] = "idle" /\ ~held[p] /\ actor[p] \in Logging /\ handle[p] = "actor"
  BY DEF LogWrite, LockFree, Sound, Counted, Placed, Logging
<1> DEFINE new == [on |-> TRUE, end |-> io[p].mem + 1, seq |-> snap[p].seq + 1]
<1>3. /\ log'[p] = new \/ log'[p] = log[p]
      /\ logger'[p] = "idle" \/ (logger'[p] = "written" /\ log'[p] = new)
  BY ZenonT(60) DEF LogWrite, PersistLog, TypeOK
<1>4. io'[p].mem = io[p].mem + 1
  <2>1. CASE io' = [io EXCEPT ![p].mem = @ + 1]
    <3>1. io'[p] = [made |-> io[p].made, mem |-> io[p].mem + 1, err |-> io[p].err]
      BY <2>1, OutputAppended
    <3>2. QED
      BY <3>1
  <2>2. CASE io' = [io EXCEPT ![p].mem = @ + 1, ![p].err = TRUE]
    <3>1. io'[p] = [made |-> io[p].made, mem |-> io[p].mem + 1, err |-> TRUE]
      BY <2>2, OutputLost
    <3>2. QED
      BY <3>1
  <2>3. QED
    BY <2>1, <2>2 DEF LogWrite
<1>5. Placed(p)'
  BY <1>2, <1>3 DEF Sound, Placed, Logging, Untouched
<1>6. Spawned(p)' /\ Shown(p)'
  BY <1>2 DEF Sound, Spawned, GroupAlive, Shown
<1>7. Counted(p)'
  BY SMTT(60), <1>2, <1>3, <1>4, Numbers DEF Sound, Counted, Logging
<1>8. Heard(p)'
  <2>1. /\ log[p].end <= log'[p].end \/ log'[p] = log[p]
        /\ log[p].on => log'[p].on
        /\ \A i \in 1..Len(heard[p]) : heard[p][i].seq <= log'[p].seq \/ log'[p] = log[p]
    BY SMTT(60), <1>2, <1>3, Numbers DEF Sound, Heard, Counted, Logging
  <2>2. \A i \in 1..Len(heard[p]) : heard[p][i].kind = "Output" =>
          log'[p].on /\ heard[p][i].end <= log'[p].end
    <3>1. log'[p].end \in Nat
      BY <1>3, Numbers
    <3>2. QED
      BY <2>1, <3>1, Numbers DEF Sound, Heard
  <2>3. QED
    BY <1>2, <2>1, <2>2 DEF Sound, Heard
<1>9. QED
  BY <1>1, <1>2, <1>5, <1>6, <1>7, <1>8 DEF Advances, Sound, Leaving

LEMMA LogPublishAdvances ==
  ASSUME TypeOK, NEW p \in Processes, Sound(p), LogPublish(p)
  PROVE  Advances(p) /\ \A q \in Processes \ {p} : Alone(q)
<1> USE DEF memory, world, callers
<1>1. \A q \in Processes \ {p} : Alone(q)
  BY DEF LogPublish, Publish, Alone, TypeOK
<1>2. /\ UNCHANGED <<server, rec, handle, actor, held, fate, io, log, group, guard, runs>>
      /\ logger[p] = "written" /\ ~held[p] /\ actor[p] \in Logging /\ handle[p] = "actor"
      /\ rec[p] # Absent
      /\ log[p].on /\ log[p].end = io[p].mem /\ log[p].seq = snap[p].seq + 1
  BY DEF LogPublish, Sound, Counted, Placed, Logging
<1>3. logger'[p] = "idle"
  BY DEF LogPublish, TypeOK
<1>4. snap'[p] = [st |-> snap[p].st, seq |-> snap[p].seq + 1, end |-> io[p].mem]
  BY SnapshotReads DEF LogPublish
<1>5. Placed(p)'
  BY <1>2, <1>3 DEF Sound, Placed, Logging
<1>6. Spawned(p)' /\ Shown(p)'
  BY <1>2, <1>4 DEF Sound, Spawned, GroupAlive, Shown
<1>7. Counted(p)'
  BY <1>2, <1>3, <1>4, Numbers DEF Sound, Counted
<1>8. Heard(p)'
  <2> DEFINE e == [seq |-> snap'[p].seq, kind |-> "Output", end |-> io[p].mem]
  <2>1. Publish(p, e)
    BY DEF LogPublish
  <2>2. e.seq = snap[p].seq + 1 /\ e.kind = "Output" /\ e.end = log[p].end
    BY <1>2, <1>4
  <2> HIDE DEF e
  <2>3. \A i \in 1..Len(heard[p]) :
          heard[p][i].seq < snap[p].seq + 1 /\ heard[p][i].kind \notin Terminal
    BY <1>2, Numbers DEF Sound, Heard, Logging
  <2>4. /\ Len(heard'[p]) = Len(heard[p]) + 1 /\ heard'[p][Len(heard'[p])] = e
        /\ \A i \in 1..Len(heard[p]) : heard'[p][i] = heard[p][i]
        /\ \A i \in 1..Len(heard'[p]) : i = Len(heard'[p]) \/ i \in 1..Len(heard[p])
    BY <2>1, PublishedIsHeard
  <2>5. \A i \in 1..Len(heard'[p]) - 1 : heard'[p][i].seq < heard'[p][i + 1].seq
    <3>1. e.seq \in Nat /\ \A i \in 1..Len(heard[p]) : heard[p][i].seq < e.seq
      BY <2>2, <2>3, Numbers
    <3>2. QED
      BY <2>1, <3>1, NewestIsHighest DEF Sound
  <2>6. ASSUME NEW i \in 1..Len(heard'[p])
        PROVE  /\ heard'[p][i].seq <= rec[p].seq \/ heard'[p][i].seq <= log[p].seq
               /\ heard'[p][i].seq <= snap'[p].seq
               /\ heard'[p][i].kind \notin Terminal
               /\ heard'[p][i].kind = "Output" => log[p].on /\ heard'[p][i].end <= log[p].end
    <3>1. CASE i = Len(heard'[p])
      <4>1. heard'[p][i] = e /\ e.kind \notin Terminal /\ e.end <= log[p].end
        BY <2>2, <2>4, <3>1, Numbers DEF Terminal
      <4>2. e.seq = log[p].seq /\ e.seq = snap'[p].seq /\ e.seq \in Nat
        BY <1>2, <1>4, <2>2, Numbers
      <4>3. QED
        BY <1>2, <4>1, <4>2
    <3>2. CASE i \in 1..Len(heard[p])
      <4>1. /\ heard[p][i].seq <= rec[p].seq \/ heard[p][i].seq <= log[p].seq
            /\ heard[p][i].kind = "Output" => log[p].on /\ heard[p][i].end <= log[p].end
            /\ heard[p][i].seq < snap[p].seq + 1 /\ heard[p][i].kind \notin Terminal
        BY <2>3, <3>2 DEF Sound, Heard
      <4>2. heard[p][i].seq \in Nat /\ snap'[p].seq = snap[p].seq + 1 /\ snap[p].seq \in Nat
        BY <1>4, <3>2, Numbers
      <4>3. heard[p][i].seq <= snap'[p].seq
        BY <4>1, <4>2
      <4>4. QED
        BY <2>4, <3>2, <4>1, <4>3
    <3>3. QED
      BY <2>4, <3>1, <3>2
  <2>7. QED
    BY <1>2, <2>5, <2>6 DEF Heard
<1>9. QED
  BY <1>1, <1>2, <1>5, <1>6, <1>7, <1>8 DEF Advances, Sound, Leaving

LEMMA GuardianArmsAdvances ==
  ASSUME TypeOK, NEW p \in Processes, Sound(p), GuardianArms(p)
  PROVE  Advances(p) /\ \A q \in Processes \ {p} : Alone(q)
<1> USE DEF memory, world, callers
<1>1. \A q \in Processes \ {p} : Alone(q)
  BY DEF GuardianArms, Alone, TypeOK
<1>2. /\ UNCHANGED <<server, rec, memory, log, group, runs, heard>>
      /\ actor[p] # "none" /\ guard[p] = "waiting" /\ guard'[p] = "armed"
  BY DEF GuardianArms, TypeOK
<1>3. group[p] # "none" /\ group[p] # "none"'
  BY <1>2 DEF Sound, Spawned, Watching
<1>4. Placed(p)'
  BY <1>2, <1>3 DEF Sound, Placed, Untouched
<1>5. Spawned(p)'
  BY <1>2 DEF Sound, Spawned, GroupAlive, Watching
<1>6. Shown(p)' /\ Counted(p)' /\ Heard(p)'
  BY ZenonT(60), <1>2 DEF Sound, Shown, Counted, Heard
<1>7. QED
  BY <1>1, <1>2, <1>4, <1>5, <1>6 DEF Advances, Sound

LEMMA GuardianFiresAdvances ==
  ASSUME TypeOK, NEW p \in Processes, Sound(p), GuardianFires(p)
  PROVE  Advances(p) /\ \A q \in Processes \ {p} : Alone(q)
<1> USE DEF memory, world, callers
<1>1. \A q \in Processes \ {p} : Alone(q)
  BY DEF GuardianFires, KillGroup, Alone, TypeOK
<1>2. /\ UNCHANGED <<server, rec, memory, log, runs, heard>>
      /\ actor[p] = "none" /\ guard'[p] = "gone" /\ group'[p] = "dead" /\ group[p] # "none"
  BY DEF GuardianFires, KillGroup, TypeOK, Sound, Spawned
<1>3. Placed(p)'
  BY <1>2 DEF Sound, Placed, Untouched
<1>4. Spawned(p)'
  BY <1>2 DEF Sound, Spawned, GroupAlive, Watching
<1>5. Shown(p)' /\ Counted(p)' /\ Heard(p)'
  BY <1>2 DEF Sound, Shown, Counted, Heard
<1>6. QED
  BY <1>1, <1>2, <1>3, <1>4, <1>5 DEF Advances, Sound

LEMMA WritesAdvances ==
  ASSUME TypeOK, NEW p \in Processes, Sound(p), Writes(p)
  PROVE  Advances(p) /\ \A q \in Processes \ {p} : Alone(q)
<1> USE DEF memory, world, callers
<1>1. \A q \in Processes \ {p} : Alone(q)
  BY DEF Writes, Alone, TypeOK
<1>2. /\ UNCHANGED <<server, rec, snap, handle, actor, held, fate, logger, log, group, guard, runs>>
      /\ UNCHANGED heard /\ actor[p] # "none"
  BY DEF Writes
<1>3. io'[p].mem = io[p].mem
  <2>1. io'[p] = [made |-> io[p].made + 1, mem |-> io[p].mem, err |-> io[p].err]
    BY OutputRead DEF Writes
  <2>2. QED
    BY <2>1
<1>4. Placed(p)'
  BY <1>2 DEF Sound, Placed, Untouched
<1>5. Spawned(p)' /\ Shown(p)' /\ Counted(p)' /\ Heard(p)'
  BY <1>2, <1>3 DEF Sound, Spawned, GroupAlive, Shown, Counted, Heard
<1>6. QED
  BY <1>1, <1>2, <1>4, <1>5 DEF Advances, Sound

\* The group dies in ForceKill and GroupEnds; Escapes changes nothing of this.
LEMMA GroupAdvances ==
  ASSUME TypeOK, NEW p \in Processes, Sound(p), ForceKill(p) \/ GroupEnds(p) \/ Escapes(p)
  PROVE  Advances(p) /\ \A q \in Processes \ {p} : Alone(q)
<1> USE DEF world, callers
<1>1. CASE ForceKill(p)
  BY <1>1, GroupShrinks DEF ForceKill, KillGroup
<1>2. CASE GroupEnds(p)
  BY <1>2, GroupShrinks DEF GroupEnds, GroupAlive
<1>3. CASE Escapes(p)
  <2>1. \A q \in Processes : Alone(q)
    BY <1>3 DEF Escapes, Alone, memory
  <2>2. UNCHANGED <<server, rec, handle, actor>>
    BY <1>3 DEF Escapes, memory
  <2>3. QED
    BY <2>1, <2>2, AloneIsSound DEF Advances
<1>4. QED
  BY <1>1, <1>2, <1>3

-----------------------------------------------------------------------------
(* Recovery                                                                  *)

\* The recovered record is terminal and behind neither record nor log.
LEMMA RecoveredIsAhead ==
  ASSUME TypeOK, NEW p \in Processes, Sound(p), rec[p] # Absent
  PROVE  /\ Recovered(p) \in Record
         /\ Recovered(p).st = IF rec[p].st \in Active THEN "Lost" ELSE rec[p].st
         /\ Recovered(p).st \in Terminal
         /\ Recovered(p).end >= rec[p].end /\ Recovered(p).end >= log[p].end
         /\ Recovered(p).seq >= rec[p].seq /\ Recovered(p).seq >= log[p].seq
         /\ rec[p].st \in Active => Recovered(p).seq > rec[p].seq /\ Recovered(p).seq > log[p].seq
<1> DEFINE end == Larger(rec[p].end, log[p].end)
           seq == Larger(rec[p].seq, log[p].seq)
           r == IF log[p].on THEN [rec[p] EXCEPT !.end = Larger(@, log[p].end),
                                                 !.seq = Larger(@, log[p].seq)]
                             ELSE rec[p]
<1>1. rec[p] \in Record /\ rec[p].st \in Active \cup Terminal
  BY DEF TypeOK, Record, Sound, Placed
<1>2. ~log[p].on => log[p].end = 0 /\ log[p].seq = 0
  BY DEF Sound, Counted, NoLog
<1>3. /\ end \in Nat /\ end >= rec[p].end /\ end >= log[p].end
      /\ seq \in Nat /\ seq >= rec[p].seq /\ seq >= log[p].seq
      /\ ~log[p].on => end = rec[p].end /\ seq = rec[p].seq
  BY <1>2, Numbers DEF Larger
<1>4. r \in Record /\ r.st = rec[p].st /\ r.end = end /\ r.seq = seq
  <2>1. CASE log[p].on
    <3>1. r = [rec[p] EXCEPT !.end = end, !.seq = seq]
      BY <2>1
    <3>2. QED
      BY <1>1, <1>3, <3>1 DEF Record
  <2>2. CASE ~log[p].on
    BY <1>1, <1>3, <2>2
  <2>3. QED
    BY <2>1, <2>2
<1>5. Recovered(p) = IF r.st \in Active THEN [r EXCEPT !.st = "Lost", !.seq = @ + 1] ELSE r
  BY DEF Recovered
<1> HIDE DEF r
<1>6. CASE rec[p].st \in Active
  <2>1. Recovered(p) = [st |-> "Lost", seq |-> seq + 1, end |-> end]
    BY <1>4, <1>5, <1>6 DEF Record
  <2> HIDE DEF seq, end
  <2>2. QED
    BY <1>3, <1>6, <2>1, Numbers DEF Record, Terminal
<1>7. CASE rec[p].st \notin Active
  <2>1. Recovered(p) = r
    BY <1>4, <1>5, <1>7
  <2>2. QED
    BY <1>1, <1>3, <1>4, <1>7, <2>1
<1>8. QED
  BY <1>6, <1>7

\* One record is recovered: its process has no actor and its end is the last event.
LEMMA RecoverKeeps ==
  ASSUME TypeOK, NEW p \in Processes, Sound(p), Recover(p)
  PROVE  /\ Sound(p)'
         /\ rec'[p].st \notin Active
         /\ \A q \in Processes \ {p} : Alone(q)
<1> USE DEF memory, world, callers
<1> DEFINE R == Recovered(p)
<1>1. \A q \in Processes \ {p} : Alone(q)
  BY SMTT(60) DEF Recover, Publish, Alone, TypeOK
<1>2. /\ UNCHANGED <<server, actor, held, fate, logger, io, log, group, guard, runs>>
      /\ rec[p] # Absent /\ server = "recovering" /\ handle[p] = "none"
      /\ actor[p] = "none" /\ ~held[p] /\ logger[p] = "none"
  BY DEF Recover, Sound, Placed
<1>3. rec'[p] = R /\ snap'[p] = R /\ handle'[p] = "cached"
  BY DEF Recover, TypeOK
<1>4. /\ R \in Record /\ R.st = IF rec[p].st \in Active THEN "Lost" ELSE rec[p].st
      /\ R.st \in Terminal /\ R.st # "absent" /\ R.st \notin Active
      /\ R.end >= rec[p].end /\ R.end >= log[p].end /\ R.end \in Nat
      /\ R.seq >= rec[p].seq /\ R.seq >= log[p].seq /\ R.seq \in Nat
      /\ rec[p].st \in Active => R.seq > rec[p].seq /\ R.seq > log[p].seq
  BY <1>2, RecoveredIsAhead DEF Terminal, Active, Record
<1> HIDE DEF R
<1>5. Placed(p)'
  BY <1>2, <1>3, <1>4 DEF Sound, Placed, Absent
<1>6. Spawned(p)'
  BY <1>2, <1>3, <1>4 DEF Sound, Spawned, GroupAlive, Supervising
<1>7. Shown(p)'
  BY <1>2 DEF Shown
<1>8. Counted(p)'
  BY <1>2, <1>3, <1>4, Numbers DEF Sound, Counted
<1>9. Heard(p)'
  <2>1. \A i \in 1..Len(heard[p]) :
          /\ heard[p][i].seq <= R.seq
          /\ rec[p].st \in Active => heard[p][i].seq < R.seq /\ heard[p][i].kind \notin Terminal
    BY SMTT(60), <1>4, Numbers DEF Sound, Heard, Active, Terminal
  <2>2. CASE rec[p].st \notin Active
    <3>1. heard' = heard /\ R.st = rec[p].st
      BY <1>4, <2>2 DEF Recover
    <3>2. QED
      BY <1>2, <1>3, <2>1, <3>1 DEF Sound, Heard
  <2>3. CASE rec[p].st \in Active
    <3> DEFINE e == [seq |-> R.seq, kind |-> "Lost", end |-> 0]
    <3>1. Publish(p, e)
      BY <2>3 DEF Recover, R
    <3>2. e.seq = R.seq /\ e.kind = "Lost" /\ R.st = "Lost"
      BY <1>4, <2>3
    <3> HIDE DEF e
    <3>3. /\ Len(heard'[p]) = Len(heard[p]) + 1 /\ heard'[p][Len(heard'[p])] = e
          /\ \A i \in 1..Len(heard[p]) : heard'[p][i] = heard[p][i]
          /\ \A i \in 1..Len(heard'[p]) : i = Len(heard'[p]) \/ i \in 1..Len(heard[p])
      BY <3>1, PublishedIsHeard
    <3>4. \A i \in 1..Len(heard'[p]) - 1 : heard'[p][i].seq < heard'[p][i + 1].seq
      BY <1>4, <2>1, <2>3, <3>1, <3>2, NewestIsHighest DEF Sound
    <3>5. ASSUME NEW i \in 1..Len(heard'[p])
          PROVE  /\ heard'[p][i].seq <= R.seq
                 /\ heard'[p][i].kind \in Terminal =>
                      i = Len(heard'[p]) /\ R.st = heard'[p][i].kind
                 /\ heard'[p][i].kind = "Output" => log[p].on /\ heard'[p][i].end <= log[p].end
      <4>1. CASE i = Len(heard'[p])
        BY <1>4, <3>2, <3>3, <4>1
      <4>2. CASE i \in 1..Len(heard[p])
        BY <2>1, <2>3, <3>3, <4>2 DEF Sound, Heard
      <4>3. QED
        BY <3>3, <4>1, <4>2
    <3>6. QED
      BY <1>2, <1>3, <3>4, <3>5 DEF Heard
  <2>4. QED
    BY <2>2, <2>3
<1>10. QED
  BY <1>1, <1>3, <1>4, <1>5, <1>6, <1>7, <1>8, <1>9 DEF Sound

-----------------------------------------------------------------------------
(* Types                                                                     *)

LEMMA TypesInitially == Init => TypeOK
<1> SUFFICES ASSUME Init PROVE TypeOK
  OBVIOUS
<1>1. Absent \in Record /\ NewFate \in Fates /\ NoIO \in Outputs /\ NoLog \in Logs
  BY DEF Absent, Record, NewFate, Fates, NoIO, Outputs, NoLog, Logs
<1>2. /\ rec \in [Processes -> Record] /\ snap \in [Processes -> Record]
      /\ fate \in [Processes -> Fates] /\ io \in [Processes -> Outputs]
      /\ log \in [Processes -> Logs]
  BY <1>1 DEF Init
<1>3. call \in [Callers -> [at : {"idle", "entering", "checked", "inserted", "starting", "stopping",
                               "barrier", "waiting", "hopeless"},
                         for : SUBSET Processes]]
  BY DEF Init, Idle
<1>4. heard \in [Processes -> Seq(Events)]
  BY DEF Init
<1>5. errors \in 0..MaxErrors /\ crashes \in 0..MaxCrashes
  BY ConstantsAssumption DEF Init
<1>6. /\ handle \in [Processes -> {"none", "actor", "cached"}]
      /\ actor \in [Processes -> {"none"}] /\ logger \in [Processes -> {"none"}]
      /\ group \in [Processes -> {"none"}] /\ guard \in [Processes -> {"none"}]
      /\ runs \in [Processes -> Nat]
  BY DEF Init
<1>7. /\ inbox \in [Processes -> BOOLEAN] /\ held \in [Processes -> BOOLEAN]
      /\ escaped \in [Processes -> BOOLEAN]
  BY DEF Init
<1>8. QED
  BY <1>2, <1>3, <1>4, <1>5, <1>6, <1>7 DEF Init, TypeOK, Fates, Outputs, Logs, Events

\* Publishing an event keeps the type of the events.
LEMMA PublishedTypes ==
  ASSUME TypeOK, NEW p \in Processes, NEW e \in Events, Publish(p, e)
  PROVE  heard' \in [Processes -> Seq(Events)]
<1>1. heard \in [Processes -> Seq(Events)]
  BY DEF TypeOK, Events
<1>2. Append(heard[p], e) \in Seq(Events)
  BY <1>1
<1>3. QED
  BY <1>1, <1>2 DEF Publish

\* Where a call may be.
Points == {"idle", "entering", "checked", "inserted", "starting", "stopping",
           "barrier", "waiting", "hopeless"}
Calls  == [at : Points, for : SUBSET Processes]

LEMMA CallsTyped ==
  ASSUME TypeOK, NEW c \in Callers
  PROVE  /\ call[c].for \in SUBSET Processes
         /\ \A at \in Points, for \in SUBSET Processes :
              Goes(c, at, for) => call' \in [Callers -> Calls]
         /\ Returns(c) => call' \in [Callers -> Calls]
<1>1. call \in [Callers -> Calls]
  BY DEF TypeOK, Calls, Points
<1>2. \A at \in Points, for \in SUBSET Processes : [at |-> at, for |-> for] \in Calls
  BY DEF Calls
<1>3. Idle \in Calls /\ call[c].for \in SUBSET Processes
  BY <1>1 DEF Idle, Calls, Points
<1>4. QED
  BY <1>1, <1>2, <1>3 DEF Goes, Returns

\* The steps of callers.
LEMMA CallerTypes ==
  ASSUME TypeOK, NEW c \in Callers,
         (\E p \in Processes : StartCall(c, p) \/ StopCall(c, p))
           \/ ShutdownCall(c) \/ CallDropped(c) \/ StartLocks(c) \/ StartAnswered(c) \/ StartReturns(c)
           \/ StopReturns(c) \/ ShutdownLists(c) \/ ShutdownReturns(c)
  PROVE  TypeOK'
<1> USE ConstantsAssumption DEF TypeOK, memory, world, Goes, Returns, Idle
<1>1. Fails \/ Works => errors' \in 0..MaxErrors
  BY DEF Fails, Works
<1>2. \A ps : SendStop(ps) => inbox' \in [Processes -> BOOLEAN]
  BY DEF SendStop
<1>3. ASSUME NEW p \in Processes, StartCall(c, p) PROVE TypeOK'
  BY ZenonT(60), <1>3 DEF StartCall
<1>4. ASSUME NEW p \in Processes, StopCall(c, p) PROVE TypeOK'
  BY ZenonT(60), <1>2, <1>4 DEF StopCall
<1>5. CASE ShutdownCall(c)
  BY <1>5 DEF ShutdownCall
<1>6. CASE CallDropped(c)
  BY <1>6 DEF CallDropped
<1>7. CASE StartLocks(c)
  <2>1. lock' \in Callers \cup {NoCaller}
    BY <1>7 DEF StartLocks
  <2>2. call' \in [Callers -> Calls]
    <3> HIDE DEF TypeOK, Goes, Returns
    <3>1. Returns(c) \/ Goes(c, "checked", call[c].for)
      BY <1>7 DEF StartLocks
    <3>2. QED
      BY <3>1, CallsTyped DEF Points
  <2>3. QED
    BY <1>7, <2>1, <2>2 DEF StartLocks, Calls, Points
<1>8. CASE StartAnswered(c)
  BY <1>1, <1>8 DEF StartAnswered
<1>9. CASE StartReturns(c)
  BY <1>9 DEF StartReturns
<1>10. CASE StopReturns(c)
  BY <1>10 DEF StopReturns
<1>11. CASE ShutdownLists(c)
  <2>1. ToStop(ActiveIn(rec)) \in SUBSET Processes
    BY DEF ToStop, ActiveIn
  <2>2. QED
    BY <1>2, <1>11, <2>1 DEF ShutdownLists
<1>12. CASE ShutdownReturns(c)
  BY <1>12 DEF ShutdownReturns
<1>13. QED
  BY <1>3, <1>4, <1>5, <1>6, <1>7, <1>8, <1>9, <1>10, <1>11, <1>12

\* The process of a call that carries a start request.
Requested(c) == CHOOSE p \in call[c].for : TRUE

LEMMA RequestedIsIt ==
  ASSUME NEW c, NEW p, call[c].for = {p}
  PROVE  Requested(c) = p
BY DEF Requested

LEMMA AdmissionTypes ==
  ASSUME TypeOK, NEW c \in Callers, NEW p \in Processes, Requested(c) = p,
         StartAdmitted(c) \/ StartRegisters(c)
  PROVE  TypeOK'
<1> USE DEF TypeOK, memory, world, Goes, Requested
<1>1. CASE StartAdmitted(c)
  <2>1. rec' = [rec EXCEPT ![p].st = "Starting"]
    BY <1>1 DEF StartAdmitted
  <2>2. rec' \in [Processes -> Record]
    BY <2>1, RecordShows DEF Active
  <2>3. QED
    BY ZenonT(60), <1>1, <2>2 DEF StartAdmitted
<1>2. CASE StartRegisters(c)
  BY ZenonT(60), <1>2 DEF StartRegisters
<1>3. QED
  BY <1>1, <1>2

\* The steps of actors, up to Running.
LEMMA FailStartTypes ==
  ASSUME TypeOK, NEW p \in Processes, FailStart(p)
  PROVE  /\ snap' \in [Processes -> Record]
         /\ actor' = [actor EXCEPT ![p] = "failing"]
BY SnapshotShows DEF FailStart, ToStage, Terminal

LEMMA StartTypes ==
  ASSUME TypeOK, NEW p \in Processes, InitLog(p) \/ Spawn(p) \/ ConfirmArmed(p)
  PROVE  TypeOK'
<1>1. Fails \/ Works => errors' \in 0..MaxErrors
  BY ConstantsAssumption DEF Fails, Works, TypeOK
<1>2. \A s \in {"logged", "arming", "starting", "failing"} :
        actor' = [actor EXCEPT ![p] = s] =>
          actor' \in [Processes -> {"none", "init", "logged", "arming", "running", "draining",
                                    "closing", "done"} \cup Announcing]
  BY DEF TypeOK, Announcing
<1>3. /\ log' \in [Processes -> Logs] /\ snap' \in [Processes -> Record]
      /\ rec' \in [Processes -> Record]
  <2>1. CASE InitLog(p)
    BY ZenonT(60), <2>1, FailStartTypes, LogOpens DEF InitLog, TypeOK, Logs
  <2>2. CASE Spawn(p)
    BY ZenonT(60), <2>2, FailStartTypes DEF Spawn, TypeOK, Logs
  <2>3. CASE ConfirmArmed(p)
    <3>1. snap' \in [Processes -> Record]
      BY <2>3, FailStartTypes, SnapshotShows DEF ConfirmArmed, KillAndFail, Active
    <3>2. rec' \in [Processes -> Record]
      BY ZenonT(60), <2>3, <3>1 DEF ConfirmArmed, TypeOK
    <3>3. QED
      BY <2>3, <3>1, <3>2 DEF ConfirmArmed, TypeOK, Logs
  <2>4. QED
    BY <2>1, <2>2, <2>3
<1>4. actor' \in [Processes -> {"none", "init", "logged", "arming", "running", "draining",
                                "closing", "done"} \cup Announcing]
  BY <1>2, FailStartTypes DEF InitLog, Spawn, ConfirmArmed, KillAndFail, ToStage
<1>5. /\ group' \in [Processes -> {"none", "leader", "orphans", "dead"}]
      /\ guard' \in [Processes -> {"none", "waiting", "armed", "gone"}]
      /\ runs' \in [Processes -> Nat]
  <2>1. CASE InitLog(p)
    BY <2>1 DEF InitLog, TypeOK
  <2>2. CASE Spawn(p)
    <3>1. /\ group' \in [Processes -> {"none", "leader", "orphans", "dead"}]
          /\ guard' \in [Processes -> {"none", "waiting", "armed", "gone"}]
      BY ZenonT(60), <2>2 DEF Spawn, ForkGuardian, SpawnRegistered, TypeOK
    <3>2. runs' \in [Processes -> Nat]
      <4>1. runs \in [Processes -> Nat]
        BY DEF TypeOK
      <4>2. runs' = runs \/ runs' = [runs EXCEPT ![p] = @ + 1]
        BY <2>2 DEF Spawn, SpawnRegistered
      <4>3. runs[p] + 1 \in Nat
        BY <4>1
      <4>4. QED
        BY <4>1, <4>2, <4>3
    <3>3. QED
      BY <3>1, <3>2
  <2>3. CASE ConfirmArmed(p)
    BY ZenonT(60), <2>3 DEF ConfirmArmed, KillAndFail, KillGroup, Disarm, TypeOK
  <2>4. QED
    BY <2>1, <2>2, <2>3
<1>6. UNCHANGED <<server, callers, handle, inbox, held, fate, logger, io, escaped, heard, crashes>>
      /\ errors' \in 0..MaxErrors
  BY <1>1 DEF InitLog, Spawn, ConfirmArmed, Works
<1>7. QED
  BY <1>3, <1>4, <1>5, <1>6 DEF TypeOK, callers, Logs

\* The events of an actor.
LEMMA EventTypes ==
  ASSUME TypeOK, NEW p \in Processes, Sound(p),
         BeginEvent(p) \/ EventStored(p) \/ EventNotStored(p)
  PROVE  TypeOK'
<1> USE DEF memory, world, callers
<1>1. CASE BeginEvent(p)
  BY ZenonT(60), <1>1, SnapshotCounts DEF BeginEvent, TypeOK
<1>2. AfterEvent(p) =>
        /\ actor' \in [Processes -> {"none", "init", "logged", "arming", "running", "draining",
                                     "closing", "done"} \cup Announcing]
        /\ logger' \in [Processes -> {"none", "idle", "written", "closed"}]
  BY DEF AfterEvent, ToStage, TypeOK
<1>3. CASE EventStored(p)
  <2>1. snap[p].st \in Active \cup Terminal
    BY <1>3 DEF EventStored, Sound, Shown, Counted, Announcing, Active, Terminal
  <2>2. EventOf(p) \in Events
    BY <2>1, Numbers DEF EventOf, Events
  <2>3. heard' \in [Processes -> Seq(Events)]
    BY <1>3, <2>2, PublishedTypes DEF EventStored
  <2>4. QED
    BY ZenonT(60), <1>2, <1>3, <2>3 DEF EventStored, Events, TypeOK
<1>4. CASE EventNotStored(p)
  <2>1. errors' \in 0..MaxErrors
    BY <1>4, ConstantsAssumption DEF EventNotStored, Fails, Works, TypeOK
  <2>2. CASE actor[p] = "starting"
    <3>1. KillAndFail(p) /\ UNCHANGED <<fate, logger>>
      BY <1>4, <2>2 DEF EventNotStored
    <3>2. /\ snap' \in [Processes -> Record]
          /\ actor' = [actor EXCEPT ![p] = "failing"]
      BY <3>1, FailStartTypes DEF KillAndFail
    <3>3. QED
      BY ZenonT(60), <1>4, <2>1, <3>1, <3>2
         DEF EventNotStored, PublishNothing, KillAndFail, KillGroup, Disarm, Announcing, TypeOK
  <2>3. CASE actor[p] # "starting"
    <3>1. fate' \in [Processes -> Fates]
      BY <1>4, <2>3, ErrorNoted, LossNoted DEF EventNotStored, RememberError
    <3>2. QED
      BY ZenonT(60), <1>2, <1>4, <2>1, <2>3, <3>1 DEF EventNotStored, PublishNothing, TypeOK, Fates
  <2>4. QED
    BY <2>2, <2>3
<1>5. QED
  BY <1>1, <1>3, <1>4

\* The supervision loop and the end.
LEMMA LoopTypes ==
  ASSUME TypeOK, NEW p \in Processes,
         TakeStop(p) \/ ForceKill(p) \/ LeaveLoop(p) \/ Drained(p) \/ DrainTimeout(p) \/ Conclude(p)
  PROVE  TypeOK'
<1> USE DEF memory, world, callers
<1>1. \A s \in {"stopping", "draining", "closing", "ending"} :
        ToStage(p, s) =>
          actor' \in [Processes -> {"none", "init", "logged", "arming", "running", "draining",
                                    "closing", "done"} \cup Announcing]
  BY DEF ToStage, TypeOK, Announcing
<1>2. CASE TakeStop(p)
  <2>1. fate' \in [Processes -> Fates] /\ snap' \in [Processes -> Record]
    BY ZenonT(60), <1>2, StopNoted, SnapshotShows DEF TakeStop, TypeOK, Fates, Active
  <2>2. QED
    BY ZenonT(60), <1>1, <1>2, <2>1 DEF TakeStop, TypeOK, Fates
<1>3. CASE ForceKill(p)
  BY <1>3 DEF ForceKill, KillGroup, TypeOK
<1>4. CASE LeaveLoop(p)
  BY ZenonT(60), <1>1, <1>4 DEF LeaveLoop, TypeOK
<1>5. CASE Drained(p) \/ DrainTimeout(p)
  <2>1. PICK e \in BOOLEAN : fate' = [fate EXCEPT ![p].error = e]
    <3>1. \/ fate' = [fate EXCEPT ![p].error = fate[p].error \/ io[p].err]
          \/ fate' = [fate EXCEPT ![p].error = TRUE]
      BY <1>5 DEF Drained, DrainTimeout
    <3>2. (fate[p].error \/ io[p].err) \in BOOLEAN
      OBVIOUS
    <3>3. QED
      BY <3>1, <3>2
  <2>2. fate' \in [Processes -> Fates]
    BY <2>1, ErrorNoted
  <2>3. /\ logger' = [logger EXCEPT ![p] = "closed"] /\ ToStage(p, "closing")
        /\ UNCHANGED <<server, shutting, lock, call, closed, rec, snap, handle, inbox, held, io,
                       log, group, escaped, guard, runs, heard, errors, crashes>>
    BY <1>5 DEF Drained, DrainTimeout
  <2>4. QED
    BY <1>1, <2>2, <2>3 DEF TypeOK, Fates
<1>6. CASE Conclude(p)
  <2>1. PICK s \in Terminal : snap' = [snap EXCEPT ![p].st = s]
    BY <1>6 DEF Conclude, Terminal
  <2>2. snap' \in [Processes -> Record]
    BY <2>1, SnapshotShows
  <2>3. QED
    BY ZenonT(60), <1>1, <1>6, <2>2 DEF Conclude, Disarm, TypeOK
<1>7. QED
  BY <1>2, <1>3, <1>4, <1>5, <1>6

\* The logger.
LEMMA LoggerTypes ==
  ASSUME TypeOK, NEW p \in Processes, LoggerStep(p)
  PROVE  TypeOK'
<1> USE DEF memory, world, callers
<1>1. CASE LogWrite(p)
  <2> DEFINE new == [on |-> TRUE, end |-> io[p].mem + 1, seq |-> snap[p].seq + 1]
  <2>1. new \in Logs
    BY Numbers DEF Logs
  <2> HIDE DEF new
  <2>2. log' = [log EXCEPT ![p] = new] \/ log' = log
    BY <1>1 DEF LogWrite, PersistLog, new
  <2>3. log' \in [Processes -> Logs]
    BY ZenonT(60), <2>1, <2>2 DEF TypeOK, Logs
  <2>4. io' \in [Processes -> Outputs]
    BY <1>1, OutputAppended, OutputLost DEF LogWrite
  <2>5. errors' \in 0..MaxErrors
    BY SMTT(60), <1>1, ConstantsAssumption DEF LogWrite, Fails, Works, TypeOK
  <2>6. logger' \in [Processes -> {"none", "idle", "written", "closed"}]
    <3>1. logger' = [logger EXCEPT ![p] = "written"] \/ logger' = logger
      BY <1>1 DEF LogWrite
    <3>2. QED
      BY ZenonT(60), <3>1 DEF TypeOK
  <2>7. QED
    BY <1>1, <2>3, <2>4, <2>5, <2>6 DEF LogWrite, TypeOK, Logs, Outputs
<1>2. CASE LogPublish(p)
  <2>1. snap' \in [Processes -> Record]
    BY ZenonT(60), <1>2, SnapshotReads, Numbers DEF LogPublish
  <2>2. [seq |-> snap'[p].seq, kind |-> "Output", end |-> io[p].mem] \in Events
    BY <2>1, Numbers DEF Events, Record
  <2>3. heard' \in [Processes -> Seq(Events)]
    BY <1>2, <2>2, PublishedTypes DEF LogPublish
  <2>4. QED
    BY <1>2, <2>1, <2>3 DEF LogPublish, TypeOK, Events
<1>3. QED
  BY <1>1, <1>2 DEF LoggerStep

\* The command and its guardian.
LEMMA GroupTypes ==
  ASSUME TypeOK, NEW p \in Processes,
         GuardianArms(p) \/ GuardianFires(p) \/ Writes(p) \/ GroupEnds(p) \/ Escapes(p)
  PROVE  TypeOK'
<1> USE DEF memory, world, callers
<1>1. CASE GuardianArms(p)
  BY <1>1 DEF GuardianArms, TypeOK
<1>2. CASE GuardianFires(p)
  BY <1>2 DEF GuardianFires, KillGroup, TypeOK
<1>3. CASE Writes(p)
  BY ZenonT(60), <1>3, OutputRead DEF Writes, TypeOK, Outputs
<1>4. CASE GroupEnds(p)
  <2>1. PICK g \in {"orphans", "dead"} : group' = [group EXCEPT ![p] = g]
    BY <1>4 DEF GroupEnds
  <2>2. QED
    BY ZenonT(60), <1>4, <2>1 DEF GroupEnds, TypeOK
<1>5. CASE Escapes(p)
  <2>1. errors' \in 0..MaxErrors /\ escaped' \in [Processes -> BOOLEAN]
    BY <1>5, ConstantsAssumption DEF Escapes, Fails, TypeOK
  <2>2. QED
    BY <1>5, <2>1 DEF Escapes, TypeOK
<1>6. QED
  BY <1>1, <1>2, <1>3, <1>4, <1>5

\* Death, restart and recovery of the app-server.
LEMMA RecoverTypes ==
  ASSUME TypeOK, NEW p \in Processes, Sound(p), Recover(p)
  PROVE  TypeOK'
<1> USE DEF memory, world, callers
<1>1. Recovered(p) \in Record /\ Recovered(p).seq \in Nat
  BY RecoveredIsAhead DEF Recover, Record
<1>2. rec' \in [Processes -> Record] /\ snap' \in [Processes -> Record]
  BY <1>1 DEF Recover, TypeOK
<1>3. heard' \in [Processes -> Seq(Events)]
  <2>1. [seq |-> Recovered(p).seq, kind |-> "Lost", end |-> 0] \in Events
    BY <1>1 DEF Events, Terminal
  <2>2. CASE rec[p].st \in Active
    BY <2>1, <2>2, PublishedTypes DEF Recover
  <2>3. CASE rec[p].st \notin Active
    BY <2>3 DEF Recover, TypeOK, Events
  <2>4. QED
    BY <2>2, <2>3
<1>4. QED
  BY <1>2, <1>3 DEF Recover, TypeOK, Events

LEMMA ServerTypes ==
  ASSUME TypeOK, Crash \/ Restart \/ RecoveryFails \/ RecoveryEnds
  PROVE  TypeOK'
<1> USE DEF memory, world, callers
<1>1. Absent \in Record /\ NewFate \in Fates /\ NoIO \in Outputs
  BY DEF Absent, Record, NewFate, Fates, NoIO, Outputs
<1>2. CASE Crash
  <2>1. /\ snap' \in [Processes -> Record] /\ fate' \in [Processes -> Fates]
        /\ io' \in [Processes -> Outputs]
    BY <1>1, <1>2 DEF Crash
  <2>2. call' \in [Callers -> Calls] /\ lock' \in Callers \cup {NoCaller}
    BY <1>2 DEF Crash, Idle, Calls, Points
  <2>3. crashes' \in 0..MaxCrashes
    BY <1>2, ConstantsAssumption DEF Crash, TypeOK
  <2>4. QED
    BY <1>2, <2>1, <2>2, <2>3 DEF Crash, TypeOK, Fates, Outputs, Calls, Points
<1>3. CASE Restart \/ RecoveryEnds
  BY ZenonT(60), <1>3 DEF Restart, RecoveryEnds, TypeOK
<1>4. CASE RecoveryFails
  <2>1. errors' \in 0..MaxErrors
    BY <1>4, ConstantsAssumption DEF RecoveryFails, Fails, TypeOK
  <2>2. snap' \in [Processes -> Record] /\ handle' \in [Processes -> {"none", "actor", "cached"}]
    BY <1>1, <1>4 DEF RecoveryFails
  <2>3. QED
    BY <1>4, <2>1, <2>2 DEF RecoveryFails, TypeOK
<1>5. QED
  BY <1>2, <1>3, <1>4

-----------------------------------------------------------------------------
(* Quotas                                                                    *)

\* Without a new active record the quotas hold on.
LEMMA FewerAreAdmitted ==
  ASSUME Admitted, \A q \in Processes : rec'[q].st \in Active => rec[q].st \in Active
  PROVE  Admitted'
<1> USE ConstantsAssumption
<1>1. ActiveIn(rec)' \subseteq ActiveIn(rec) /\ \A p \in Processes : Of(p)' \subseteq Of(p)
  BY DEF ActiveIn, Of
<1>2. IsFiniteSet(ActiveIn(rec)) /\ \A p \in Processes : IsFiniteSet(Of(p))
  BY FS_Subset DEF Admitted, Of
<1>3. /\ IsFiniteSet(ActiveIn(rec)')
      /\ Cardinality(ActiveIn(rec)') <= Cardinality(ActiveIn(rec))
      /\ \A p \in Processes : Cardinality(Of(p)') <= Cardinality(Of(p))
  BY <1>1, <1>2, FS_Subset
<1>4. /\ Cardinality(ActiveIn(rec)) \in Nat /\ Cardinality(ActiveIn(rec)') \in Nat
      /\ \A p \in Processes : Cardinality(Of(p)) \in Nat /\ Cardinality(Of(p)') \in Nat
  BY <1>1, <1>2, <1>3, FS_Subset, FS_CardinalityType
<1>5. Cardinality(ActiveIn(rec)') <= MaxActive
  BY <1>3, <1>4 DEF Admitted
<1>6. \A p \in Processes : Cardinality(Of(p)') <= MaxPerThread
  BY <1>3, <1>4 DEF Admitted
<1>7. QED
  BY <1>3, <1>5, <1>6 DEF Admitted

\* A record is admitted when neither quota is used up.
LEMMA OneMoreIsAdmitted ==
  ASSUME TypeOK, Admitted, NEW p \in Processes, rec[p].st = "absent", ~QuotaFull(p),
         rec' = [rec EXCEPT ![p].st = "Starting"]
  PROVE  Admitted'
<1> USE ConstantsAssumption
<1>1. rec'[p].st \in Active /\ rec[p].st \notin Active
      /\ \A q \in Processes \ {p} : rec'[q] = rec[q]
  <2>1. rec'[p] = [st |-> "Starting", seq |-> rec[p].seq, end |-> rec[p].end]
    BY RecordShows
  <2>2. QED
    BY <2>1 DEF TypeOK, Active
<1>2. ActiveIn(rec)' = ActiveIn(rec) \cup {p} /\ p \notin ActiveIn(rec)
  BY <1>1 DEF ActiveIn
<1>3. IsFiniteSet(ActiveIn(rec)) /\ \A q \in Processes : IsFiniteSet(Of(q))
  BY FS_Subset DEF Admitted, Of
<1>4. /\ Cardinality(ActiveIn(rec)) \in Nat
      /\ \A q \in Processes : Cardinality(Of(q)) \in Nat
  BY <1>3, FS_CardinalityType
<1>5. /\ IsFiniteSet(ActiveIn(rec)')
      /\ Cardinality(ActiveIn(rec)') = Cardinality(ActiveIn(rec)) + 1
  <2>1. IsFiniteSet(ActiveIn(rec) \cup {p})
        /\ Cardinality(ActiveIn(rec) \cup {p}) = Cardinality(ActiveIn(rec)) + 1
    BY <1>2, <1>3, FS_AddElement
  <2>2. QED
    BY <1>2, <2>1
<1>6. Cardinality(ActiveIn(rec)) < MaxActive /\ Cardinality(Of(p)) < MaxPerThread
  BY <1>4 DEF QuotaFull, Of
<1>7. ASSUME NEW q \in Processes PROVE Cardinality(Of(q)') <= MaxPerThread
  <2>1. CASE ThreadOf[q] # ThreadOf[p]
    <3>1. Of(q)' = Of(q)
      BY <1>2, <2>1 DEF Of
    <3>2. QED
      BY <3>1 DEF Admitted
  <2>2. CASE ThreadOf[q] = ThreadOf[p]
    <3>1. Of(q)' = Of(p) \cup {p} /\ p \notin Of(p)
      BY <1>2, <2>2 DEF Of
    <3>2. Cardinality(Of(q)') = Cardinality(Of(p)) + 1
      BY <1>3, <3>1, FS_AddElement
    <3>3. QED
      BY <1>4, <1>6, <3>2
  <2>3. QED
    BY <2>1, <2>2
<1>8. QED
  BY <1>4, <1>5, <1>6, <1>7 DEF Admitted

-----------------------------------------------------------------------------
(* Every step keeps the invariant                                            *)

\* What a process does, its actor, its logger, its guardian or the command.
Step(p) ==
  \/ ActorStep(p) \/ LoggerStep(p) \/ GuardianArms(p) \/ GuardianFires(p)
  \/ Writes(p) \/ GroupEnds(p) \/ Escapes(p)

LEMMA StepAdvances ==
  ASSUME TypeOK, NEW p \in Processes, Sound(p), Step(p)
  PROVE  /\ TypeOK' /\ Advances(p)
         /\ \A q \in Processes \ {p} : Alone(q)
<1>1. CASE InitLog(p)
  BY <1>1, InitLogAdvances, StartTypes
<1>2. CASE Spawn(p)
  BY <1>2, SpawnAdvances, StartTypes
<1>3. CASE ConfirmArmed(p)
  BY <1>3, ConfirmArmedAdvances, StartTypes
<1>4. CASE BeginEvent(p)
  BY <1>4, BeginEventAdvances, EventTypes
<1>5. CASE EventStored(p)
  BY <1>5, EventStoredAdvances, EventTypes
<1>6. CASE EventNotStored(p)
  BY <1>6, EventNotStoredAdvances, EventTypes
<1>7. CASE TakeStop(p)
  BY <1>7, TakeStopAdvances, LoopTypes
<1>8. CASE ForceKill(p)
  BY <1>8, GroupAdvances, LoopTypes
<1>9. CASE LeaveLoop(p)
  BY <1>9, LeaveLoopAdvances, LoopTypes
<1>10. CASE Drained(p) \/ DrainTimeout(p)
  BY <1>10, DrainAdvances, LoopTypes
<1>11. CASE Conclude(p)
  BY <1>11, ConcludeAdvances, LoopTypes
<1>12. CASE LogWrite(p)
  BY <1>12, LogWriteAdvances, LoggerTypes DEF LoggerStep
<1>13. CASE LogPublish(p)
  BY <1>13, LogPublishAdvances, LoggerTypes DEF LoggerStep
<1>14. CASE GuardianArms(p)
  BY <1>14, GuardianArmsAdvances, GroupTypes
<1>15. CASE GuardianFires(p)
  BY <1>15, GuardianFiresAdvances, GroupTypes
<1>16. CASE Writes(p)
  BY <1>16, WritesAdvances, GroupTypes
<1>17. CASE GroupEnds(p) \/ Escapes(p)
  BY <1>17, GroupAdvances, GroupTypes
<1>18. QED
  BY <1>1, <1>2, <1>3, <1>4, <1>5, <1>6, <1>7, <1>8, <1>9, <1>10, <1>11, <1>12, <1>13,
     <1>14, <1>15, <1>16, <1>17 DEF Step, ActorStep, LoggerStep

LEMMA StepKeeps ==
  ASSUME IInv, NEW p \in Processes, Step(p)
  PROVE  IInv'
<1>1. TypeOK' /\ Advances(p) /\ \A q \in Processes \ {p} : Alone(q)
  BY StepAdvances DEF IInv
<1>2. server' = server /\ shutting' = shutting /\ lock' = lock /\ call' = call /\ closed' = closed
  BY DEF Step, ActorStep, LoggerStep, InitLog, Spawn, ConfirmArmed, BeginEvent, EventStored,
         EventNotStored, TakeStop, ForceKill, LeaveLoop, Drained, DrainTimeout, Conclude, LogWrite,
         LogPublish, GuardianArms, GuardianFires, Writes, GroupEnds, Escapes, callers
<1>3. \A q \in Processes : Sound(q)'
  BY <1>1, <1>2, AloneIsSound DEF Advances, IInv
<1>4. \A q \in Processes : /\ rec'[q].st \in Active => rec[q].st \in Active
                           /\ rec'[q] = Absent => rec[q] = Absent
                           /\ handle'[q] = handle[q]
                           /\ actor[q] \in Leaving => actor'[q] \in Leaving
  BY <1>1 DEF Advances, Alone
<1>5. Admitted'
  BY <1>4, FewerAreAdmitted DEF IInv
<1>6. Calling'
  <2>1. \A c \in Callers : call[c].for \in SUBSET Processes
    BY CallsTyped DEF IInv
  <2>2. QED
    BY <1>2, <1>4, <2>1 DEF IInv, Calling
<1>7. ShuttingDown'
  BY <1>2, <1>4 DEF IInv, ShuttingDown
<1>8. QED
  BY <1>1, <1>3, <1>5, <1>6, <1>7 DEF IInv

\* What a call does when it moves on: no other call is touched.
LEMMA CallMoves ==
  ASSUME TypeOK, NEW c \in Callers, NEW at, NEW for, Goes(c, at, for)
  PROVE  /\ call'[c].at = at /\ call'[c].for = for
         /\ \A d \in Callers \ {c} : call'[d] = call[d]
BY DEF Goes, TypeOK

LEMMA CallReturns ==
  ASSUME TypeOK, NEW c \in Callers, Returns(c)
  PROVE  /\ call'[c].at = "idle"
         /\ \A d \in Callers \ {c} : call'[d] = call[d]
<1>1. call' = [call EXCEPT ![c] = Idle] /\ call \in [Callers -> Calls]
  BY DEF Returns, TypeOK, Calls, Points
<1>2. call'[c] = Idle /\ \A d \in Callers \ {c} : call'[d] = call[d]
  BY <1>1
<1>3. QED
  BY <1>2 DEF Idle

\* No other caller is past the lock that this one holds.
LEMMA LockIsExclusive ==
  ASSUME Calling, NEW c \in Callers, lock \in {c, NoCaller}
  PROVE  \A d \in Callers \ {c} : call[d].at \notin {"checked", "inserted", "starting"}
BY ConstantsAssumption DEF Calling

\* A call that leaves records and processes alone.
Quiet == UNCHANGED <<server, rec, snap, handle, actor, held, fate, logger, io, log, group, guard,
                     runs, heard>>

LEMMA QuietKeeps ==
  ASSUME IInv, TypeOK', Quiet, Calling', ShuttingDown'
  PROVE  IInv'
<1>1. \A q \in Processes : Alone(q) /\ rec'[q] = rec[q] /\ server' = server
  BY DEF Quiet, Alone
<1>2. \A q \in Processes : Sound(q)'
  BY <1>1, AloneIsSound DEF IInv
<1>3. Admitted'
  BY <1>1, FewerAreAdmitted DEF IInv
<1>4. QED
  BY <1>2, <1>3 DEF IInv

\* The calls to start, up to the check under the lock, and their returns.
LEMMA StartCallKeeps ==
  ASSUME IInv, NEW c \in Callers, NEW p \in Processes, StartCall(c, p)
  PROVE  IInv'
<1>1. TypeOK' /\ TypeOK
  BY CallerTypes DEF IInv
<1>2. Quiet /\ UNCHANGED <<shutting, lock, closed>> /\ ~shutting /\ server = "up"
  BY DEF StartCall, Quiet, memory, world, At
<1>3. /\ call'[c].at = "entering" /\ call'[c].for = {p}
      /\ \A d \in Callers \ {c} : call'[d] = call[d]
  BY <1>1, CallMoves DEF StartCall
<1>4. Calling'
  BY <1>2, <1>3 DEF IInv, Calling, Quiet
<1>5. ShuttingDown'
  BY <1>2, <1>3 DEF IInv, ShuttingDown, Quiet
<1>6. QED
  BY <1>1, <1>2, <1>4, <1>5, QuietKeeps

LEMMA StartLocksKeeps ==
  ASSUME IInv, NEW c \in Callers, StartLocks(c)
  PROVE  IInv'
<1>1. TypeOK /\ Calling /\ ShuttingDown
  BY DEF IInv
<1>2. PICK p \in Processes : call[c].for = {p}
  BY <1>1 DEF StartLocks, At, Calling
<1>3. TypeOK'
  BY <1>1, CallerTypes
<1>4. Quiet /\ UNCHANGED <<shutting, closed>> /\ server = "up" /\ lock = NoCaller
  BY DEF StartLocks, Quiet, memory, world, At
<1>5. \A d \in Callers \ {c} : call[d].at \notin {"checked", "inserted", "starting"}
  BY <1>1, <1>4, LockIsExclusive
<1>6. CASE shutting
  <2>1. call'[c].at = "idle" /\ (\A d \in Callers \ {c} : call'[d] = call[d]) /\ lock' = lock
    BY <1>1, <1>6, CallReturns DEF StartLocks
  <2>2. Calling' /\ ShuttingDown'
    BY <1>1, <1>4, <2>1 DEF Calling, ShuttingDown, Quiet
  <2>3. QED
    BY <1>3, <1>4, <2>2, QuietKeeps
<1>7. CASE ~shutting
  <2>1. /\ call'[c].at = "checked" /\ call'[c].for = {p} /\ lock' = c
        /\ \A d \in Callers \ {c} : call'[d] = call[d]
    BY <1>1, <1>2, <1>7, CallMoves DEF StartLocks
  <2>2. Calling'
    BY <1>1, <1>4, <1>5, <2>1 DEF Calling, Quiet
  <2>3. ShuttingDown'
    BY <1>1, <1>4, <1>7, <2>1 DEF ShuttingDown, Quiet
  <2>4. QED
    BY <1>3, <1>4, <2>2, <2>3, QuietKeeps
<1>8. QED
  BY <1>6, <1>7

\* Calls that end: answered, returned, dropped or stopped.
LEMMA ReturnKeeps ==
  ASSUME IInv, NEW c \in Callers,
         StartAnswered(c) \/ StartReturns(c) \/ CallDropped(c) \/ StopReturns(c)
  PROVE  IInv'
<1>1. TypeOK /\ Calling /\ ShuttingDown
  BY DEF IInv
<1>2. Quiet /\ UNCHANGED <<shutting, closed>> /\ Returns(c)
  BY DEF StartAnswered, StartReturns, CallDropped, StopReturns, Quiet, memory, world
<1>3. call'[c].at = "idle" /\ \A d \in Callers \ {c} : call'[d] = call[d]
  BY <1>1, <1>2, CallReturns
<1>4. lock' = lock \/ lock = c
  BY <1>1 DEF StartAnswered, StartReturns, CallDropped, StopReturns, At, Calling
<1>5. lock = c => \A d \in Callers \ {c} : call[d].at \notin {"checked", "inserted", "starting"}
  BY <1>1, LockIsExclusive
<1>6. TypeOK'
  BY <1>1, CallerTypes
<1>7. Calling'
  BY <1>1, <1>2, <1>3, <1>4, <1>5 DEF Calling, Quiet
<1>8. ShuttingDown'
  BY <1>1, <1>2, <1>3 DEF ShuttingDown, Quiet
<1>9. QED
  BY <1>2, <1>6, <1>7, <1>8, QuietKeeps

\* The calls to stop and shutdown_all.
LEMMA StopCallKeeps ==
  ASSUME IInv, NEW c \in Callers, NEW p \in Processes, StopCall(c, p)
  PROVE  IInv'
<1>1. TypeOK' /\ TypeOK /\ Calling /\ ShuttingDown
  BY CallerTypes DEF IInv
<1>2. Quiet /\ UNCHANGED <<shutting, lock, closed>> /\ server = "up"
  BY DEF StopCall, Quiet, world, At
<1>3. /\ call'[c].at = "stopping"
      /\ \A d \in Callers \ {c} : call'[d] = call[d]
  BY <1>1, CallMoves DEF StopCall
<1>4. Calling' /\ ShuttingDown'
  BY <1>1, <1>2, <1>3 DEF Calling, ShuttingDown, Quiet
<1>5. QED
  BY <1>1, <1>2, <1>4, QuietKeeps

LEMMA ShutdownCallKeeps ==
  ASSUME IInv, NEW c \in Callers, ShutdownCall(c)
  PROVE  IInv'
<1>1. TypeOK' /\ TypeOK /\ Calling /\ ShuttingDown
  BY CallerTypes DEF IInv
<1>2. Quiet /\ UNCHANGED <<lock, closed>> /\ shutting' /\ server = "up"
  BY DEF ShutdownCall, Quiet, memory, world, At
<1>3. /\ call'[c].at = "barrier"
      /\ \A d \in Callers \ {c} : call'[d] = call[d]
  BY <1>1, CallMoves DEF ShutdownCall
<1>4. Calling' /\ ShuttingDown'
  BY <1>1, <1>2, <1>3 DEF Calling, ShuttingDown, Quiet
<1>5. QED
  BY <1>1, <1>2, <1>4, QuietKeeps

\* Behind the barrier every process that is not leaving is in the list.
LEMMA ShutdownListsKeeps ==
  ASSUME IInv, NEW c \in Callers, ShutdownLists(c)
  PROVE  IInv'
<1>1. TypeOK' /\ TypeOK /\ Calling /\ ShuttingDown /\ \A p \in Processes : Sound(p)
  BY CallerTypes DEF IInv
<1>2. Quiet /\ UNCHANGED <<shutting, lock, closed>> /\ server = "up" /\ lock = NoCaller /\ shutting
  BY <1>1 DEF ShutdownLists, BarrierFree, Quiet, world, At, ShuttingDown
<1>3. /\ call'[c].at \in {"waiting", "hopeless"}
      /\ call'[c].for = ToStop(ActiveIn(rec))
      /\ \A d \in Callers \ {c} : call'[d] = call[d]
  BY <1>1, CallMoves DEF ShutdownLists
<1>4. \A d \in Callers : call[d].at \notin {"checked", "inserted"}
  BY <1>1, <1>2, ConstantsAssumption DEF Calling
<1>5. \A p \in Processes : p \in ToStop(ActiveIn(rec)) \/ actor[p] \in Leaving
  <2> SUFFICES ASSUME NEW p \in Processes, actor[p] \notin Leaving
               PROVE  p \in ToStop(ActiveIn(rec))
    OBVIOUS
  <2>1. actor[p] \in {"init", "logged", "arming", "starting", "running", "stopping", "draining",
                      "closing"}
    BY <1>1 DEF TypeOK, Announcing, Leaving
  <2>2. rec[p].st \in Active /\ snap[p].st \in Active /\ handle[p] = "actor"
    BY <1>1, <2>1 DEF Sound, Placed, Shown, Active
  <2>3. QED
    BY <2>2 DEF ToStop, ActiveIn, Seen
<1>6. Calling'
  BY <1>1, <1>2, <1>3 DEF Calling, Quiet
<1>7. ShuttingDown'
  BY <1>1, <1>2, <1>3, <1>4, <1>5 DEF ShuttingDown, Quiet
<1>8. QED
  BY <1>1, <1>2, <1>6, <1>7, QuietKeeps

LEMMA ShutdownReturnsKeeps ==
  ASSUME IInv, NEW c \in Callers, ShutdownReturns(c)
  PROVE  IInv'
<1>1. TypeOK' /\ TypeOK /\ Calling /\ ShuttingDown
  BY CallerTypes DEF IInv
<1>2. Quiet /\ UNCHANGED <<shutting, lock>> /\ call[c].at \in {"waiting", "hopeless"} /\ Returns(c)
  BY DEF ShutdownReturns, Quiet, memory, world, At
<1>3. /\ call'[c].at = "idle"
      /\ \A d \in Callers \ {c} : call'[d] = call[d]
  BY <1>1, <1>2, CallReturns
<1>4. \A p \in Processes : actor[p] \in Leaving
  BY <1>1, <1>2 DEF ShutdownReturns, Completed, ShuttingDown, Leaving
<1>5. Calling'
  BY <1>1, <1>2, <1>3 DEF Calling, Quiet
<1>6. ShuttingDown'
  BY <1>1, <1>2, <1>3, <1>4 DEF ShuttingDown, Quiet
<1>7. QED
  BY <1>1, <1>2, <1>5, <1>6, QuietKeeps

-----------------------------------------------------------------------------
(* Admission                                                                 *)

\* A record is inserted for a request nothing is known of.
LEMMA StartAdmittedKeeps ==
  ASSUME IInv, NEW c \in Callers, StartAdmitted(c)
  PROVE  IInv'
<1>1. TypeOK /\ Calling /\ ShuttingDown /\ \A q \in Processes : Sound(q)
  BY DEF IInv
<1>2. PICK p \in Processes : call[c].for = {p}
  BY <1>1 DEF StartAdmitted, At, Calling
<1>3. Requested(c) = p
  BY <1>2, RequestedIsIt
<1>4. /\ rec' = [rec EXCEPT ![p].st = "Starting"] /\ Goes(c, "inserted", {p})
      /\ rec[p] = Absent /\ ~QuotaFull(p)
      /\ call[c].at = "checked" /\ server = "up"
      /\ UNCHANGED <<server, shutting, lock, closed, memory, world, heard, errors, crashes>>
  BY <1>3 DEF StartAdmitted, Requested, Known, At
<1>5. TypeOK'
  BY <1>1, <1>3, AdmissionTypes
<1>6. /\ rec'[p] = [st |-> "Starting", seq |-> 0, end |-> 0] /\ rec'[p] # Absent
      /\ \A q \in Processes \ {p} : rec'[q] = rec[q]
  <2>1. rec'[p] = [st |-> "Starting", seq |-> rec[p].seq, end |-> rec[p].end]
    BY <1>1, <1>4, RecordShows
  <2>2. rec[p].seq = 0 /\ rec[p].end = 0
    BY <1>4 DEF Absent
  <2>3. rec'[p] = [st |-> "Starting", seq |-> 0, end |-> 0]
    BY <2>1, <2>2
  <2>4. \A q \in Processes \ {p} : rec'[q] = rec[q]
    BY <1>1, <1>4 DEF TypeOK
  <2>5. QED
    BY <2>3, <2>4 DEF Absent
<1>7. /\ handle[p] = "none" /\ Untouched(p) /\ actor[p] = "none"
      /\ ~held[p] /\ logger[p] = "none" /\ fate[p] = NewFate /\ io[p] = NoIO
  BY <1>1, <1>4 DEF Sound, Placed
<1>8. /\ snap' = snap /\ handle' = handle /\ actor' = actor /\ held' = held /\ fate' = fate
      /\ logger' = logger /\ io' = io /\ log' = log /\ group' = group /\ guard' = guard
      /\ runs' = runs /\ heard' = heard
  BY <1>4 DEF memory, world
<1>9. Sound(p)'
  <2>1. rec'[p].st = "Starting" /\ rec'[p].st \notin Terminal
    BY <1>6 DEF Terminal
  <2>2. Placed(p)'
    BY <1>4, <1>6, <1>7, <1>8, <2>1 DEF Placed, Untouched
  <2>3. Spawned(p)'
    BY <1>7, <1>8, <2>1 DEF Spawned, Untouched, GroupAlive, Supervising, Watching
  <2>4. Shown(p)'
    BY <1>7, <1>8 DEF Shown
  <2>5. Counted(p)' /\ Heard(p)'
    BY <1>7, <1>8 DEF Counted, Heard, Untouched
  <2>6. QED
    BY <2>2, <2>3, <2>4, <2>5 DEF Sound
<1>10. \A q \in Processes \ {p} : Sound(q)'
  BY <1>1, <1>4, <1>6, <1>8, AloneIsSound DEF Alone
<1>11. Admitted'
  <2>1. rec[p].st = "absent"
    BY <1>4 DEF Absent
  <2>2. QED
    BY <1>1, <1>4, <2>1, OneMoreIsAdmitted DEF IInv
<1>12. /\ call'[c].at = "inserted" /\ call'[c].for = {p}
       /\ \A d \in Callers \ {c} : call'[d] = call[d]
  BY <1>1, <1>4, CallMoves
<1>13. \A d \in Callers \ {c} : call[d].at \notin {"checked", "inserted", "starting"}
  <2>1. lock = c
    BY <1>1, <1>4 DEF Calling
  <2>2. QED
    BY <1>1, <2>1, LockIsExclusive
<1>14. Calling'
  BY <1>1, <1>4, <1>6, <1>7, <1>8, <1>12, <1>13 DEF Calling
<1>15. ShuttingDown'
  BY <1>1, <1>4, <1>8, <1>12 DEF ShuttingDown
<1>16. QED
  BY <1>5, <1>9, <1>10, <1>11, <1>14, <1>15 DEF IInv

\* The actor starts from the record as it was inserted.
LEMMA StartRegistersKeeps ==
  ASSUME IInv, NEW c \in Callers, StartRegisters(c)
  PROVE  IInv'
<1>1. TypeOK /\ Calling /\ ShuttingDown /\ \A q \in Processes : Sound(q)
  BY DEF IInv
<1>2. PICK p \in Processes : call[c].for = {p}
  BY <1>1 DEF StartRegisters, At, Calling
<1>3. Requested(c) = p
  BY <1>2, RequestedIsIt
<1>4. /\ handle' = [handle EXCEPT ![p] = "actor"]
      /\ snap' = [snap EXCEPT ![p] = rec[p]]
      /\ actor' = [actor EXCEPT ![p] = "init"]
      /\ Goes(c, "starting", {p})
      /\ call[c].at = "inserted" /\ server = "up"
      /\ UNCHANGED <<server, shutting, lock, closed, rec, inbox, held, fate, logger, io,
                     world, heard, errors, crashes>>
  BY <1>3 DEF StartRegisters, Requested, At
<1>5. TypeOK'
  BY <1>1, <1>3, AdmissionTypes
<1>6. /\ rec[p] # Absent /\ handle[p] = "none" /\ Untouched(p) /\ actor[p] = "none"
      /\ rec[p] = [st |-> "Starting", seq |-> 0, end |-> 0]
      /\ ~held[p] /\ logger[p] = "none" /\ fate[p] = NewFate /\ io[p] = NoIO
  BY <1>1, <1>2, <1>4 DEF Sound, Placed, Calling
<1>7. /\ handle'[p] = "actor" /\ snap'[p] = rec[p] /\ actor'[p] = "init"
      /\ \A q \in Processes \ {p} :
           handle'[q] = handle[q] /\ snap'[q] = snap[q] /\ actor'[q] = actor[q]
  BY <1>1, <1>4 DEF TypeOK
<1>8. /\ rec' = rec /\ held' = held /\ fate' = fate /\ logger' = logger /\ io' = io /\ log' = log
      /\ group' = group /\ guard' = guard /\ runs' = runs /\ heard' = heard
  BY <1>4 DEF world
<1>9. Sound(p)'
  <2>1. rec[p].st = "Starting" /\ rec[p].st \notin Terminal /\ rec[p].seq = 0 /\ rec[p].end = 0
    BY <1>6 DEF Terminal
  <2>2. Placed(p)'
    BY <1>4, <1>6, <1>7, <1>8, <2>1 DEF Placed, Untouched
  <2>3. Spawned(p)'
    BY <1>6, <1>7, <1>8, <2>1 DEF Spawned, Untouched, GroupAlive, Supervising, Watching
  <2>4. Shown(p)'
    BY <1>6, <1>7, <1>8, <2>1 DEF Shown, NewFate
  <2>5. Counted(p)'
    BY <1>6, <1>7, <1>8, <2>1 DEF Counted, Untouched, NoLog, NoIO
  <2>6. Heard(p)'
    BY <1>6, <1>8 DEF Heard, Untouched
  <2>7. QED
    BY <2>2, <2>3, <2>4, <2>5, <2>6 DEF Sound
<1>10. \A q \in Processes \ {p} : Sound(q)'
  BY <1>1, <1>4, <1>7, <1>8, AloneIsSound DEF Alone
<1>11. Admitted'
  BY <1>8, FewerAreAdmitted DEF IInv
<1>12. /\ call'[c].at = "starting" /\ call'[c].for = {p}
       /\ \A d \in Callers \ {c} : call'[d] = call[d]
  BY <1>1, <1>4, CallMoves
<1>13. lock = c /\ \A d \in Callers \ {c} : call[d].at \notin {"checked", "inserted", "starting"}
  BY <1>1, <1>4, LockIsExclusive DEF Calling
<1>14. Calling'
  BY <1>1, <1>4, <1>8, <1>12, <1>13 DEF Calling
<1>15. ~closed /\ \A d \in Callers : call[d].at \notin {"waiting", "hopeless"}
  BY <1>1, <1>4 DEF ShuttingDown
<1>16. ShuttingDown'
  BY <1>1, <1>4, <1>12, <1>15 DEF ShuttingDown
<1>17. QED
  BY <1>5, <1>9, <1>10, <1>11, <1>14, <1>16 DEF IInv

-----------------------------------------------------------------------------
(* Death, restart and recovery                                               *)

LEMMA CrashKeeps == IInv /\ Crash => IInv'
<1> SUFFICES ASSUME IInv, Crash PROVE IInv'
  OBVIOUS
<1>1. TypeOK'
  BY ServerTypes DEF IInv
<1>2. /\ server' = "down" /\ ~closed' /\ rec' = rec /\ log' = log /\ group' = group
      /\ guard' = guard /\ runs' = runs /\ heard' = heard
      /\ \A c \in Callers : call'[c].at = "idle"
      /\ \A p \in Processes :
           /\ handle'[p] = "none" /\ actor'[p] = "none" /\ ~held'[p] /\ fate'[p] = NewFate
           /\ logger'[p] = "none" /\ io'[p] = NoIO
  BY DEF Crash, world, Idle
<1>3. ASSUME NEW p \in Processes PROVE Sound(p)'
  <2>1. Sound(p)
    BY DEF IInv
  <2>2. Placed(p)'
    BY <1>2, <2>1 DEF Sound, Placed, Untouched
  <2>3. Spawned(p)'
    BY <1>2, <2>1 DEF Sound, Spawned, GroupAlive, Supervising
  <2>4. Shown(p)'
    BY <1>2 DEF Shown
  <2>5. Counted(p)'
    BY <1>2, <2>1 DEF Sound, Counted
  <2>6. Heard(p)'
    BY ZenonT(60), <1>2, <2>1 DEF Sound, Heard
  <2>7. QED
    BY <2>2, <2>3, <2>4, <2>5, <2>6 DEF Sound
<1>4. Calling' /\ ShuttingDown'
  BY <1>2 DEF Calling, ShuttingDown
<1>5. Admitted'
  BY <1>2, FewerAreAdmitted DEF IInv
<1>6. QED
  BY <1>1, <1>3, <1>4, <1>5 DEF IInv

LEMMA RestartKeeps == IInv /\ (Restart \/ RecoveryEnds) => IInv'
<1> SUFFICES ASSUME IInv, Restart \/ RecoveryEnds PROVE IInv'
  OBVIOUS
<1>1. TypeOK'
  BY ServerTypes DEF IInv
<1>2. /\ UNCHANGED <<callers, rec, memory, world, heard>>
      /\ server # "up"
      /\ server' = "up" => \A p \in Processes : rec[p] # Absent => handle[p] # "none"
  BY DEF Restart, RecoveryEnds
<1>3. ASSUME NEW p \in Processes PROVE Sound(p)'
  <2>1. Sound(p) /\ actor[p] = "none"
    BY <1>2 DEF IInv, Sound, Placed
  <2>2. Placed(p)'
    BY <1>2, <2>1 DEF Sound, Placed, Untouched, memory, world
  <2>3. Spawned(p)' /\ Shown(p)'
    BY <1>2, <2>1 DEF Sound, Spawned, Shown, GroupAlive, memory, world
  <2>4. Counted(p)' /\ Heard(p)'
    BY <1>2, <2>1 DEF Sound, Counted, Heard, memory, world
  <2>5. QED
    BY <2>2, <2>3, <2>4 DEF Sound
<1>4. Calling' /\ ShuttingDown'
  BY <1>2 DEF IInv, Calling, ShuttingDown, callers, memory
<1>5. Admitted'
  BY <1>2, FewerAreAdmitted DEF IInv
<1>6. QED
  BY <1>1, <1>3, <1>4, <1>5 DEF IInv

LEMMA RecoveryFailsKeeps == IInv /\ RecoveryFails => IInv'
<1> SUFFICES ASSUME IInv, RecoveryFails PROVE IInv'
  OBVIOUS
<1>1. TypeOK'
  BY ServerTypes DEF IInv
<1>2. /\ UNCHANGED <<callers, rec, actor, held, fate, logger, io, world, heard>>
      /\ server # "up" /\ server' = "down" /\ \A p \in Processes : handle'[p] = "none"
  BY DEF RecoveryFails
<1>3. ASSUME NEW p \in Processes PROVE Sound(p)'
  <2>1. Sound(p) /\ actor[p] = "none"
    BY <1>2 DEF IInv, Sound, Placed
  <2>2. Placed(p)'
    BY <1>2, <2>1 DEF Sound, Placed, Untouched, world
  <2>3. Spawned(p)' /\ Shown(p)'
    BY <1>2, <2>1 DEF Sound, Spawned, Shown, GroupAlive, world
  <2>4. Counted(p)' /\ Heard(p)'
    BY ZenonT(60), <1>2, <2>1 DEF Sound, Counted, Heard, Placed, world
  <2>5. QED
    BY <2>2, <2>3, <2>4 DEF Sound
<1>4. Calling' /\ ShuttingDown'
  BY <1>2 DEF IInv, Calling, ShuttingDown, callers
<1>5. Admitted'
  BY <1>2, FewerAreAdmitted DEF IInv
<1>6. QED
  BY <1>1, <1>3, <1>4, <1>5 DEF IInv

LEMMA RecoverKeepsAll ==
  ASSUME IInv, NEW p \in Processes, Recover(p)
  PROVE  IInv'
<1>1. TypeOK'
  BY RecoverTypes DEF IInv
<1>2. /\ UNCHANGED <<server, callers, actor>> /\ server # "up"
  BY DEF Recover
<1>3. Sound(p)' /\ rec'[p].st \notin Active /\ \A q \in Processes \ {p} : Alone(q)
  BY RecoverKeeps DEF IInv
<1>4. \A q \in Processes : Sound(q)'
  BY <1>2, <1>3, AloneIsSound DEF IInv
<1>5. Admitted'
  BY <1>3, FewerAreAdmitted DEF IInv, Alone
<1>6. Calling' /\ ShuttingDown'
  BY <1>2 DEF IInv, Calling, ShuttingDown, callers
<1>7. QED
  BY <1>1, <1>4, <1>5, <1>6 DEF IInv

-----------------------------------------------------------------------------
(* Theorems                                                                  *)

LEMMA HoldsInitially == Init => IInv
<1> SUFFICES ASSUME Init PROVE IInv
  OBVIOUS
<1>1. TypeOK
  BY TypesInitially
<1>2. ASSUME NEW p \in Processes PROVE Sound(p)
  <2>1. /\ rec[p] = Absent /\ handle[p] = "none" /\ actor[p] = "none" /\ ~held[p]
        /\ fate[p] = NewFate /\ logger[p] = "none" /\ io[p] = NoIO
        /\ log[p] = NoLog /\ group[p] = "none" /\ guard[p] = "none" /\ runs[p] = 0
        /\ heard[p] = <<>>
    BY DEF Init
  <2>2. rec[p].st = "absent"
    BY <2>1 DEF Absent
  <2>3. Placed(p)
    BY <2>1 DEF Placed, Untouched
  <2>4. Spawned(p)
    BY <2>1, <2>2 DEF Spawned, GroupAlive, Supervising, Watching, Terminal
  <2>5. Shown(p) /\ Counted(p) /\ Heard(p)
    BY <2>1 DEF Shown, Counted, Heard
  <2>6. QED
    BY <2>3, <2>4, <2>5 DEF Sound
<1>3. Calling /\ ShuttingDown
  BY DEF Init, Calling, ShuttingDown, Idle
<1>4. Admitted
  <2>1. \A p \in Processes : rec[p].st \notin Active
    BY DEF Init, Absent, Active
  <2>2. ActiveIn(rec) = {} /\ \A p \in Processes : Of(p) = {}
    BY <2>1 DEF ActiveIn, Of
  <2>3. QED
    BY <2>2, FS_EmptySet, ConstantsAssumption DEF Admitted
<1>5. QED
  BY <1>1, <1>2, <1>3, <1>4 DEF IInv

LEMMA HoldsStutter == IInv /\ UNCHANGED vars => IInv'
<1> SUFFICES ASSUME IInv, UNCHANGED vars PROVE IInv'
  OBVIOUS
<1> USE DEF vars, callers, memory, world
<1>1. TypeOK'
  BY ZenonT(60) DEF IInv, TypeOK
<1>2. \A p \in Processes : Sound(p)'
  BY AloneIsSound DEF IInv, Alone
<1>3. Admitted'
  BY FewerAreAdmitted DEF IInv
<1>4. Calling' /\ ShuttingDown'
  BY DEF IInv, Calling, ShuttingDown
<1>5. QED
  BY <1>1, <1>2, <1>3, <1>4 DEF IInv

\* Records, actors, groups, logs and published events of every process agree at
\* each stage of its actor, its calls hold the start lock when they rely on it,
\* and the admitted records stay within both quotas.
THEOREM Invariant == Spec => []IInv
<1>1. Init => IInv
  BY HoldsInitially
<1>2. IInv /\ [Next]_vars => IInv'
  <2> SUFFICES ASSUME IInv, [Next]_vars PROVE IInv'
    OBVIOUS
  <2>1. ASSUME NEW c \in Callers, NEW p \in Processes, StartCall(c, p) \/ StopCall(c, p)
        PROVE  IInv'
    BY <2>1, StartCallKeeps, StopCallKeeps
  <2>2. ASSUME NEW c \in Callers, ShutdownCall(c) \/ CallDropped(c) \/ CallerReturns(c)
        PROVE  IInv'
    BY <2>2, ShutdownCallKeeps, ReturnKeeps, StartLocksKeeps, StartAdmittedKeeps,
       StartRegistersKeeps, ShutdownListsKeeps, ShutdownReturnsKeeps DEF CallerReturns
  <2>3. ASSUME NEW p \in Processes, Step(p) PROVE IInv'
    BY <2>3, StepKeeps
  <2>4. ASSUME NEW p \in Processes, Recover(p) PROVE IInv'
    BY <2>4, RecoverKeepsAll
  <2>5. CASE Crash \/ Restart \/ RecoveryFails \/ RecoveryEnds
    BY <2>5, CrashKeeps, RestartKeeps, RecoveryFailsKeeps
  <2>6. CASE UNCHANGED vars
    BY <2>6, HoldsStutter
  <2>7. QED
    BY <2>1, <2>2, <2>3, <2>4, <2>5, <2>6 DEF Next, Step
<1>3. QED
  BY <1>1, <1>2, PTL DEF Spec

\* What clients hear of a process is in order, its output is durable and a
\* recovered record covers it (event_lock, OutputLog::persist, recover_interrupted).
THEOREM EventsStayCovered == Spec => []EventsAreCovered
<1>1. IInv => EventsAreCovered
  <2> SUFFICES ASSUME IInv PROVE EventsAreCovered
    OBVIOUS
  <2>1. TypeOK /\ \A p \in Processes : Counted(p) /\ Heard(p)
    BY DEF IInv, Sound
  <2>2. EventsIncrease /\ AnnouncedOutputIsDurable
    BY <2>1 DEF Heard, EventsIncrease, AnnouncedOutputIsDurable
  <2>3. ASSUME NEW p \in Processes, handle[p] = "cached"
        PROVE  /\ rec[p].end >= log[p].end
               /\ heard[p] # <<>> => rec[p].seq >= Last(heard[p]).seq
    <3>1. rec[p].end >= log[p].end
      BY <2>1, <2>3, Numbers DEF Counted
    <3>2. ASSUME heard[p] # <<>> PROVE rec[p].seq >= Last(heard[p]).seq
      <4>1. heard[p] \in Seq(Events)
        BY <2>1 DEF TypeOK, Events
      <4>2. Len(heard[p]) \in 1..Len(heard[p]) /\ Last(heard[p]) = heard[p][Len(heard[p])]
        BY <3>2, <4>1 DEF Last
      <4>3. QED
        BY <2>1, <2>3, <4>2, Numbers DEF Heard
    <3>3. QED
      BY <3>1, <3>2
  <2>4. QED
    BY <2>1, <2>2, <2>3 DEF EventsAreCovered, RecoveryCoversEvents
<1>2. QED
  BY <1>1, Invariant, PTL

\* A published end is the last event, stays the status of the record, and no
\* write of the actor is refused (replace_process, persist_and_publish_process_event).
THEOREM EndsStayFinal == Spec => []EndsAreFinal
<1>1. IInv => EndsAreFinal
  <2> SUFFICES ASSUME IInv PROVE EndsAreFinal
    OBVIOUS
  <2>1. AnnouncedEndIsFinal
    BY DEF IInv, Sound, Heard, AnnouncedEndIsFinal
  <2>2. ASSUME NEW p \in Processes, held[p] PROVE Accepts(rec[p], snap[p])
    <3>1. Sound(p) /\ TypeOK
      BY DEF IInv
    <3>2. actor[p] \in Announcing
      BY <2>2, <3>1 DEF Sound, Counted
    <3>3. LegalStatus(rec[p].st, snap[p].st)
      BY <3>1, <3>2 DEF Sound, Shown, Announcing, LegalStatus, Terminal
    <3>4. snap[p].seq >= rec[p].seq /\ snap[p].end >= rec[p].end
      BY <3>1, <3>2, Numbers DEF Sound, Counted, Announcing
    <3>5. QED
      BY <3>3, <3>4 DEF Accepts
  <2>3. QED
    BY <2>1, <2>2 DEF EndsAreFinal, ActorWritesAreLegal
<1>2. QED
  BY <1>1, Invariant, PTL

\* While a member of the group lives, a guardian is there to kill it when the
\* app-server dies (ParentDeathGuardian).
THEOREM GroupsStayGuarded == Spec => []GroupIsGuarded
<1>1. IInv => GroupIsGuarded
  BY DEF IInv, Sound, Spawned, GroupIsGuarded, Watching
<1>2. QED
  BY <1>1, Invariant, PTL

\* get and list show an end other than Lost only of a dead group.
THEOREM ShownEndsAreDead == Spec => []ShownEndMeansDead
<1>1. IInv => ShownEndMeansDead
  <2> SUFFICES ASSUME IInv, NEW p \in Processes, Seen(p).st \in Terminal \ {"Lost"}, GroupAlive(p)
               PROVE  FALSE
    BY DEF ShownEndMeansDead
  <2>1. TypeOK /\ Sound(p)
    BY DEF IInv
  <2>2. rec[p].st \notin Terminal \ {"Lost"}
    BY <2>1 DEF Sound, Spawned
  <2>3. CASE actor[p] = "none"
    BY <2>1, <2>2, <2>3 DEF Seen, Sound, Placed, Counted, TypeOK
  <2>4. CASE actor[p] # "none"
    <3>1. actor[p] \in {"init", "logged", "arming", "starting", "running", "stopping"}
      BY <2>1, <2>4 DEF TypeOK, Announcing, Sound, Spawned, Leaving
    <3>2. snap[p].st \in Active /\ handle[p] = "actor"
      BY <2>1, <2>4, <3>1 DEF Sound, Shown, Placed, Active
    <3>3. QED
      BY <3>2 DEF Seen, Active, Terminal
  <2>5. QED
    BY <2>3, <2>4
<1>2. QED
  BY <1>1, Invariant, PTL

\* One origin, one spawn (get_process_by_origin under start_lock).
THEOREM CommandsRunOnce == Spec => []CommandRunsOnce
<1>1. IInv => CommandRunsOnce
  BY DEF IInv, Sound, Spawned, CommandRunsOnce
<1>2. QED
  BY <1>1, Invariant, PTL

\* Living groups of this server life stay within both quotas, however many start
\* requests race: each of them has an active record (validate_quota under start_lock).
THEOREM QuotasHold == Spec => []WithinQuotas
<1>1. IInv => WithinQuotas
  <2> SUFFICES ASSUME IInv PROVE WithinQuotas
    OBVIOUS
  <2> DEFINE here == {p \in Processes : GroupAlive(p) /\ actor[p] # "none"}
             of(p) == {q \in here : ThreadOf[q] = ThreadOf[p]}
  <2>1. here \subseteq ActiveIn(rec)
    <3> SUFFICES ASSUME NEW p \in Processes, GroupAlive(p), actor[p] # "none"
                 PROVE  rec[p].st \in Active
      BY DEF ActiveIn
    <3>1. TypeOK /\ Sound(p)
      BY DEF IInv
    <3>2. actor[p] \in {"init", "logged", "arming", "starting", "running", "stopping"}
      BY <3>1 DEF TypeOK, Announcing, Sound, Spawned, Leaving
    <3>3. QED
      BY <3>1, <3>2 DEF Sound, Shown, Active
  <2>2. \A p \in Processes : of(p) \subseteq Of(p)
    BY <2>1 DEF Of
  <2>3. IsFiniteSet(ActiveIn(rec)) /\ \A p \in Processes : IsFiniteSet(Of(p))
    BY FS_Subset DEF IInv, Admitted, Of
  <2> HIDE DEF here, of
  <2>4. /\ Cardinality(here) <= Cardinality(ActiveIn(rec))
        /\ IsFiniteSet(here)
        /\ \A p \in Processes : Cardinality(of(p)) <= Cardinality(Of(p)) /\ IsFiniteSet(of(p))
    BY <2>1, <2>2, <2>3, FS_Subset
  <2>5. /\ Cardinality(ActiveIn(rec)) \in Nat /\ Cardinality(here) \in Nat
        /\ \A p \in Processes : Cardinality(Of(p)) \in Nat /\ Cardinality(of(p)) \in Nat
    BY <2>3, <2>4, FS_CardinalityType
  <2>6. Cardinality(here) <= MaxActive /\ \A p \in Processes : Cardinality(of(p)) <= MaxPerThread
    BY <2>4, <2>5, ConstantsAssumption DEF IInv, Admitted
  <2>7. QED
    BY <2>6 DEF WithinQuotas, here, of
<1>2. QED
  BY <1>1, Invariant, PTL

\* When shutdown_all has returned Ok no group is alive and none will be started,
\* whatever starts it raced with.
THEOREM ShutdownIsComplete == Spec => []ShutdownLeavesNothing
<1>1. IInv => ShutdownLeavesNothing
  BY DEF IInv, Sound, Spawned, ShuttingDown, Leaving, ShutdownLeavesNothing
<1>2. QED
  BY <1>1, Invariant, PTL

=============================================================================
