-------------------------------- MODULE Images --------------------------------
(***************************************************************************)
(* Image artifacts: a file in the Thread Workspace and a record in the     *)
(* store that names it (crates/kody-core/src/image.rs).  Three kinds of    *)
(* request make them: direct generation (the image/generate call), the     *)
(* generate_image tool of a running Turn, and the uploads of a new Turn.   *)
(* Each writes its files one by one through a temporary file and then      *)
(* commits their records together; a failure removes the files again.      *)
(*                                                                         *)
(* An artifact is its request and the position of the image in it.  What   *)
(* an image contains is abstracted to whether its dimensions are accepted: *)
(* the other checks are made before anything is written.  Files survive a  *)
(* crash of the process, memory does not; the store is its two states, the *)
(* one in memory and the snapshot on disk (module JsonStore has the rest). *)
(***************************************************************************)
EXTENDS Naturals, FiniteSets, SequencesExt

CONSTANTS
  Directs,    \* image/generate calls
  Tools,      \* generate_image calls of Turns
  Uploads,    \* turn/start calls with images
  Threads,
  MaxCalls,   \* bound: requests that are made
  MaxOutputs, \* bound: images of a request
  MaxFaults   \* bound: failed writes, renames, removals and commits, dropped calls, crashes

ASSUME KindsAssumption ==
  Directs \cap Tools = {} /\ Directs \cap Uploads = {} /\ Tools \cap Uploads = {}
ASSUME BoundsAssumption == MaxCalls \in Nat /\ MaxOutputs \in Nat \ {0} /\ MaxFaults \in Nat

Requests  == Directs \cup Tools \cup Uploads
Artifacts == [request : Requests, n : 1..MaxOutputs]

VARIABLES
  home,       \* the Thread of each request
  pc,         \* stage of each request
  outputs,    \* its images: TRUE where the dimensions are accepted
  staged,     \* length of the artifacts vector of persist_outputs
  cleaned,    \* how many of those remove_artifact_files has tried
  cancelled,  \* tool calls whose Turn was cancelled
  running,    \* Threads with status Running
  memory,     \* artifact records of the store
  disk,       \* those of its snapshot
  files,      \* artifacts with a file under artifacts/
  temps,      \* artifacts with a file under tmp/
  stuck,      \* history: files whose removal failed
  ahead,      \* history: records on disk of a commit that reported an error
  faults

request == <<home, pc, outputs, staged, cleaned, cancelled>>
store   == <<memory, disk, ahead>>
folder  == <<files, temps, stuck>>
vars    == <<request, store, folder, running, faults>>

Init ==
  /\ home \in [Requests -> Threads]
  /\ pc = [r \in Requests |-> "idle"] /\ outputs = [r \in Requests |-> <<>>]
  /\ staged = [r \in Requests |-> 0] /\ cleaned = [r \in Requests |-> 0]
  /\ cancelled = {} /\ running = {}
  /\ memory = {} /\ disk = {} /\ ahead = {}
  /\ files = {} /\ temps = {} /\ stuck = {}
  /\ faults = 0

Fault == faults < MaxFaults /\ faults' = faults + 1

Over      == {"done", "failed", "dropped"}
Active(r) == pc[r] \notin Over \cup {"idle"}
Becomes(r, stage) == pc' = [pc EXCEPT ![r] = stage]

\* The calls a Turn on Thread h waits for.
Waits(h) == {r \in Tools \cup Uploads : home[r] = h /\ Active(r)}

-----------------------------------------------------------------------------
(***************************************************************************)
(* Admission                                                               *)
(***************************************************************************)

\* A direct generation holds the lock of its Thread until it returns.
HoldsLock(r) == r \in Directs /\ Active(r)

\* The lock is free and the Thread is Idle, which is looked at once.
AdmitDirect(r) ==
  /\ r \in Directs
  /\ ~\E other \in Directs \ {r} : home[other] = home[r] /\ HoldsLock(other)
  /\ home[r] \notin running
  /\ Becomes(r, "asking")
  /\ UNCHANGED running

\* A Turn runs its tools one at a time.
AdmitTool(r) ==
  /\ r \in Tools
  /\ home[r] \in running /\ Waits(home[r]) = {}
  /\ Becomes(r, "asking")
  /\ UNCHANGED running

\* prepare_turn has made the Thread Running and stages the uploads, which
\* it has all checked before the first is written.
AdmitUpload(r) ==
  /\ r \in Uploads
  /\ home[r] \notin running
  /\ running' = running \cup {home[r]}
  /\ Becomes(r, "asking")

\* A prepare_turn that fails makes its Thread Idle again.
GiveBack(r) == running' = IF r \in Uploads THEN running \ {home[r]} ELSE running

\* The request is refused: lock taken, Thread busy, unknown provider, no model
\* or arguments out of range.
Refuse(r) ==
  /\ r \notin Uploads
  /\ Becomes(r, "failed")
  /\ UNCHANGED running

Admit(r) ==
  /\ pc[r] = "idle" /\ Cardinality({other \in Requests : pc[other] # "idle"}) < MaxCalls
  /\ AdmitDirect(r) \/ AdmitTool(r) \/ AdmitUpload(r) \/ Refuse(r)
  /\ UNCHANGED <<home, outputs, staged, cleaned, cancelled, store, folder, faults>>

(***************************************************************************)
(* The provider                                                            *)
(***************************************************************************)
\* A count within the request, formats and sizes as validated; an upload has
\* its dimensions checked here, a generated image has not.  Nothing looks at
\* the images behind one that is refused.
Answers(r) ==
  {out \in SeqOf(BOOLEAN, MaxOutputs) :
     /\ out # <<>> /\ FALSE \notin Range(Front(out))
     /\ r \in Uploads => Last(out)}

Generate(r) ==
  /\ pc[r] = "asking"
  /\ outputs' \in {[outputs EXCEPT ![r] = out] : out \in Answers(r)}
  /\ Becomes(r, "writing")
  /\ UNCHANGED <<home, staged, cleaned, cancelled, store, folder, running, faults>>

\* The provider fails, its answer is invalid, or the call was cancelled
\* meanwhile; for uploads, one of them is invalid.
GenerateFails(r) ==
  /\ pc[r] = "asking"
  /\ Becomes(r, "failed") /\ GiveBack(r)
  /\ UNCHANGED <<home, outputs, staged, cleaned, cancelled, store, folder, faults>>

-----------------------------------------------------------------------------
(***************************************************************************)
(* persist_outputs                                                         *)
(***************************************************************************)
Nth(r, n)  == [request |-> r, n |-> n]
Current(r) == Nth(r, staged[r] + 1)
Own(r)     == {Nth(r, n) : n \in 1..staged[r]}

\* The loop over the outputs has ended.
Complete(r) == staged[r] = Len(outputs[r])

\* The next output is looked at.  Dimensions that are refused end the call
\* with ? and leave the earlier files behind; the other exits remove them.
Write(r) ==
  /\ pc[r] = "writing" /\ ~Complete(r)
  /\ \/ /\ r \in cancelled
        /\ Becomes(r, "cleaning")
        /\ UNCHANGED <<temps, running, faults>>
     \/ /\ r \notin cancelled /\ ~outputs[r][staged[r] + 1]
        /\ Becomes(r, "failed") /\ GiveBack(r)
        /\ UNCHANGED <<temps, faults>>
     \/ /\ r \notin cancelled /\ outputs[r][staged[r] + 1]
        /\ temps' = temps \cup {Current(r)}
        /\ \/ Becomes(r, "renaming") /\ UNCHANGED faults
           \/ Becomes(r, "discarding") /\ Fault  \* the write or its sync fails
        /\ UNCHANGED running
  /\ UNCHANGED <<home, outputs, staged, cleaned, cancelled, store, files, stuck>>

Rename(r) ==
  /\ pc[r] = "renaming"
  /\ \/ /\ temps' = temps \ {Current(r)} /\ files' = files \cup {Current(r)}
        /\ staged' = [staged EXCEPT ![r] = @ + 1]
        /\ Becomes(r, "writing")
        /\ UNCHANGED faults
     \/ /\ Fault
        /\ Becomes(r, "discarding")
        /\ UNCHANGED <<temps, files, staged>>
  /\ UNCHANGED <<home, outputs, cleaned, cancelled, store, stuck, running>>

\* The temporary file of a failed write is removed; an error is ignored.
Discard(r) ==
  /\ pc[r] = "discarding"
  /\ \/ temps' = temps \ {Current(r)} /\ UNCHANGED <<stuck, faults>>
     \/ Fault /\ stuck' = stuck \cup {Current(r)} /\ UNCHANGED temps
  /\ Becomes(r, "cleaning")
  /\ UNCHANGED <<home, outputs, staged, cleaned, cancelled, store, files, running>>

(***************************************************************************)
(* The commit of the records                                               *)
(***************************************************************************)
\* Mutant: memory is replaced before the snapshot is written.
MemoryFirst(r) == memory \cup Own(r)

\* The state in memory when a commit reports an error.
AfterError(r) == memory

\* append_image_generation, insert_artifacts or insert_turn_input: all records
\* in one snapshot, with the messages or the Turn that name them.
Record(r) ==
  /\ pc[r] = "writing" /\ Complete(r)
  /\ memory' = memory \cup Own(r) /\ disk' = memory'
  /\ ahead' = ahead \cap memory'
  /\ Becomes(r, "done")
  /\ UNCHANGED <<home, outputs, staged, cleaned, cancelled, folder, running, faults>>

\* It fails before the snapshot is renamed into place, or behind it, when the
\* directory is synced.
RecordFails(r) ==
  /\ pc[r] = "writing" /\ Complete(r)
  /\ Fault
  /\ memory' = AfterError(r)
  /\ \/ UNCHANGED <<disk, ahead>>
     \/ disk' = memory \cup Own(r) /\ ahead' = (ahead \cap memory) \cup Own(r)
  /\ Becomes(r, "cleaning")
  /\ UNCHANGED <<home, outputs, staged, cleaned, cancelled, folder, running>>

-----------------------------------------------------------------------------
(***************************************************************************)
(* remove_artifact_files                                                   *)
(***************************************************************************)
\* Mutant: the last file is forgotten.
AllButOne(r)  == cleaned[r] + 1 < staged[r]

Leftover(r) == cleaned[r] < staged[r]

\* One file after the other; an error is ignored.
RemoveFile(r) ==
  /\ pc[r] = "cleaning" /\ Leftover(r)
  /\ cleaned' = [cleaned EXCEPT ![r] = @ + 1]
  /\ LET a == Nth(r, cleaned[r] + 1) IN
     \/ files' = files \ {a} /\ UNCHANGED <<stuck, faults>>
     \/ Fault /\ stuck' = stuck \cup {a} /\ UNCHANGED files
  /\ UNCHANGED <<home, pc, outputs, staged, cancelled, store, temps, running>>

\* The call returns its error.
Cleaned(r) ==
  /\ pc[r] = "cleaning" /\ ~Leftover(r)
  /\ Becomes(r, "failed") /\ GiveBack(r)
  /\ UNCHANGED <<home, outputs, staged, cleaned, cancelled, store, folder, faults>>

-----------------------------------------------------------------------------
(***************************************************************************)
(* What happens around a request                                           *)
(***************************************************************************)
\* A Turn without uploads starts, or a Turn ends that waits for nothing.
TurnStarts(h) ==
  /\ h \notin running
  /\ running' = running \cup {h}
  /\ UNCHANGED <<request, store, folder, faults>>

TurnEnds(h) ==
  /\ h \in running /\ Waits(h) = {}
  /\ running' = running \ {h}
  /\ UNCHANGED <<request, store, folder, faults>>

\* Only a tool call can be cancelled: the others are given a token of their own.
Cancel(r) ==
  /\ r \in Tools /\ Active(r)
  /\ cancelled' = cancelled \cup {r}
  /\ UNCHANGED <<home, pc, outputs, staged, cleaned, store, folder, running, faults>>

\* The HTTP client is gone and its call is dropped where it stands; a rename
\* handed to the blocking pool still happens, that of an image or of the snapshot.
Drop(r) ==
  /\ r \in Directs \cup Uploads /\ Active(r)
  /\ Fault
  /\ Becomes(r, "dropped")
  /\ \/ UNCHANGED <<files, temps, disk>>
     \/ /\ pc[r] = "renaming"
        /\ temps' = temps \ {Current(r)} /\ files' = files \cup {Current(r)}
        /\ UNCHANGED disk
     \/ /\ pc[r] = "writing" /\ Complete(r)
        /\ disk' = memory \cup Own(r)
        /\ UNCHANGED <<files, temps>>
  /\ UNCHANGED <<home, outputs, staged, cleaned, cancelled, memory, ahead, stuck, running>>

\* Any other mutation writes the state in memory, and with it undoes what the
\* snapshot had ahead of it.
OtherMutation ==
  /\ disk # memory
  /\ disk' = memory /\ ahead' = ahead \cap memory
  /\ UNCHANGED <<request, memory, folder, running, faults>>

\* The process ends and starts again on its snapshot; recovery makes the
\* Threads Idle and leaves the folders as they are.
Crash ==
  /\ Fault
  /\ memory' = disk
  /\ pc' = [r \in Requests |-> IF Active(r) THEN "dropped" ELSE pc[r]]
  /\ running' = {}
  /\ UNCHANGED <<home, outputs, staged, cleaned, cancelled, disk, ahead, folder>>

Step(r) ==
  \/ Admit(r) \/ Generate(r) \/ GenerateFails(r) \/ Write(r) \/ Rename(r) \/ Discard(r)
  \/ Record(r) \/ RecordFails(r) \/ RemoveFile(r) \/ Cleaned(r)

Next ==
  \/ \E r \in Requests : Step(r) \/ Cancel(r) \/ Drop(r)
  \/ \E h \in Threads : TurnStarts(h) \/ TurnEnds(h)
  \/ OtherMutation \/ Crash

Spec == Init /\ [][Next]_vars

-----------------------------------------------------------------------------
(***************************************************************************)
(* Properties                                                              *)
(***************************************************************************)
Stages == Over \cup {"idle", "asking", "writing", "renaming", "discarding", "cleaning"}

\* The state has its type, and remove_artifact_files stays within the
\* artifacts that persist_outputs or its caller hands it.
TypeOK ==
  /\ home \in [Requests -> Threads]
  /\ pc \in [Requests -> Stages]
  /\ outputs \in [Requests -> SeqOf(BOOLEAN, MaxOutputs)]
  /\ staged \in [Requests -> 0..MaxOutputs] /\ cleaned \in [Requests -> 0..MaxOutputs]
  /\ \A r \in Requests : cleaned[r] <= staged[r] /\ staged[r] <= Len(outputs[r])
  /\ cancelled \subseteq Tools /\ running \subseteq Threads
  /\ memory \subseteq Artifacts /\ disk \subseteq Artifacts /\ ahead \subseteq Artifacts
  /\ files \subseteq Artifacts /\ temps \subseteq Artifacts /\ stuck \subseteq Artifacts
  /\ faults \in 0..MaxFaults

\* read_artifact_from_store, for a client or the view_image tool, given a record.
Readable(a) == a \in files

\* read_artifact_from_store finds the file of every artifact the store knows,
\* however its request ended and wherever the process stopped.  The exception
\* is a record of a commit that reported an error after its snapshot was in
\* place: the caller removed the files, and a crash brings the record back.
RecordedArtifactReads == \A a \in memory \ ahead : Readable(a)

\* A request that returned an error leaves no file behind, neither its images
\* nor a temporary file: nothing would ever collect them.  The exceptions are
\* files whose removal failed and an image with refused dimensions, on which
\* persist_outputs leaves the loop without removing the earlier files.
FailedRequestLeavesNothing ==
  \A r \in Requests : pc[r] = "failed" /\ FALSE \notin Range(outputs[r]) =>
    \A n \in 1..MaxOutputs : Nth(r, n) \in files \cup temps => Nth(r, n) \in stuck

\* The records of one request are stored together, in memory and on disk: a
\* message or a tool result names all the images of its request or none.
RecordedTogether ==
  \A r \in Requests : \A records \in {memory, disk} :
    LET known == {n \in 1..MaxOutputs : Nth(r, n) \in records}
    IN  known = {} \/ known = 1..Len(outputs[r])

\* While a direct generation is on its way no other one works on its Thread,
\* so their pairs of messages cannot be mixed.
OneGenerationPerThread ==
  \A r, other \in Directs :
    Active(r) /\ Active(other) /\ home[r] = home[other] => r = other

\* What the store knows of images can be shown, one request like the other and
\* none in the midst of another of its Thread.
RecordsAreWhole ==
  TypeOK /\ RecordedArtifactReads /\ RecordedTogether /\ OneGenerationPerThread
===============================================================================
