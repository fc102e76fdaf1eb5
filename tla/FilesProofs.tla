------------------------------ MODULE FilesProofs ------------------------------
(***************************************************************************)
(* Theorems about the files the runtime keeps beside its snapshot.         *)
(*                                                                         *)
(* Part 1, module Images: for any set of requests and Threads, any number  *)
(* of images per request and any number of faults, a record has its file   *)
(* and a request that failed leaves neither record nor file.               *)
(*                                                                         *)
(* Part 2, module OutputLog: for every limit and any number of readers,    *)
(* the log holds the tail of the output, its file decodes to it, a page is *)
(* an unbroken stretch, and no cursor a client holds is ever refused.      *)
(***************************************************************************)
EXTENDS Images, OutputLog, WellFoundedInduction, TLAPS

-----------------------------------------------------------------------------
(* Images: the inductive invariant                                           *)

Staging == {"writing", "renaming", "discarding"}
Settled == {"cleaning", "done", "failed", "dropped"}
Records == memory \cup disk

\* How far the counters are at each stage.
CountersOK ==
  \A r \in Requests :
    /\ pc[r] \in {"idle", "asking"} => outputs[r] = <<>>
    /\ pc[r] \in Staging \cup {"idle", "asking"} => cleaned[r] = 0
    /\ pc[r] \in {"renaming", "discarding"} => ~Complete(r)

\* The files that a request at work has staged are there.
StagedThere ==
  \A r \in Requests : \A n \in 1..staged[r] : pc[r] \in Staging => Nth(r, n) \in files

\* Records are of requests that have left persist_outputs with all of their
\* images, and come all together.
Committed ==
  \A r \in Requests : \A records \in {memory, disk} : \A n \in 1..MaxOutputs :
    Nth(r, n) \in records =>
      /\ pc[r] \in Settled
      /\ Complete(r) /\ n <= staged[r]
      /\ \A k \in 1..staged[r] : Nth(r, k) \in records

\* A record that is not ahead has its file, also if only the snapshot knows it.
Backed ==
  \A r \in Requests : \A n \in 1..MaxOutputs :
    Nth(r, n) \in Records \ ahead => Nth(r, n) \in files

\* What is about to be removed is recorded at most by a commit that failed.
Retreating ==
  \A r \in Requests : \A n \in 1..MaxOutputs :
    pc[r] = "cleaning" /\ Nth(r, n) \in Records => Nth(r, n) \in ahead

\* The files a request has left behind, at each stage.
TemporaryExpected(r, n) ==
  Nth(r, n) \in temps =>
    \/ pc[r] \in {"renaming", "discarding"} /\ n = staged[r] + 1
    \/ pc[r] = "cleaning" /\ Nth(r, n) \in stuck
    \/ pc[r] = "failed" /\ (Nth(r, n) \in stuck \/ FALSE \in Range(outputs[r]))
    \/ pc[r] = "dropped"

FileExpected(r, n) ==
  Nth(r, n) \in files =>
    \/ pc[r] \in Staging /\ n <= staged[r]
    \/ pc[r] = "cleaning" /\ (Nth(r, n) \in stuck \/ n \in cleaned[r] + 1..staged[r])
    \/ pc[r] = "failed" /\ (Nth(r, n) \in stuck \/ FALSE \in Range(outputs[r]))
    \/ pc[r] \in {"done", "dropped"}

LeftBehind ==
  \A r \in Requests : \A n \in 1..MaxOutputs : TemporaryExpected(r, n) /\ FileExpected(r, n)

IInv ==
  /\ TypeOK
  /\ CountersOK
  /\ StagedThere
  /\ Committed
  /\ Backed
  /\ Retreating
  /\ LeftBehind
  /\ OneGenerationPerThread

-----------------------------------------------------------------------------
(* Artifacts                                                                 *)

\* An artifact is named by its request and its place, and by nothing else.
LEMMA NthInjective ==
  \A r, s, n, m : Nth(r, n) = Nth(s, m) <=> r = s /\ n = m
BY DEF Nth

\* What a request owns are its first staged artifacts.
LEMMA OwnIsStaged ==
  ASSUME NEW r, NEW s, NEW n
  PROVE  Nth(s, n) \in Own(r) <=> s = r /\ n \in 1..staged[r]
BY NthInjective DEF Own

\* Every place of a request is an artifact, and there are no others.
LEMMA ArtifactsAreNth ==
  /\ \A r \in Requests : \A n \in 1..MaxOutputs : Nth(r, n) \in Artifacts
  /\ \A a \in Artifacts : a.request \in Requests /\ a.n \in 1..MaxOutputs
                          /\ a = Nth(a.request, a.n)
BY DEF Nth, Artifacts

\* What the answers of a provider are: sequences of at most MaxOutputs images.
LEMMA OutputsAreShort ==
  ASSUME NEW out \in SeqOf(BOOLEAN, MaxOutputs)
  PROVE  /\ out \in Seq(BOOLEAN)
         /\ Len(out) \in 0..MaxOutputs
         /\ DOMAIN out = 1..Len(out)
<1>1. PICK m \in 0..MaxOutputs : out \in [1..m -> BOOLEAN]
  BY DEF SeqOf
<1>2. m \in Nat
  BY BoundsAssumption
<1>3. out \in Seq(BOOLEAN) /\ Len(out) = m
  BY <1>1, <1>2
<1>4. QED
  BY <1>1, <1>3

-----------------------------------------------------------------------------
(* Types                                                                     *)

\* The types hold initially.
LEMMA TypesInitially == Init => TypeOK
<1>1. <<>> \in SeqOf(BOOLEAN, MaxOutputs)
  BY BoundsAssumption DEF SeqOf
<1>2. QED
  BY <1>1, BoundsAssumption DEF Init, TypeOK, Over, Stages

\* Each step keeps them.
LEMMA TypesKept == TypeOK /\ CountersOK /\ [Next]_vars => TypeOK'
<1> SUFFICES ASSUME TypeOK, CountersOK, [Next]_vars PROVE TypeOK'
  OBVIOUS
<1> USE BoundsAssumption DEF TypeOK, request, store, folder
<1>s. {"idle", "asking", "writing", "renaming", "discarding", "cleaning", "done", "failed",
       "dropped"} \subseteq Stages
  BY DEF Stages, Over
<1>p. \A r \in Requests : \A stage \in Stages :
        Becomes(r, stage) => pc' \in [Requests -> Stages]
  BY DEF Becomes
<1>f. Fault \/ UNCHANGED faults => faults' \in 0..MaxFaults
  BY DEF Fault
<1>0. \A r \in Requests : Len(outputs[r]) \in 0..MaxOutputs
  BY OutputsAreShort
<1>1. ASSUME NEW r \in Requests, Admit(r) PROVE TypeOK'
  BY <1>s, <1>p, <1>f, <1>1 DEF Admit, AdmitDirect, AdmitTool, AdmitUpload, Refuse
<1>2. ASSUME NEW r \in Requests, Generate(r) PROVE TypeOK'
  <2>1. PICK out \in Answers(r) : outputs' = [outputs EXCEPT ![r] = out]
    BY <1>2 DEF Generate
  <2>2. out \in SeqOf(BOOLEAN, MaxOutputs)
    BY DEF Answers
  <2>3. staged[r] = 0 /\ Len(out) \in 0..MaxOutputs
    BY <1>2, <2>2, OutputsAreShort DEF Generate, CountersOK
  <2>4. QED
    BY <1>s, <1>p, <1>f, <1>2, <2>1, <2>2, <2>3 DEF Generate
<1>3. ASSUME NEW r \in Requests,
             GenerateFails(r) \/ Cleaned(r) \/ Cancel(r)
      PROVE  TypeOK'
  BY <1>s, <1>p, <1>f, <1>3 DEF GenerateFails, Cleaned, Cancel, GiveBack
<1>4. ASSUME NEW r \in Requests, pc[r] \in Staging, ~Complete(r)
      PROVE  Current(r) \in Artifacts /\ staged[r] + 1 \in 1..Len(outputs[r])
  <2>1. staged[r] \in Nat /\ staged[r] < Len(outputs[r]) /\ Len(outputs[r]) <= MaxOutputs
    BY <1>0, <1>4 DEF Complete
  <2>2. staged[r] + 1 \in 1..Len(outputs[r]) /\ staged[r] + 1 \in 1..MaxOutputs
    BY <1>0, <2>1
  <2>3. QED
    BY <2>2, ArtifactsAreNth DEF Current
<1>5. ASSUME NEW r \in Requests, Write(r) \/ Rename(r) \/ Discard(r)
      PROVE  TypeOK'
  <2>1. ASSUME Write(r) \/ Discard(r) PROVE TypeOK'
    <3>1. temps' \subseteq Artifacts /\ stuck' \subseteq Artifacts
      BY <1>4, <2>1 DEF Write, Discard, CountersOK, Staging
    <3>2. pc' \in [Requests -> Stages] /\ running' \subseteq Threads
      BY <1>s, <1>p, <1>f, <2>1 DEF Write, Discard, GiveBack
    <3>3. faults' \in 0..MaxFaults
      BY <1>f, <2>1 DEF Write, Discard
    <3>4. QED
      BY <2>1, <3>1, <3>2, <3>3 DEF Write, Discard
  <2>2. ASSUME Rename(r) PROVE TypeOK'
    <3>1. Current(r) \in Artifacts /\ staged[r] + 1 \in 1..Len(outputs[r])
      BY <1>4, <2>2 DEF Rename, CountersOK, Staging
    <3>2. staged[r] + 1 \in 0..MaxOutputs /\ cleaned[r] = 0
      BY <1>0, <2>2, <3>1 DEF Rename, CountersOK, Staging
    <3>3. /\ staged' \in [Requests -> 0..MaxOutputs]
          /\ \A s \in Requests : cleaned[s] <= staged'[s] /\ staged'[s] <= Len(outputs[s])
      <4>1. CASE staged' = [staged EXCEPT ![r] = @ + 1]
        BY <1>0, <3>1, <3>2, <4>1
      <4>2. CASE UNCHANGED staged
        BY <4>2
      <4>3. QED
        BY <2>2, <4>1, <4>2 DEF Rename
    <3>4. temps' \subseteq Artifacts /\ files' \subseteq Artifacts
      BY <2>2, <3>1 DEF Rename
    <3>5. pc' \in [Requests -> Stages] /\ faults' \in 0..MaxFaults
      BY <1>s, <1>p, <1>f, <2>2 DEF Rename
    <3>6. QED
      BY <2>2, <3>3, <3>4, <3>5 DEF Rename
  <2>3. QED
    BY <1>5, <2>1, <2>2
<1>6. ASSUME NEW r \in Requests PROVE Own(r) \subseteq Artifacts
  <2>1. 1..staged[r] \subseteq 1..MaxOutputs
    OBVIOUS
  <2>2. QED
    BY <2>1, ArtifactsAreNth DEF Own
<1>7. ASSUME NEW r \in Requests, Record(r) \/ RecordFails(r) PROVE TypeOK'
  <2>1. /\ memory' \subseteq Artifacts /\ disk' \subseteq Artifacts
        /\ ahead' \subseteq Artifacts
    BY <1>6, <1>7 DEF Record, RecordFails, AfterError
  <2>2. pc' \in [Requests -> Stages] /\ faults' \in 0..MaxFaults
    BY <1>s, <1>p, <1>f, <1>7 DEF Record, RecordFails
  <2>3. QED
    BY <1>7, <2>1, <2>2 DEF Record, RecordFails
<1>8. ASSUME NEW r \in Requests, RemoveFile(r) PROVE TypeOK'
  <2>1. Nth(r, cleaned[r] + 1) \in Artifacts /\ cleaned[r] + 1 <= staged[r]
    BY <1>8, ArtifactsAreNth DEF RemoveFile, Leftover
  <2>2. QED
    BY SMTT(60), <1>s, <1>p, <1>f, <1>8, <2>1 DEF RemoveFile
<1>9. ASSUME NEW r \in Requests, Drop(r) PROVE TypeOK'
  BY SMTT(60), <1>s, <1>p, <1>f, <1>4, <1>6, <1>9 DEF Drop, CountersOK, Staging
<1>10. CASE (\E h \in Threads : TurnStarts(h) \/ TurnEnds(h)) \/ OtherMutation
            \/ UNCHANGED vars
  BY <1>10 DEF TurnStarts, TurnEnds, OtherMutation, vars
<1>11. CASE Crash
  BY <1>s, <1>p, <1>f, <1>11 DEF Crash
<1>12. QED
  BY <1>1, <1>2, <1>3, <1>5, <1>7, <1>8, <1>9, <1>10, <1>11 DEF Next, Step

-----------------------------------------------------------------------------
(* The invariant                                                             *)

Kept ==
  /\ CountersOK
  /\ StagedThere
  /\ Committed
  /\ Backed
  /\ Retreating
  /\ LeftBehind
  /\ OneGenerationPerThread

\* The steps of a request up to the first write.
LEMMA EarlyStepsKeep ==
  ASSUME IInv, TypeOK', NEW r \in Requests, Admit(r) \/ Generate(r) \/ GenerateFails(r)
  PROVE  Kept'
<1> USE DEF IInv, request, store, folder
<1>1. PICK stage \in {"asking", "failed", "writing"} :
        /\ Becomes(r, stage)
        /\ stage = "writing" => Generate(r)
        /\ stage # "writing" => UNCHANGED outputs
        /\ stage = "asking" => Admit(r)
  BY DEF Admit, Generate, GenerateFails, AdmitDirect, AdmitTool, AdmitUpload, Refuse
<1>2. /\ \A s \in Requests : pc'[s] = IF s = r THEN stage ELSE pc[s]
      /\ pc[r] \in {"idle", "asking"}
      /\ stage = "writing" => pc[r] = "asking"
  BY <1>1 DEF Becomes, TypeOK, Admit, Generate, GenerateFails
<1>3. /\ UNCHANGED <<home, staged, cleaned, memory, disk, ahead, files, temps, stuck>>
      /\ \A s \in Requests \ {r} : outputs'[s] = outputs[s]
  BY DEF Admit, Generate, GenerateFails, TypeOK
<1>4. staged[r] = 0 /\ cleaned[r] = 0
  <2>1. outputs[r] = <<>> /\ cleaned[r] = 0
    BY <1>2 DEF CountersOK
  <2>2. QED
    BY <2>1 DEF TypeOK
<1>5. CountersOK'
  BY <1>1, <1>2, <1>3, <1>4 DEF CountersOK, Staging, Complete
<1>6. StagedThere'
  BY <1>2, <1>3, <1>4 DEF StagedThere, Staging
<1>7. \A n \in 1..MaxOutputs : Nth(r, n) \notin memory \cup disk \cup files \cup temps
  BY <1>2 DEF Committed, Settled, LeftBehind, TemporaryExpected, FileExpected,
                    Staging
<1>8. Committed'
  BY <1>2, <1>3, <1>7 DEF Committed, Settled, Complete
<1>9. Backed' /\ Retreating'
  BY <1>2, <1>3 DEF Backed, Retreating, Records
<1>10. LeftBehind'
  <2>1. SUFFICES ASSUME NEW s \in Requests, NEW n \in 1..MaxOutputs
                 PROVE  TemporaryExpected(s, n)' /\ FileExpected(s, n)'
    BY DEF LeftBehind
  <2>2. CASE s = r
    BY <1>3, <1>7, <2>2 DEF TemporaryExpected, FileExpected
  <2>3. CASE s # r
    BY <1>2, <1>3, <2>3 DEF LeftBehind, TemporaryExpected, FileExpected
  <2>4. QED
    BY <2>2, <2>3
<1>11. OneGenerationPerThread'
  <2>1. CASE stage = "asking" /\ r \in Directs
    <3>1. AdmitDirect(r)
      BY <1>1, <2>1, KindsAssumption DEF Admit, AdmitTool, AdmitUpload, Refuse, Becomes, TypeOK
    <3>2. QED
      BY <1>2, <1>3, <3>1 DEF AdmitDirect, HoldsLock, OneGenerationPerThread, Active, Requests
  <2>2. CASE stage # "asking" \/ r \notin Directs
    BY <1>2, <1>3, <2>2 DEF OneGenerationPerThread, Active, Over, Requests
  <2>3. QED
    BY <2>1, <2>2
<1>12. QED
  BY <1>5, <1>6, <1>8, <1>9, <1>10, <1>11 DEF Kept

\* While a request writes its files nothing is recorded of it, and the Thread
\* stays its own.
LEMMA StoreWaits ==
  ASSUME IInv, NEW r \in Requests, pc[r] \in Staging,
         NEW stage \in Staging \cup Settled, Becomes(r, stage),
         UNCHANGED <<home, outputs, cleaned, memory, disk, ahead>>,
         \A s \in Requests \ {r} : staged'[s] = staged[s]
  PROVE  /\ \A s \in Requests : pc'[s] = IF s = r THEN stage ELSE pc[s]
         /\ \A n \in 1..MaxOutputs : Nth(r, n) \notin Records
         /\ Committed' /\ Retreating' /\ OneGenerationPerThread'
<1> USE DEF IInv
<1>1. \A s \in Requests : pc'[s] = IF s = r THEN stage ELSE pc[s]
  BY DEF Becomes, TypeOK
<1>2. \A n \in 1..MaxOutputs : Nth(r, n) \notin Records
  BY DEF Committed, Settled, Staging, Records
<1>3. Committed'
  BY <1>1, <1>2 DEF Committed, Complete, Records
<1>4. Retreating'
  BY <1>1, <1>2 DEF Retreating, Records
<1>5. OneGenerationPerThread'
  BY <1>1 DEF OneGenerationPerThread, Active, Over, Staging, Requests
<1>6. QED
  BY <1>1, <1>2, <1>3, <1>4, <1>5

\* The next output is written to its temporary file.
LEMMA WriteKeeps ==
  ASSUME IInv, TypeOK', NEW r \in Requests, Write(r)
  PROVE  Kept'
<1> USE DEF IInv, store
<1>1. PICK stage \in {"cleaning", "failed", "renaming", "discarding"} :
        /\ Becomes(r, stage)
        /\ stage \in {"renaming", "discarding"} => temps' = temps \cup {Current(r)}
        /\ stage \in {"cleaning", "failed"} => UNCHANGED temps
        /\ stage = "failed" => ~outputs[r][staged[r] + 1]
  BY DEF Write
<1>2. /\ pc[r] = "writing" /\ ~Complete(r)
      /\ UNCHANGED <<home, outputs, staged, cleaned, memory, disk, ahead, files, stuck>>
  BY DEF Write
<1>3. /\ \A s \in Requests : pc'[s] = IF s = r THEN stage ELSE pc[s]
      /\ \A n \in 1..MaxOutputs : Nth(r, n) \notin Records
      /\ Committed' /\ Retreating' /\ OneGenerationPerThread'
  BY <1>1, <1>2, StoreWaits DEF Staging, Settled
<1>4. CountersOK' /\ StagedThere'
  BY <1>2, <1>3 DEF CountersOK, StagedThere, Complete, Staging
<1>5. Backed'
  BY <1>2 DEF Backed, Records
<1>6. stage = "failed" => FALSE \in Range(outputs[r])
  <2>1. /\ DOMAIN outputs[r] = 1..Len(outputs[r]) /\ Len(outputs[r]) \in Nat
        /\ outputs[r] \in Seq(BOOLEAN)
    BY OutputsAreShort DEF TypeOK
  <2>2. staged[r] + 1 \in DOMAIN outputs[r]
    BY <1>2, <2>1, BoundsAssumption DEF TypeOK, Complete
  <2>3. stage = "failed" => outputs[r][staged[r] + 1] = FALSE
    BY <1>1, <2>1, <2>2
  <2>4. QED
    BY <2>2, <2>3 DEF Range
<1>7. cleaned[r] = 0
  BY <1>2 DEF CountersOK, Staging
<1>8. LeftBehind'
  <2> SUFFICES ASSUME NEW s \in Requests, NEW n \in 1..MaxOutputs
               PROVE  TemporaryExpected(s, n)' /\ FileExpected(s, n)'
    BY DEF LeftBehind
  <2>1. TemporaryExpected(s, n) /\ FileExpected(s, n)
    BY DEF LeftBehind
  <2>2. CASE s = r
    <3>1. stage \in {"renaming", "discarding"} /\ Nth(r, n) \in temps' => n = staged[r] + 1
      <4>1. Nth(r, n) \notin temps
        BY <1>2, <2>1, <2>2 DEF TemporaryExpected
      <4>2. Nth(r, n) = Nth(r, staged[r] + 1) => n = staged[r] + 1
        BY NthInjective
      <4>3. QED
        BY <1>1, <4>1, <4>2 DEF Current
    <3>2. stage \in {"cleaning", "failed"} => Nth(r, n) \notin temps'
      BY <1>1, <1>2, <2>1, <2>2 DEF TemporaryExpected
    <3>3. Nth(r, n) \in files => n <= staged[r]
      BY <1>2, <2>1, <2>2 DEF FileExpected
    <3>4. n \in Nat /\ n > 0 /\ staged[r] \in Nat
      BY BoundsAssumption DEF TypeOK
    <3>5. /\ stage \in {"cleaning", "failed", "renaming", "discarding"} /\ pc'[s] = stage
          /\ UNCHANGED <<staged, cleaned, outputs, files>>
      BY <1>1, <1>2, <1>3, <2>2
    <3>6. TemporaryExpected(s, n)'
      BY <2>2, <3>1, <3>2, <3>5 DEF TemporaryExpected
    <3>7. FileExpected(s, n)'
      <4>1. stage = "cleaning" /\ Nth(r, n) \in files => n \in cleaned[r] + 1..staged[r]
        BY <1>7, <3>3, <3>4
      <4>2. QED
        BY <1>6, <2>2, <3>3, <3>5, <4>1 DEF FileExpected, Staging
    <3>8. QED
      BY <3>6, <3>7
  <2>3. CASE s # r
    <3>1. pc'[s] = pc[s] /\ (Nth(s, n) \in temps' <=> Nth(s, n) \in temps)
      BY <1>1, <1>3, <2>3, NthInjective DEF Current
    <3>2. QED
      BY <1>2, <2>1, <3>1 DEF TemporaryExpected, FileExpected
  <2>4. QED
    BY <2>2, <2>3
<1>9. QED
  BY <1>3, <1>4, <1>5, <1>8 DEF Kept

\* The temporary file becomes the image, or does not.
LEMMA RenameKeeps ==
  ASSUME IInv, TypeOK', NEW r \in Requests, Rename(r)
  PROVE  Kept'
<1> USE DEF IInv, store
<1>1. PICK stage \in {"writing", "discarding"} :
        /\ Becomes(r, stage)
        /\ stage = "writing" => /\ temps' = temps \ {Current(r)}
                               /\ files' = files \cup {Current(r)}
                               /\ staged' = [staged EXCEPT ![r] = @ + 1]
        /\ stage = "discarding" => UNCHANGED <<temps, files, staged>>
  BY DEF Rename
<1>2. /\ pc[r] = "renaming" /\ ~Complete(r)
      /\ UNCHANGED <<home, outputs, cleaned, memory, disk, ahead, stuck>>
  BY DEF Rename, CountersOK
<1>3. /\ staged[r] \in Nat
      /\ staged'[r] = IF stage = "writing" THEN staged[r] + 1 ELSE staged[r]
      /\ \A s \in Requests \ {r} : staged'[s] = staged[s]
  BY <1>1, BoundsAssumption DEF TypeOK
<1>4. /\ \A s \in Requests : pc'[s] = IF s = r THEN stage ELSE pc[s]
      /\ \A n \in 1..MaxOutputs : Nth(r, n) \notin Records
      /\ Committed' /\ Retreating' /\ OneGenerationPerThread'
  BY <1>1, <1>2, <1>3, StoreWaits DEF Staging, Settled
<1>5. CountersOK'
  BY <1>2, <1>3, <1>4 DEF CountersOK, Complete, Staging
<1>6. \A s \in Requests : \A n \in 1..MaxOutputs :
        /\ Nth(s, n) \in files => Nth(s, n) \in files'
        /\ Nth(s, n) \in temps' => Nth(s, n) \in temps
        /\ s # r /\ Nth(s, n) \in files' => Nth(s, n) \in files
  BY <1>1, NthInjective DEF Current
<1>7. StagedThere'
  <2> SUFFICES ASSUME NEW s \in Requests, NEW n \in 1..staged'[s], pc'[s] \in Staging
               PROVE  Nth(s, n) \in files'
    BY DEF StagedThere
  <2>1. CASE s = r /\ n = staged[r] + 1
    BY <1>1, <1>3, <2>1 DEF Current
  <2>2. CASE s # r \/ n # staged[r] + 1
    <3>1. n \in 1..staged[s] /\ pc[s] \in Staging /\ n \in 1..MaxOutputs
      BY SMTT(60), <1>2, <1>3, <1>4, <2>2, BoundsAssumption DEF TypeOK, Staging
    <3>2. QED
      BY <1>6, <3>1 DEF StagedThere
  <2>3. QED
    BY <2>1, <2>2
<1>8. Backed'
  BY <1>2, <1>6 DEF Backed, Records
<1>9. LeftBehind'
  <2> SUFFICES ASSUME NEW s \in Requests, NEW n \in 1..MaxOutputs
               PROVE  TemporaryExpected(s, n)' /\ FileExpected(s, n)'
    BY DEF LeftBehind
  <2>1. TemporaryExpected(s, n) /\ FileExpected(s, n)
    BY DEF LeftBehind
  <2>2. CASE s = r
    <3>1. Nth(r, n) \in temps => n = staged[r] + 1
      BY <1>2, <2>1, <2>2 DEF TemporaryExpected
    <3>2. stage = "writing" => Nth(r, n) \notin temps'
      BY <1>1, <3>1 DEF Current
    <3>3. Nth(r, n) \in files' /\ Nth(r, n) \notin files => stage = "writing" /\ n = staged[r] + 1
      <4>1. Nth(r, n) = Nth(r, staged[r] + 1) => n = staged[r] + 1
        BY NthInjective
      <4>2. QED
        BY <1>1, <4>1 DEF Current
    <3>4. Nth(r, n) \in files => n <= staged[r]
      BY <1>2, <2>1, <2>2 DEF FileExpected
    <3>5. Nth(r, n) \in files' => n <= staged'[r]
      BY <1>3, <3>3, <3>4
    <3>6. TemporaryExpected(s, n)'
      BY <1>1, <1>3, <1>4, <2>2, <3>1, <3>2 DEF TemporaryExpected
    <3>7. FileExpected(s, n)'
      BY <1>4, <2>2, <3>5 DEF FileExpected, Staging
    <3>8. QED
      BY <3>6, <3>7
  <2>3. CASE s # r
    BY <1>2, <1>3, <1>4, <1>6, <2>1, <2>3 DEF TemporaryExpected, FileExpected
  <2>4. QED
    BY <2>2, <2>3
<1>10. QED
  BY <1>4, <1>5, <1>7, <1>8, <1>9 DEF Kept

\* A temporary file is removed, or stays.
LEMMA DiscardKeeps ==
  ASSUME IInv, TypeOK', NEW r \in Requests, Discard(r)
  PROVE  Kept'
<1> USE DEF IInv, store
<1>1. /\ Becomes(r, "cleaning") /\ pc[r] = "discarding"
      /\ UNCHANGED <<home, outputs, staged, cleaned, memory, disk, ahead, files>>
      /\ \/ temps' = temps \ {Current(r)} /\ UNCHANGED stuck
         \/ stuck' = stuck \cup {Current(r)} /\ UNCHANGED temps
  BY DEF Discard
<1>2. /\ \A s \in Requests : pc'[s] = IF s = r THEN "cleaning" ELSE pc[s]
      /\ \A n \in 1..MaxOutputs : Nth(r, n) \notin Records
      /\ Committed' /\ Retreating' /\ OneGenerationPerThread'
  BY <1>1, StoreWaits DEF Staging, Settled
<1>3. CountersOK' /\ StagedThere' /\ Backed'
  BY <1>1, <1>2 DEF CountersOK, Complete, StagedThere, Backed, Records, Staging
<1>4. cleaned[r] = 0 /\ staged[r] \in Nat
  BY <1>1, BoundsAssumption DEF CountersOK, Staging, TypeOK
<1>5. LeftBehind'
  <2> SUFFICES ASSUME NEW s \in Requests, NEW n \in 1..MaxOutputs
               PROVE  TemporaryExpected(s, n)' /\ FileExpected(s, n)'
    BY DEF LeftBehind
  <2>1. TemporaryExpected(s, n) /\ FileExpected(s, n)
    BY DEF LeftBehind
  <2>2. CASE s = r
    <3>1. Nth(r, n) \in temps => Nth(r, n) = Current(r)
      BY <1>1, <2>1, <2>2 DEF TemporaryExpected, Current
    <3>2. Nth(r, n) \in files => n \in cleaned[r] + 1..staged[r]
      <4>1. Nth(r, n) \in files => n <= staged[r]
        BY <1>1, <2>1, <2>2 DEF FileExpected
      <4>2. n \in Nat /\ n > 0
        BY BoundsAssumption
      <4>3. QED
        BY <1>4, <4>1, <4>2
    <3>3. QED
      BY <1>1, <1>2, <2>2, <3>1, <3>2 DEF TemporaryExpected, FileExpected
  <2>3. CASE s # r
    BY <1>1, <1>2, <2>1, <2>3 DEF TemporaryExpected, FileExpected, Current
  <2>4. QED
    BY <2>2, <2>3
<1>6. QED
  BY <1>2, <1>3, <1>5 DEF Kept

\* The records are stored: their files are there, and nothing of the request
\* was recorded before.
LEMMA RecordKeeps ==
  ASSUME IInv, TypeOK', NEW r \in Requests, Record(r)
  PROVE  Kept'
<1> USE DEF IInv, folder
<1>1. /\ pc[r] = "writing" /\ Complete(r) /\ Becomes(r, "done")
      /\ memory' = memory \cup Own(r) /\ disk' = memory' /\ ahead' = ahead \cap memory'
      /\ UNCHANGED <<home, outputs, staged, cleaned, files, temps, stuck>>
  BY DEF Record
<1>2. \A s \in Requests : pc'[s] = IF s = r THEN "done" ELSE pc[s]
  BY <1>1 DEF Becomes, TypeOK
<1>3. \A s \in Requests : \A n \in 1..MaxOutputs :
        Nth(s, n) \in Own(r) <=> s = r /\ n \in 1..staged[r]
  BY OwnIsStaged
<1>4. staged[r] \in 0..MaxOutputs /\ 1..staged[r] \subseteq 1..MaxOutputs
  BY BoundsAssumption DEF TypeOK
<1>5. \A n \in 1..MaxOutputs : Nth(r, n) \notin Records
  BY <1>1 DEF Committed, Settled, Records
<1>6. CountersOK' /\ StagedThere'
  BY <1>1, <1>2 DEF CountersOK, StagedThere, Complete, Staging
<1>7. Committed'
  <2> SUFFICES ASSUME NEW s \in Requests, NEW n \in 1..MaxOutputs, Nth(s, n) \in memory'
               PROVE  /\ pc'[s] \in Settled /\ Complete(s)' /\ n <= staged'[s]
                      /\ \A k \in 1..staged'[s] : Nth(s, k) \in memory'
    BY <1>1 DEF Committed
  <2>1. CASE s = r
    BY <1>1, <1>2, <1>3, <1>4, <1>5, <2>1 DEF Records, Complete, Settled
  <2>2. CASE s # r
    BY <1>1, <1>2, <1>3, <2>2 DEF Committed, Complete
  <2>3. QED
    BY <2>1, <2>2
<1>8. Backed'
  BY <1>1, <1>3 DEF Backed, Records, StagedThere, Staging
<1>9. Retreating'
  BY <1>1, <1>2, <1>3 DEF Retreating, Records
<1>10. LeftBehind'
  <2> SUFFICES ASSUME NEW s \in Requests, NEW n \in 1..MaxOutputs
               PROVE  TemporaryExpected(s, n)' /\ FileExpected(s, n)'
    BY DEF LeftBehind
  <2>1. TemporaryExpected(s, n) /\ FileExpected(s, n)
    BY DEF LeftBehind
  <2>2. QED
    BY <1>1, <1>2, <2>1 DEF TemporaryExpected, FileExpected
<1>11. OneGenerationPerThread'
  BY <1>1, <1>2 DEF OneGenerationPerThread, Active, Over, Requests
<1>12. QED
  BY <1>6, <1>7, <1>8, <1>9, <1>10, <1>11 DEF Kept

\* The commit fails: the records are nowhere, or in the snapshot and ahead.
LEMMA RecordFailsKeeps ==
  ASSUME IInv, TypeOK', NEW r \in Requests, RecordFails(r)
  PROVE  Kept'
<1> USE DEF IInv, folder
<1>1. /\ pc[r] = "writing" /\ Complete(r) /\ Becomes(r, "cleaning")
      /\ \/ UNCHANGED <<disk, ahead>>
         \/ disk' = memory \cup Own(r) /\ ahead' = (ahead \cap memory) \cup Own(r)
      /\ UNCHANGED <<home, outputs, staged, cleaned, memory, files, temps, stuck>>
  BY DEF RecordFails, AfterError
<1>2. \A s \in Requests : pc'[s] = IF s = r THEN "cleaning" ELSE pc[s]
  BY <1>1 DEF Becomes, TypeOK
<1>3. \A s \in Requests : \A n \in 1..MaxOutputs :
        Nth(s, n) \in Own(r) <=> s = r /\ n \in 1..staged[r]
  BY OwnIsStaged
<1>4. /\ staged[r] \in 0..MaxOutputs /\ 1..staged[r] \subseteq 1..MaxOutputs
      /\ cleaned[r] = 0
  BY <1>1, BoundsAssumption DEF TypeOK, CountersOK, Staging
<1>5. \A n \in 1..MaxOutputs : Nth(r, n) \notin Records
  BY <1>1 DEF Committed, Settled, Records
<1>6. CountersOK' /\ StagedThere'
  BY <1>1, <1>2 DEF CountersOK, StagedThere, Complete, Staging
<1>7. Committed'
  <2> SUFFICES ASSUME NEW s \in Requests, NEW records \in {memory', disk'},
                      NEW n \in 1..MaxOutputs, Nth(s, n) \in records
               PROVE  /\ pc'[s] \in Settled /\ Complete(s)' /\ n <= staged'[s]
                      /\ \A k \in 1..staged'[s] : Nth(s, k) \in records
    BY DEF Committed
  <2>1. CASE s = r
    BY <1>1, <1>2, <1>3, <1>4, <1>5, <2>1 DEF Records, Complete, Settled
  <2>2. CASE s # r
    <3>1. PICK old \in {memory, disk} : Nth(s, n) \in old /\ old \subseteq records
      BY <1>1, <1>3, <2>2
    <3>2. QED
      BY <1>1, <1>2, <2>2, <3>1 DEF Committed, Complete
  <2>3. QED
    BY <2>1, <2>2
<1>8. Backed'
  BY <1>1, <1>3 DEF Backed, Records
<1>9. Retreating'
  BY <1>1, <1>2, <1>3, <1>5 DEF Retreating, Records
<1>10. LeftBehind'
  <2> SUFFICES ASSUME NEW s \in Requests, NEW n \in 1..MaxOutputs
               PROVE  TemporaryExpected(s, n)' /\ FileExpected(s, n)'
    BY DEF LeftBehind
  <2>1. TemporaryExpected(s, n) /\ FileExpected(s, n) /\ n \in Nat /\ n > 0
    BY BoundsAssumption DEF LeftBehind
  <2>2. CASE s = r
    <3>1. Nth(r, n) \in files => n <= staged[r]
      BY <1>1, <2>1, <2>2 DEF FileExpected
    <3>2. Nth(r, n) \in files => n \in cleaned[r] + 1..staged[r]
      BY <1>4, <2>1, <3>1
    <3>3. Nth(r, n) \notin temps
      BY <1>1, <2>1, <2>2 DEF TemporaryExpected
    <3>4. QED
      BY <1>1, <1>2, <2>2, <3>2, <3>3 DEF TemporaryExpected, FileExpected
  <2>3. CASE s # r
    BY <1>1, <1>2, <2>1, <2>3 DEF TemporaryExpected, FileExpected
  <2>4. QED
    BY <2>2, <2>3
<1>11. OneGenerationPerThread'
  BY <1>1, <1>2 DEF OneGenerationPerThread, Active, Over, Requests
<1>12. QED
  BY <1>6, <1>7, <1>8, <1>9, <1>10, <1>11 DEF Kept

\* A file of a failed request is removed, or stays.
LEMMA RemoveFileKeeps ==
  ASSUME IInv, TypeOK', NEW r \in Requests, RemoveFile(r)
  PROVE  Kept'
<1> USE DEF IInv, store
<1>1. /\ pc[r] = "cleaning" /\ cleaned' = [cleaned EXCEPT ![r] = @ + 1]
      /\ \/ files' = files \ {Nth(r, cleaned[r] + 1)} /\ UNCHANGED stuck
         \/ stuck' = stuck \cup {Nth(r, cleaned[r] + 1)} /\ UNCHANGED files
      /\ UNCHANGED <<home, pc, outputs, staged, memory, disk, ahead, temps>>
  BY DEF RemoveFile
<1>2. /\ cleaned[r] \in Nat /\ cleaned'[r] = cleaned[r] + 1
      /\ \A s \in Requests \ {r} : cleaned'[s] = cleaned[s]
  BY <1>1, BoundsAssumption DEF TypeOK
<1>3. \A s \in Requests : \A n \in 1..MaxOutputs :
        /\ Nth(s, n) \in stuck => Nth(s, n) \in stuck'
        /\ Nth(s, n) \in files' => Nth(s, n) \in files
        /\ s # r => (Nth(s, n) \in files' <=> Nth(s, n) \in files)
  BY <1>1, NthInjective
<1>4. CountersOK'
  BY <1>1, <1>2 DEF CountersOK, Complete, Staging
<1>5. StagedThere'
  <2>1. \A s \in Requests : 1..staged[s] \subseteq 1..MaxOutputs
    BY SMTT(60), BoundsAssumption DEF TypeOK
  <2>2. QED
    BY <1>1, <1>3, <2>1 DEF StagedThere, Staging
<1>6. Committed' /\ Retreating' /\ OneGenerationPerThread'
  BY <1>1 DEF Committed, Complete, Retreating, Records, OneGenerationPerThread, Active
<1>7. Backed'
  BY <1>1, <1>3 DEF Backed, Retreating, Records
<1>8. LeftBehind'
  <2> SUFFICES ASSUME NEW s \in Requests, NEW n \in 1..MaxOutputs
               PROVE  TemporaryExpected(s, n)' /\ FileExpected(s, n)'
    BY DEF LeftBehind
  <2>1. TemporaryExpected(s, n) /\ FileExpected(s, n) /\ n \in Nat
    BY BoundsAssumption DEF LeftBehind
  <2>2. TemporaryExpected(s, n)'
    BY <1>1, <1>3, <2>1 DEF TemporaryExpected
  <2>3. CASE s = r
    <3>1. Nth(r, n) \in files' => Nth(r, n) \in stuck' \/ n \in cleaned'[r] + 1..staged[r]
      <4>1. CASE n = cleaned[r] + 1
        BY <1>1, <4>1
      <4>2. CASE n # cleaned[r] + 1
        <5>1. Nth(r, n) \in files => Nth(r, n) \in stuck \/ n \in cleaned[r] + 1..staged[r]
          BY <1>1, <2>1, <2>3 DEF FileExpected, Staging
        <5>2. staged[r] \in Nat
          BY BoundsAssumption DEF TypeOK
        <5>3. n \in cleaned[r] + 1..staged[r] => n \in cleaned'[r] + 1..staged[r]
          BY <1>2, <2>1, <4>2, <5>2
        <5>4. QED
          BY <1>3, <5>1, <5>3
      <4>3. QED
        BY <4>1, <4>2
    <3>2. QED
      BY <1>1, <2>2, <2>3, <3>1 DEF FileExpected
  <2>4. CASE s # r
    BY <1>1, <1>2, <1>3, <2>1, <2>2, <2>4 DEF FileExpected
  <2>5. QED
    BY <2>3, <2>4
<1>9. QED
  BY <1>4, <1>5, <1>6, <1>7, <1>8 DEF Kept

\* The request reports its failure; all of its files have been tried.
LEMMA CleanedKeeps ==
  ASSUME IInv, TypeOK', NEW r \in Requests, Cleaned(r)
  PROVE  Kept'
<1> USE DEF IInv, store, folder
<1>1. /\ pc[r] = "cleaning" /\ ~Leftover(r) /\ Becomes(r, "failed")
      /\ UNCHANGED <<home, outputs, staged, cleaned, memory, disk, ahead, files, temps, stuck>>
  BY DEF Cleaned
<1>2. \A s \in Requests : pc'[s] = IF s = r THEN "failed" ELSE pc[s]
  BY <1>1 DEF Becomes, TypeOK
<1>3. CountersOK' /\ StagedThere' /\ Committed' /\ Backed' /\ Retreating'
  BY <1>1, <1>2 DEF CountersOK, StagedThere, Committed, Backed, Retreating, Complete, Records,
                    Staging, Settled
<1>4. \A n \in 1..MaxOutputs : n \notin cleaned[r] + 1..staged[r]
  BY <1>1, BoundsAssumption DEF Leftover, TypeOK
<1>5. LeftBehind'
  <2> SUFFICES ASSUME NEW s \in Requests, NEW n \in 1..MaxOutputs
               PROVE  TemporaryExpected(s, n)' /\ FileExpected(s, n)'
    BY DEF LeftBehind
  <2>1. TemporaryExpected(s, n) /\ FileExpected(s, n)
    BY DEF LeftBehind
  <2>2. QED
    BY <1>1, <1>2, <1>4, <2>1 DEF TemporaryExpected, FileExpected, Staging
<1>6. OneGenerationPerThread'
  BY <1>1, <1>2 DEF OneGenerationPerThread, Active, Over, Requests
<1>7. QED
  BY <1>3, <1>5, <1>6 DEF Kept

\* A call is dropped: the rename or the commit it waited for may still happen.
LEMMA DropKeeps ==
  ASSUME IInv, TypeOK', NEW r \in Requests, Drop(r)
  PROVE  Kept'
<1> USE DEF IInv
<1>1. /\ Active(r) /\ Becomes(r, "dropped")
      /\ UNCHANGED <<home, outputs, staged, cleaned, memory, ahead, stuck>>
      /\ \/ UNCHANGED <<files, temps, disk>>
         \/ /\ pc[r] = "renaming"
            /\ temps' = temps \ {Current(r)} /\ files' = files \cup {Current(r)}
            /\ UNCHANGED disk
         \/ /\ pc[r] = "writing" /\ Complete(r)
            /\ disk' = memory \cup Own(r)
            /\ UNCHANGED <<files, temps>>
  BY DEF Drop
<1>2. \A s \in Requests : pc'[s] = IF s = r THEN "dropped" ELSE pc[s]
  BY <1>1 DEF Becomes, TypeOK
<1>3. \A s \in Requests : \A n \in 1..MaxOutputs :
        /\ Nth(s, n) \in files => Nth(s, n) \in files'
        /\ Nth(s, n) \in temps' => Nth(s, n) \in temps
        /\ s # r /\ Nth(s, n) \in files' => Nth(s, n) \in files
  BY <1>1, NthInjective DEF Current
<1>4. \A s \in Requests : \A n \in 1..MaxOutputs :
        Nth(s, n) \in Own(r) <=> s = r /\ n \in 1..staged[r]
  BY OwnIsStaged
<1>5. staged[r] \in 0..MaxOutputs /\ \A s \in Requests : 1..staged[s] \subseteq 1..MaxOutputs
  BY SMTT(60), BoundsAssumption DEF TypeOK
<1>6. CountersOK' /\ StagedThere'
  BY <1>1, <1>2, <1>3, <1>5 DEF CountersOK, StagedThere, Complete, Staging
<1>7. Committed'
  <2> SUFFICES ASSUME NEW s \in Requests, NEW records \in {memory', disk'},
                      NEW n \in 1..MaxOutputs, Nth(s, n) \in records
               PROVE  /\ pc'[s] \in Settled /\ Complete(s)' /\ n <= staged'[s]
                      /\ \A k \in 1..staged'[s] : Nth(s, k) \in records
    BY DEF Committed
  <2>1. CASE \E old \in {memory, disk} : Nth(s, n) \in old /\ old \subseteq records
    <3>1. PICK old \in {memory, disk} : Nth(s, n) \in old /\ old \subseteq records
      BY <2>1
    <3>2. QED
      BY <1>1, <1>2, <3>1 DEF Committed, Complete, Settled
  <2>2. CASE ~\E old \in {memory, disk} : Nth(s, n) \in old /\ old \subseteq records
    <3>1. /\ records = disk' /\ disk' = memory \cup Own(r) /\ Nth(s, n) \in Own(r)
          /\ pc[r] = "writing" /\ Complete(r)
      BY <1>1, <2>2
    <3>2. s = r /\ n \in 1..staged[r]
      BY <1>4, <3>1
    <3>3. \A k \in 1..staged[r] : Nth(r, k) \in Own(r)
      BY <1>4, <1>5
    <3>4. QED
      BY <1>1, <1>2, <1>5, <3>1, <3>2, <3>3 DEF Complete, Settled
  <2>3. QED
    BY <2>1, <2>2
<1>8. Backed'
  <2> SUFFICES ASSUME NEW s \in Requests, NEW n \in 1..MaxOutputs,
                      Nth(s, n) \in Records' \ ahead'
               PROVE  Nth(s, n) \in files'
    BY DEF Backed
  <2>1. CASE Nth(s, n) \in Records
    BY <1>1, <1>3, <2>1 DEF Backed
  <2>2. CASE Nth(s, n) \notin Records
    <3>1. Nth(s, n) \in Own(r) /\ pc[r] = "writing"
      BY <1>1, <2>2 DEF Records
    <3>2. QED
      BY <1>3, <1>4, <3>1 DEF StagedThere, Staging
  <2>3. QED
    BY <2>1, <2>2
<1>9. Retreating'
  BY <1>1, <1>2, <1>4 DEF Retreating, Records
<1>10. LeftBehind'
  <2> SUFFICES ASSUME NEW s \in Requests, NEW n \in 1..MaxOutputs
               PROVE  TemporaryExpected(s, n)' /\ FileExpected(s, n)'
    BY DEF LeftBehind
  <2>1. TemporaryExpected(s, n) /\ FileExpected(s, n)
    BY DEF LeftBehind
  <2>2. QED
    BY <1>1, <1>2, <1>3, <2>1 DEF TemporaryExpected, FileExpected
<1>11. OneGenerationPerThread'
  BY <1>1, <1>2 DEF OneGenerationPerThread, Active, Over, Requests
<1>12. QED
  BY <1>6, <1>7, <1>8, <1>9, <1>10, <1>11 DEF Kept

\* A restart on the snapshot: all calls are gone, all files stay.
LEMMA CrashKeeps ==
  ASSUME IInv, TypeOK', Crash
  PROVE  Kept'
<1> USE DEF IInv, folder
<1>1. /\ memory' = disk
      /\ UNCHANGED <<home, outputs, staged, cleaned, disk, ahead, files, temps, stuck>>
  BY DEF Crash
<1>2. \A s \in Requests : /\ Active(s) => pc'[s] = "dropped"
                          /\ ~Active(s) => pc'[s] = pc[s]
  BY DEF Crash
<1>3. CountersOK' /\ StagedThere'
  BY <1>1, <1>2 DEF CountersOK, StagedThere, Complete, Active, Over, Staging
<1>4. Committed'
  BY <1>1, <1>2 DEF Committed, Complete, Settled
<1>5. Backed' /\ Retreating'
  BY <1>1, <1>2 DEF Backed, Retreating, Records, Active, Over
<1>6. LeftBehind'
  <2> SUFFICES ASSUME NEW s \in Requests, NEW n \in 1..MaxOutputs
               PROVE  TemporaryExpected(s, n)' /\ FileExpected(s, n)'
    BY DEF LeftBehind
  <2>1. TemporaryExpected(s, n) /\ FileExpected(s, n)
    BY DEF LeftBehind
  <2>2. QED
    BY <1>1, <1>2, <2>1 DEF TemporaryExpected, FileExpected, Active, Over, Staging
<1>7. OneGenerationPerThread'
  BY <1>2 DEF OneGenerationPerThread, Active, Over, Requests
<1>8. QED
  BY <1>3, <1>4, <1>5, <1>6, <1>7 DEF Kept

\* Steps that touch neither a request nor a folder.
LEMMA OthersKeep ==
  ASSUME IInv, OtherMutation \/ UNCHANGED <<home, pc, outputs, staged, cleaned, store, folder>>
  PROVE  Kept'
<1> USE DEF IInv, store, folder, request
<1>1. /\ UNCHANGED <<home, pc, outputs, staged, cleaned, memory, files, temps, stuck>>
      /\ UNCHANGED <<disk, ahead>> \/ (disk' = memory /\ ahead' = ahead \cap memory)
  BY DEF OtherMutation
<1>2. CountersOK' /\ StagedThere' /\ OneGenerationPerThread'
  BY <1>1 DEF CountersOK, StagedThere, Complete, OneGenerationPerThread, Active
<1>3. Committed'
  BY <1>1 DEF Committed, Complete
<1>4. Backed' /\ Retreating'
  BY <1>1 DEF Backed, Retreating, Records
<1>5. LeftBehind'
  BY ZenonT(60), <1>1 DEF LeftBehind, TemporaryExpected, FileExpected
<1>6. QED
  BY <1>2, <1>3, <1>4, <1>5 DEF Kept

\* The invariant holds in every reachable state.
THEOREM Invariant == Spec => []IInv
<1>1. Init => IInv
  <2> SUFFICES ASSUME Init PROVE IInv
    OBVIOUS
  <2>1. TypeOK
    BY TypesInitially
  <2>2. CountersOK /\ StagedThere /\ OneGenerationPerThread
    BY DEF Init, CountersOK, StagedThere, OneGenerationPerThread, Active, Staging, Requests
  <2>3. Committed /\ Backed /\ Retreating /\ LeftBehind
    BY DEF Init, Committed, Backed, Retreating, Records, LeftBehind, TemporaryExpected,
           FileExpected
  <2>4. QED
    BY <2>1, <2>2, <2>3 DEF IInv
<1>2. IInv /\ [Next]_vars => IInv'
  <2> SUFFICES ASSUME IInv, [Next]_vars PROVE IInv'
    OBVIOUS
  <2>1. TypeOK'
    BY TypesKept DEF IInv
  <2>2. ASSUME NEW r \in Requests, Step(r) PROVE Kept'
    BY <2>1, <2>2, EarlyStepsKeep, WriteKeeps, RenameKeeps, DiscardKeeps, RecordKeeps,
       RecordFailsKeeps, RemoveFileKeeps, CleanedKeeps DEF Step
  <2>3. ASSUME NEW r \in Requests, Cancel(r) PROVE Kept'
    BY <2>3, OthersKeep DEF Cancel
  <2>4. ASSUME NEW r \in Requests, Drop(r) PROVE Kept'
    BY <2>1, <2>4, DropKeeps
  <2>5. ASSUME NEW h \in Threads, TurnStarts(h) \/ TurnEnds(h) PROVE Kept'
    BY <2>5, OthersKeep DEF TurnStarts, TurnEnds, request
  <2>6. ASSUME OtherMutation \/ UNCHANGED vars PROVE Kept'
    BY <2>6, OthersKeep DEF vars, request
  <2>7. ASSUME Crash PROVE Kept'
    BY <2>1, <2>7, CrashKeeps
  <2>8. Kept'
    BY <2>2, <2>3, <2>4, <2>5, <2>6, <2>7 DEF Next
  <2>9. QED
    BY <2>1, <2>8 DEF Kept, IInv
<1>3. QED
  BY <1>1, <1>2, PTL DEF Spec

\* What the store knows of images can be shown, and all of a request or none
\* of it, whatever fails and wherever the process stops (persist_outputs,
\* append_image_generation, insert_artifacts, insert_turn_input).
THEOREM RecordsStayWhole == Spec => []RecordsAreWhole
<1>1. IInv => RecordsAreWhole
  <2> SUFFICES ASSUME IInv PROVE RecordsAreWhole
    OBVIOUS
  <2>1. RecordedArtifactReads
    BY SMTT(60), ArtifactsAreNth
    DEF RecordedArtifactReads, Readable, IInv, TypeOK, Backed, Records
  <2>2. RecordedTogether
    <3> SUFFICES ASSUME NEW r \in Requests, NEW records \in {memory, disk},
                        NEW k \in 1..MaxOutputs, Nth(r, k) \in records
                 PROVE  {n \in 1..MaxOutputs : Nth(r, n) \in records} = 1..Len(outputs[r])
      BY DEF RecordedTogether
    <3>1. /\ Complete(r)
          /\ \A n \in 1..staged[r] : Nth(r, n) \in records
          /\ \A n \in 1..MaxOutputs : Nth(r, n) \in records => n <= staged[r]
      BY DEF IInv, Committed
    <3>2. staged[r] \in 0..MaxOutputs
      BY DEF IInv, TypeOK
    <3>3. QED
      BY <3>1, <3>2, BoundsAssumption DEF Complete
  <2>3. QED
    BY <2>1, <2>2 DEF RecordsAreWhole, IInv
<1>2. QED
  BY <1>1, Invariant, PTL

\* A request that reports an error has removed what it wrote (persist_outputs,
\* remove_artifact_files), but for removals that failed and refused dimensions.
THEOREM FailuresLeaveNothing == Spec => []FailedRequestLeavesNothing
<1>1. IInv => FailedRequestLeavesNothing
  BY DEF IInv, LeftBehind, TemporaryExpected, FileExpected, Staging, FailedRequestLeavesNothing
<1>2. QED
  BY <1>1, Invariant, PTL

-----------------------------------------------------------------------------
(***************************************************************************)
(* The invariant in parts                                                  *)
(***************************************************************************)
Logs == [records : Seq(Chunk), end : Cursors, retained : Nat]

\* The records lie end to end up to the end cursor, and are counted right.
Sound(log) ==
  /\ log \in Logs
  /\ Tiles(log.records, StartCursor(log), log.end)
  /\ log.retained = log.end - StartCursor(log)

Fits(log) == log.retained <= MaxBytes /\ Len(log.records) <= MaxRecords

\* Nothing was dropped that could have stayed.
Thrifty(log) == StartCursor(log) > 0 => log.retained = MaxBytes \/ Len(log.records) = MaxRecords

LogOK(log) == Sound(log) /\ Fits(log) /\ Thrifty(log)

\* The file is the encoding of a log the logger holds or held.
Holds(log) == LogOK(log) /\ file = Encode(log) /\ log.end <= mem.end /\ (written => log = mem)

Pages == [start : Cursors, next : Cursors, end : Cursors, truncated : BOOLEAN,
          more : BOOLEAN, chunks : Seq(Chunk)]

PageOK(r) ==
  /\ Tiles(page[r].chunks, page[r].start, page[r].next)
  /\ page[r].more => page[r].next > page[r].start

ReadersOK ==
  /\ place \in [Readers -> {<<>>} \cup {<<c>> : c \in Cursors}]
  /\ \A r \in Readers : place[r] # <<>> => place[r][1] <= file.end
  /\ page \in [Readers -> Pages] /\ \A r \in Readers : PageOK(r)

LogInv ==
  /\ LogOK(mem) /\ \E log \in Logs : Holds(log)
  /\ written \in BOOLEAN /\ errors \in 0..MaxErrors
  /\ shown \in Cursors /\ shown <= file.end
  /\ ReadersOK

-----------------------------------------------------------------------------
(***************************************************************************)
(* Lemmas: induction over a range, and where the records of a log begin    *)
(***************************************************************************)
\* Induction is by a least counterexample.
LEMMA LeastOf ==
  ASSUME NEW S, S \subseteq Nat, S # {}
  PROVE  \E x \in S : \A y \in S : x <= y
<1>1. PICK x \in S : \A y \in S : <<y, x>> \notin OpToRel(<, Nat)
  BY NatLessThanWellFounded, WFMin
<1>2. \A y \in S : ~(y < x) /\ x \in Nat /\ y \in Nat
  BY <1>1 DEF OpToRel
<1> QED
  BY <1>2

LEMMA Induction ==
  ASSUME NEW n \in Nat, NEW S, 0 \in S, \A k \in 1..n : k - 1 \in S => k \in S
  PROVE  0..n \subseteq S
<1> DEFINE bad == (0..n) \ S
<1>1. ASSUME bad # {} PROVE FALSE
  <2>1. bad \subseteq Nat
    OBVIOUS
  <2>2. PICK k \in bad : \A x \in bad : k <= x
    <3> HIDE DEF bad
    <3> QED
      BY <1>1, <2>1, LeastOf
  <2>3. k \in 1..n /\ k - 1 \in 0..n /\ ~(k <= k - 1)
    BY <2>2
  <2> QED
    BY <2>2, <2>3
<1> QED
  BY <1>1

\* Where record i begins; behind the last one, where the log ends.
Mark(log, i) == IF i <= Len(log.records) THEN log.records[i].cursor ELSE log.end

Linked(log) == \A i \in 1..Len(log.records) :
  /\ log.records[i].bytes # <<>> /\ RecordEnd(log.records[i]) = Mark(log, i + 1)
  /\ \A j \in 1..Len(log.records[i].bytes) :
       log.records[i].bytes[j] = log.records[i].cursor + j - 1

LEMMA RecordsTyped ==
  ASSUME NEW chunks \in Seq(Chunk)
  PROVE  /\ Len(chunks) \in Nat /\ DOMAIN chunks = 1..Len(chunks)
         /\ \A i \in 1..Len(chunks) :
              /\ chunks[i] \in Chunk /\ chunks[i].stream \in Streams
              /\ chunks[i].cursor \in Cursors /\ chunks[i].cursor \in Nat
              /\ chunks[i].bytes \in Seq(Cursors)
              /\ Len(chunks[i].bytes) \in Nat
              /\ chunks[i].bytes # <<>> => Len(chunks[i].bytes) >= 1
              /\ RecordEnd(chunks[i]) = chunks[i].cursor + Len(chunks[i].bytes)
              /\ RecordEnd(chunks[i]) \in Nat
<1>1. Len(chunks) \in Nat /\ DOMAIN chunks = 1..Len(chunks)
  OBVIOUS
<1>2. ASSUME NEW i \in 1..Len(chunks)
      PROVE  /\ chunks[i] \in Chunk /\ chunks[i].stream \in Streams
             /\ chunks[i].cursor \in Cursors /\ chunks[i].bytes \in Seq(Cursors)
  <2>1. chunks[i] \in Chunk
    BY <1>1
  <2> QED
    BY <2>1, Zenon DEF Chunk
<1>3. ASSUME NEW i \in 1..Len(chunks)
      PROVE  /\ Len(chunks[i].bytes) \in Nat
             /\ chunks[i].bytes # <<>> => Len(chunks[i].bytes) >= 1
  <2>1. PICK b \in Seq(Cursors) : b = chunks[i].bytes
    BY <1>2
  <2> QED
    BY <2>1
<1>4. ASSUME NEW i \in 1..Len(chunks)
      PROVE  /\ chunks[i].cursor \in Nat
             /\ RecordEnd(chunks[i]) = chunks[i].cursor + Len(chunks[i].bytes)
             /\ RecordEnd(chunks[i]) \in Nat
  BY SMTT(60), <1>2, <1>3, LimitsAssumption DEF Cursors, RecordEnd
<1> QED
  BY <1>1, <1>2, <1>3, <1>4

\* The total is counted up record by record.
LEMMA Counted ==
  ASSUME NEW records \in Seq(Chunk)
  PROVE  /\ BytesIn(records)[0] = 0
         /\ \A k \in 1..Len(records) :
              BytesIn(records)[k] = BytesIn(records)[k - 1] + Len(records[k].bytes)
<1> DEFINE n == Len(records)
           Sums(f, m) == f = [k \in 0..m |-> IF k = 0 THEN 0 ELSE f[k - 1] + Len(records[k].bytes)]
           can == {m \in 0..n : \E f : Sums(f, m)}
<1>0. n \in Nat
  OBVIOUS
<1>1. 0 \in can
  <2>1. Sums([k \in 0..0 |-> 0], 0)
    OBVIOUS
  <2>2. (\E f1 : Sums(f1, 0)) /\ 0 \in 0..n
    <3>1. 0 \in 0..n
      BY <1>0
    <3> HIDE DEF Sums
    <3> QED
      BY <2>1, <3>1, Zenon
  <2> QED
    BY <2>2, Zenon
<1>2. ASSUME NEW m \in 1..n, m - 1 \in can
      PROVE  m \in can
  <2>1. PICK f : Sums(f, m - 1)
    BY <1>2
  <2> DEFINE g == [k \in 0..m |-> IF k = m THEN f[m - 1] + Len(records[m].bytes) ELSE f[k]]
  <2>2. Sums(g, m)
    <3>1. ASSUME NEW k \in 0..m
          PROVE  g[k] = IF k = 0 THEN 0 ELSE g[k - 1] + Len(records[k].bytes)
      <4>1. CASE k = m
        <5>1. m - 1 \in 0..m /\ m - 1 # m /\ m # 0
          BY <1>0
        <5> QED
          BY <4>1, <5>1
      <4>2. CASE k # m
        <5>1. k \in 0..m - 1 /\ (k # 0 => k - 1 \in 0..m /\ k - 1 # m)
          BY <1>0, <4>2
        <5>2. f[k] = IF k = 0 THEN 0 ELSE f[k - 1] + Len(records[k].bytes)
          BY <2>1, <5>1
        <5> QED
          BY <4>2, <5>1, <5>2
      <4> QED
        BY <4>1, <4>2
    <3>2. g = [k \in 0..m |-> g[k]]
      OBVIOUS
    <3> HIDE DEF g
    <3> QED
      BY <3>1, <3>2
  <2>3. (\E f1 : Sums(f1, m)) /\ m \in 0..n
    <3>1. m \in 0..n
      BY <1>0
    <3> HIDE DEF Sums, g
    <3> QED
      BY <2>2, <3>1, Zenon
  <2> QED
    BY <2>3, Zenon
<1>3. n \in can
  <2> HIDE DEF can, n
  <2>1. 0..n \subseteq can
    BY SMTT(60), <1>0, <1>1, <1>2, Induction
  <2> QED
    BY <1>0, <2>1
<1>4. Sums(BytesIn(records), n)
  BY <1>3, Zenon DEF BytesIn
<1> HIDE DEF n
<1>5. \A k \in 0..n :
        BytesIn(records)[k] = IF k = 0 THEN 0 ELSE BytesIn(records)[k - 1] + Len(records[k].bytes)
  BY <1>4
<1>6. 0 \in 0..n /\ \A k \in 1..n : k \in 0..n /\ k # 0
  BY <1>0
<1>7. n = Len(records)
  BY DEF n
<1> QED
  BY <1>5, <1>6, <1>7

\* A log's records and marks, with their types.
LEMMA LogTyped ==
  ASSUME NEW log \in Logs
  PROVE  /\ log.records \in Seq(Chunk) /\ Len(log.records) \in Nat
         /\ log.end \in Cursors /\ log.end \in Nat /\ log.retained \in Nat
         /\ StartCursor(log) = Mark(log, 1) /\ Mark(log, Len(log.records) + 1) = log.end
         /\ \A i \in 1..Len(log.records) : Mark(log, i) = log.records[i].cursor
         /\ \A i \in 1..(Len(log.records) + 1) : Mark(log, i) \in Cursors /\ Mark(log, i) \in Nat
<1>1. log.records \in Seq(Chunk) /\ log.end \in Cursors /\ log.retained \in Nat
  BY DEF Logs
<1>2. log.end \in Nat
  BY <1>1, LimitsAssumption DEF Cursors
<1>3. PICK q \in Seq(Chunk) : q = log.records
  BY <1>1
<1>4. /\ Len(q) \in Nat /\ q # <<>> => Head(q) = q[1] /\ Len(q) >= 1
      /\ q = <<>> <=> Len(q) = 0
      /\ \A i \in 1..Len(q) : q[i].cursor \in Cursors /\ q[i].cursor \in Nat
  BY RecordsTyped
<1>5. StartCursor(log) = Mark(log, 1)
  BY <1>3, <1>4 DEF StartCursor, Mark
<1>6. Mark(log, Len(q) + 1) = log.end /\ \A i \in 1..Len(q) : Mark(log, i) = q[i].cursor
  BY <1>3, <1>4 DEF Mark
<1>7. \A i \in 1..(Len(q) + 1) : i \in 1..Len(q) \/ i = Len(q) + 1
  BY <1>4
<1> QED
  BY SMTT(60), <1>1, <1>2, <1>3, <1>4, <1>5, <1>6, <1>7

LEMMA TilesLink ==
  ASSUME NEW log \in Logs
  PROVE  Tiles(log.records, StartCursor(log), log.end) <=> Linked(log)
<1> DEFINE n == Len(log.records)
           E(i) == Edge(log.records, StartCursor(log), i)
<1>1. /\ n \in Nat /\ StartCursor(log) = Mark(log, 1) /\ Mark(log, n + 1) = log.end
      /\ \A i \in 1..n : Mark(log, i) = log.records[i].cursor
  BY LogTyped
<1>2. E(1) = Mark(log, 1) /\ \A i \in 1..n : E(i + 1) = RecordEnd(log.records[i])
  <2>1. \A i \in 1..n : i + 1 # 1 /\ (i + 1) - 1 = i
    BY <1>1
  <2> QED
    BY <1>1, <2>1 DEF Edge
<1>3. \A i \in 1..(n + 1) : i = 1 \/ (i - 1 \in 1..n /\ i = (i - 1) + 1)
  BY <1>1
<1>4. 1..n \subseteq 1..(n + 1) /\ n + 1 \in 1..(n + 1) /\ \A i \in 1..n : i + 1 \in 1..(n + 1)
  BY <1>1
<1>5. \A i \in 1..(n + 1) : i \in 1..n \/ i = n + 1
  BY <1>1
<1> HIDE DEF n
<1>6. (\A i \in 1..(n + 1) : E(i) = Mark(log, i)) <=>
      (\A i \in 1..n : RecordEnd(log.records[i]) = Mark(log, i + 1))
  <2> HIDE DEF E
  <2>1. ASSUME \A i \in 1..(n + 1) : E(i) = Mark(log, i), NEW i \in 1..n
        PROVE  RecordEnd(log.records[i]) = Mark(log, i + 1)
    BY <1>2, <1>4, <2>1
  <2>2. ASSUME \A i \in 1..n : RecordEnd(log.records[i]) = Mark(log, i + 1), NEW i \in 1..(n + 1)
        PROVE  E(i) = Mark(log, i)
    BY <1>2, <1>3, <2>2
  <2> QED
    BY <2>1, <2>2
<1>7. (\A i \in 1..(n + 1) : E(i) = Mark(log, i)) <=>
      (\A i \in 1..n : log.records[i].cursor = E(i)) /\ E(n + 1) = log.end
  <2> HIDE DEF E
  <2> QED
    BY <1>1, <1>4, <1>5
<1>8. n = Len(log.records)
  BY DEF n
<1> QED
  BY <1>6, <1>7, <1>8 DEF Tiles, Linked

LEMMA Marked ==
  ASSUME NEW log \in Logs, Linked(log)
  PROVE  /\ \A i \in 1..Len(log.records) :
              /\ Mark(log, i + 1) = Mark(log, i) + Len(log.records[i].bytes)
              /\ Len(log.records[i].bytes) \in Nat \ {0}
         /\ \A k \in 0..Len(log.records) :
              /\ Mark(log, 1) <= Mark(log, k + 1) /\ Mark(log, k + 1) <= log.end
              /\ BytesIn(log.records)[k] = Mark(log, k + 1) - Mark(log, 1)
<1> DEFINE n == Len(log.records)
<1>1. /\ n \in Nat /\ Mark(log, n + 1) = log.end /\ log.records \in Seq(Chunk)
      /\ \A i \in 1..n : Mark(log, i) = log.records[i].cursor
      /\ \A i \in 1..(n + 1) : Mark(log, i) \in Nat
  BY LogTyped
<1>2. ASSUME NEW i \in 1..n
      PROVE  /\ Mark(log, i + 1) = Mark(log, i) + Len(log.records[i].bytes)
             /\ Len(log.records[i].bytes) \in Nat \ {0}
  <2>1. /\ Len(log.records[i].bytes) \in Nat
        /\ log.records[i].bytes # <<>> => Len(log.records[i].bytes) >= 1
        /\ RecordEnd(log.records[i]) = log.records[i].cursor + Len(log.records[i].bytes)
    BY <1>1, RecordsTyped
  <2>2. log.records[i].bytes # <<>> /\ RecordEnd(log.records[i]) = Mark(log, i + 1)
    BY DEF Linked
  <2> QED
    BY <1>1, <2>1, <2>2
<1>3. /\ BytesIn(log.records)[0] = 0
      /\ \A k \in 1..n :
           BytesIn(log.records)[k] = BytesIn(log.records)[k - 1] + Len(log.records[k].bytes)
  BY <1>1, Counted
<1> HIDE DEF n
<1>4. 0..n \subseteq {k \in 0..n : /\ Mark(log, 1) <= Mark(log, k + 1)
                                   /\ BytesIn(log.records)[k] = Mark(log, k + 1) - Mark(log, 1)}
  <2> DEFINE S == {k \in 0..n : /\ Mark(log, 1) <= Mark(log, k + 1)
                                /\ BytesIn(log.records)[k] = Mark(log, k + 1) - Mark(log, 1)}
  <2>1. 0 \in S
    <3>1. 1 \in 1..(n + 1) /\ 0 \in 0..n
      BY <1>1
    <3> QED
      BY <1>1, <1>3, <3>1
  <2>2. ASSUME NEW k \in 1..n, k - 1 \in S
        PROVE  k \in S
    <3>1. k \in 1..(n + 1) /\ 1 \in 1..(n + 1) /\ k + 1 \in 1..(n + 1) /\ k \in 0..n
          /\ (k - 1) + 1 = k
      BY <1>1
    <3>2. Mark(log, k) \in Nat /\ Mark(log, 1) \in Nat /\ Mark(log, k + 1) \in Nat
      BY <1>1, <3>1
    <3>3. Mark(log, 1) <= Mark(log, k) /\ BytesIn(log.records)[k - 1] = Mark(log, k) - Mark(log, 1)
      BY <2>2, <3>1
    <3>4. /\ Mark(log, k + 1) = Mark(log, k) + Len(log.records[k].bytes)
          /\ Len(log.records[k].bytes) \in Nat \ {0}
          /\ BytesIn(log.records)[k] = BytesIn(log.records)[k - 1] + Len(log.records[k].bytes)
      BY <1>2, <1>3
    <3>5. PICK x \in Nat, y \in Nat, l \in Nat :
            x = Mark(log, k) /\ y = Mark(log, 1) /\ l = Len(log.records[k].bytes)
      BY <3>2, <3>4
    <3>6. PICK z \in Nat : z = Mark(log, k + 1)
      BY <3>2
    <3>7. PICK b : b = BytesIn(log.records)[k - 1]
      OBVIOUS
    <3>8. z = x + l /\ y <= x /\ b = x - y /\ BytesIn(log.records)[k] = b + l
      BY <3>3, <3>4, <3>5, <3>6, <3>7
    <3>9. y <= z /\ b + l = z - y
      BY <3>8
    <3> QED
      BY <3>1, <3>5, <3>6, <3>8, <3>9
  <2> HIDE DEF S
  <2>3. 0..n \subseteq S
    BY <1>1, <2>1, <2>2, Induction
  <2> QED
    BY <2>3 DEF S
<1>5. ASSUME NEW k \in 0..n
      PROVE  Mark(log, k + 1) <= log.end
  <2> DEFINE S == {j \in 0..n : Mark(log, (n + 1) - j) <= log.end}
  <2>1. 0 \in S
    <3>1. (n + 1) - 0 = n + 1 /\ 0 \in 0..n /\ n + 1 \in 1..(n + 1)
      BY <1>1
    <3> QED
      BY <1>1, <3>1
  <2>2. ASSUME NEW j \in 1..n, j - 1 \in S
        PROVE  j \in S
    <3>1. /\ (n + 1) - j \in 1..n /\ ((n + 1) - j) + 1 = (n + 1) - (j - 1)
          /\ (n + 1) - j \in 1..(n + 1) /\ ((n + 1) - j) + 1 \in 1..(n + 1)
          /\ n + 1 \in 1..(n + 1) /\ j \in 0..n
      BY <1>1
    <3>2. PICK i \in 1..n : i = (n + 1) - j
      BY <3>1
    <3>3. Mark(log, i + 1) = Mark(log, i) + Len(log.records[i].bytes)
          /\ Len(log.records[i].bytes) \in Nat
      BY <1>2
    <3>4. Mark(log, i) \in Nat /\ Mark(log, i + 1) \in Nat /\ log.end \in Nat
      BY <1>1, <3>1, <3>2
    <3>5. Mark(log, i + 1) <= log.end
      BY <2>2, <3>1, <3>2
    <3>6. Mark(log, i) <= log.end
      <4>1. PICK l \in Nat : l = Len(log.records[i].bytes)
        BY <3>3
      <4>2. Mark(log, i + 1) = Mark(log, i) + l
        BY <3>3, <4>1
      <4> QED
        BY <3>4, <3>5, <4>2
    <3> QED
      BY <3>1, <3>2, <3>6
  <2> HIDE DEF S
  <2>3. 0..n \subseteq S
    BY <1>1, <2>1, <2>2, Induction
  <2>4. n - k \in 0..n /\ (n + 1) - (n - k) = k + 1
    BY <1>1
  <2> QED
    BY <2>3, <2>4 DEF S
<1>6. n = Len(log.records)
  BY DEF n
<1> QED
  BY <1>2, <1>4, <1>5, <1>6

-----------------------------------------------------------------------------
(***************************************************************************)
(* Lemmas: a sound log stays sound when its limits are enforced            *)
(***************************************************************************)
LEMMA SoundLinks ==
  ASSUME NEW log \in Logs
  PROVE  Sound(log) <=> Linked(log) /\ log.retained = log.end - Mark(log, 1)
<1>1. Tiles(log.records, StartCursor(log), log.end) <=> Linked(log)
  BY TilesLink
<1>2. StartCursor(log) = Mark(log, 1)
  BY LogTyped
<1> QED
  BY <1>1, <1>2 DEF Sound

\* What a cut of the records leaves: its tail.
LEMMA TailOf ==
  ASSUME NEW q \in Seq(Chunk), NEW k \in 0..Len(q)
  PROVE  /\ SubSeq(q, k + 1, Len(q)) \in Seq(Chunk)
         /\ Len(SubSeq(q, k + 1, Len(q))) = Len(q) - k
         /\ \A i \in 1..(Len(q) - k) : SubSeq(q, k + 1, Len(q))[i] = q[k + i]
  OBVIOUS

LEMMA PoppedSound ==
  ASSUME NEW log \in Logs, Sound(log), NEW k \in 0..Len(log.records)
  PROVE  /\ Popped(log, k) \in Logs /\ Sound(Popped(log, k))
         /\ Popped(log, k).end = log.end
         /\ Len(Popped(log, k).records) = Len(log.records) - k
         /\ Popped(log, k).retained = log.end - Mark(log, k + 1)
         /\ k = 0 => Popped(log, k) = log
         /\ k < Len(log.records) => /\ Popped(log, k).records # <<>>
                                    /\ Head(Popped(log, k).records) = log.records[k + 1]
<1> DEFINE p == Popped(log, k)
<1>1. PICK q \in Seq(Chunk) : q = log.records
  BY LogTyped
<1>2. PICK n \in Nat : n = Len(q) /\ n = Len(log.records)
  BY <1>1
<1>3. /\ log.end \in Cursors /\ log.end \in Nat /\ log.retained \in Nat
      /\ \A i \in 1..n : Mark(log, i) = q[i].cursor
      /\ \A i \in 1..(n + 1) : Mark(log, i) \in Nat
      /\ Mark(log, n + 1) = log.end
  BY <1>1, <1>2, LogTyped
<1>4. Linked(log) /\ log.retained = log.end - Mark(log, 1)
  BY SoundLinks
<1>5. /\ Mark(log, 1) <= Mark(log, k + 1) /\ Mark(log, k + 1) <= log.end
      /\ BytesIn(q)[k] = Mark(log, k + 1) - Mark(log, 1)
  BY <1>1, <1>2, <1>4, Marked
<1>6. k \in 0..n /\ k + 1 \in 1..(n + 1) /\ 1 \in 1..(n + 1)
  BY <1>2
<1>7. PICK x \in Nat, y \in Nat : x = Mark(log, 1) /\ y = Mark(log, k + 1)
  BY <1>3, <1>6
<1>8. log.retained - BytesIn(q)[k] = log.end - y /\ log.end - y \in Nat
  BY SMTT(60), <1>3, <1>4, <1>5, <1>7
<1>9. PICK t \in Seq(Chunk) : /\ t = SubSeq(q, k + 1, Len(q)) /\ Len(t) = n - k
                              /\ \A i \in 1..(n - k) : t[i] = q[k + i]
  BY ZenonT(60), <1>2, TailOf
<1>10. PICK e \in Nat, r \in Nat : /\ e = log.end /\ r = log.retained
                                   /\ log = [records |-> q, end |-> e, retained |-> r]
  BY <1>1, <1>3 DEF Logs
<1>11. p = [records |-> t, end |-> log.end, retained |-> log.end - y]
  <2>1. p = [records |-> SubSeq(q, k + 1, Len(q)), end |-> log.end,
             retained |-> log.retained - BytesIn(q)[k]]
    <3>1. PICK b : b = BytesIn(q)[k]
      OBVIOUS
    <3>2. p = [log EXCEPT !.records = SubSeq(q, k + 1, Len(q)), !.retained = r - b]
      BY <1>1, <1>10, <3>1 DEF Popped
    <3>3. p = [records |-> SubSeq(q, k + 1, Len(q)), end |-> e, retained |-> r - b]
      BY <1>10, <3>2
    <3> QED
      BY <1>10, <3>1, <3>3
  <2> QED
    BY <1>8, <1>9, <2>1
<1> HIDE DEF p
<1>12. p \in Logs /\ p.records = t /\ p.end = log.end /\ p.retained = log.end - y
  BY <1>3, <1>8, <1>11 DEF Logs
<1>13. ASSUME NEW i \in 1..(n - k + 1)
       PROVE  Mark(p, i) = Mark(log, k + i)
  <2>1. CASE i <= n - k
    <3>1. i \in 1..(n - k) /\ k + i \in 1..n
      BY <1>6, <2>1
    <3>2. Mark(p, i) = t[i].cursor
      BY <1>9, <1>12, <2>1 DEF Mark
    <3> QED
      BY <1>3, <1>9, <3>1, <3>2
  <2>2. CASE ~(i <= n - k)
    <3>1. k + i = n + 1
      BY <1>6, <2>2
    <3>2. Mark(p, i) = log.end
      BY <1>9, <1>12, <2>2 DEF Mark
    <3> QED
      BY <1>3, <3>1, <3>2
  <2> QED
    BY <2>1, <2>2
<1>14. Linked(p)
  <2> SUFFICES ASSUME NEW i \in 1..(n - k)
               PROVE  /\ t[i].bytes # <<>> /\ RecordEnd(t[i]) = Mark(p, i + 1)
                      /\ \A j \in 1..Len(t[i].bytes) : t[i].bytes[j] = t[i].cursor + j - 1
    BY ZenonT(60), <1>9, <1>12 DEF Linked
  <2>1. k + i \in 1..n /\ i + 1 \in 1..(n - k + 1) /\ k + (i + 1) = (k + i) + 1
    BY <1>6
  <2>2. t[i] = q[k + i] /\ Mark(p, i + 1) = Mark(log, (k + i) + 1)
    BY <1>9, <1>13, <2>1
  <2> QED
    BY SMTT(60), <1>1, <1>2, <1>4, <2>1, <2>2 DEF Linked
<1>15. Mark(p, 1) = y
  <2>1. 1 \in 1..(n - k + 1)
    BY <1>6
  <2> QED
    BY <1>7, <1>13, <2>1
<1>16. Sound(p)
  BY <1>12, <1>14, <1>15, SoundLinks
<1>17. k = 0 => p = log
  <2>1. ASSUME k = 0
        PROVE  p = log
    <3>1. SubSeq(q, 1, Len(q)) = q
      OBVIOUS
    <3>2. t = q /\ log.end - y = log.retained
      <4>1. k + 1 = 1
        BY SMTT(60), <2>1
      <4>2. t = q
        BY <1>9, <3>1, <4>1
      <4> QED
        BY <1>4, <1>7, <4>1, <4>2
    <3> QED
      BY <1>10, <1>11, <3>2
  <2> QED
    BY <2>1
<1>18. k < n => t # <<>> /\ Head(t) = q[k + 1]
  <2>1. ASSUME k < n
        PROVE  t # <<>> /\ Head(t) = q[k + 1]
    <3>1. 1 \in 1..(n - k) /\ Len(t) # 0
      BY <1>6, <1>9, <2>1
    <3>2. t # <<>> /\ Head(t) = t[1]
      BY <3>1
    <3> QED
      BY <1>9, <3>1, <3>2
  <2> QED
    BY <2>1
<1> QED
  BY SMTT(60), <1>1, <1>2, <1>7, <1>9, <1>12, <1>16, <1>17, <1>18 DEF p

\* The front record without its first bytes, under the cursor of the rest.
LEMMA BytesCut ==
  ASSUME NEW b \in Seq(Cursors), NEW x \in Nat, x < Len(b)
  PROVE  /\ SubSeq(b, x + 1, Len(b)) \in Seq(Cursors) /\ SubSeq(b, x + 1, Len(b)) # <<>>
         /\ Len(SubSeq(b, x + 1, Len(b))) = Len(b) - x
         /\ \A j \in 1..(Len(b) - x) : SubSeq(b, x + 1, Len(b))[j] = b[x + j]
<1>1. /\ SubSeq(b, x + 1, Len(b)) \in Seq(Cursors)
      /\ Len(SubSeq(b, x + 1, Len(b))) = Len(b) - x
      /\ \A j \in 1..(Len(b) - x) : SubSeq(b, x + 1, Len(b))[j] = b[x + j]
  OBVIOUS
<1>2. Len(b) - x # 0
  OBVIOUS
<1> QED
  BY <1>1, <1>2

WithFirst(q, m) == [q EXCEPT ![1] = m]

LEMMA FirstReplaced ==
  ASSUME NEW q \in Seq(Chunk), NEW m \in Chunk, Len(q) >= 1
  PROVE  /\ WithFirst(q, m) \in Seq(Chunk) /\ Len(WithFirst(q, m)) = Len(q)
         /\ WithFirst(q, m)[1] = m
         /\ \A i \in 1..Len(q) : i # 1 => WithFirst(q, m)[i] = q[i]
  BY DEF WithFirst

LEMMA FrontCut ==
  ASSUME NEW a \in Chunk, NEW x \in Nat, a.cursor + x \in Cursors,
         SubSeq(a.bytes, x + 1, Len(a.bytes)) \in Seq(Cursors)
  PROVE  /\ CutFront(a, x) \in Chunk /\ CutFront(a, x).cursor = a.cursor + x
         /\ CutFront(a, x).bytes = SubSeq(a.bytes, x + 1, Len(a.bytes))
<1>0. PICK z \in Cursors, d \in Seq(Cursors) :
        z = a.cursor + x /\ d = SubSeq(a.bytes, x + 1, Len(a.bytes))
  OBVIOUS
<1> DEFINE front == [a EXCEPT !.bytes = d, !.cursor = z]
<1>1. front \in Chunk /\ front.bytes = d /\ front.cursor = z
  BY DEF Chunk
<1>2. CutFront(a, x) = front
  BY <1>0, Zenon DEF CutFront
<1> QED
  BY <1>0, <1>1, <1>2

LEMMA FrontSet ==
  ASSUME NEW log \in Logs, NEW q \in Seq(Chunk), q = log.records, Len(q) >= 1, NEW x \in Nat,
         CutFront(q[1], x) \in Chunk, log.retained - x \in Nat
  PROVE  /\ TrimFront(log, x) \in Logs
         /\ TrimFront(log, x).records = WithFirst(q, CutFront(q[1], x))
         /\ TrimFront(log, x).end = log.end /\ TrimFront(log, x).retained = log.retained - x
<1> DEFINE u == WithFirst(q, CutFront(q[1], x))
<1>1. u \in Seq(Chunk)
  BY FirstReplaced
<1>2. PICK left \in Nat : left = log.retained - x
  OBVIOUS
<1> HIDE DEF u
<1> DEFINE p == [log EXCEPT !.records = u, !.retained = left]
<1>3. p \in Logs /\ p.records = u /\ p.end = log.end /\ p.retained = left
  BY <1>1 DEF Logs
<1>4. TrimFront(log, x) = p
  <2>1. TrimFront(log, x) = [log EXCEPT !.records = [log.records EXCEPT ![1] =
                                                       CutFront(log.records[1], x)],
                                        !.retained = log.retained - x]
    BY Zenon DEF TrimFront
  <2> QED
    BY <1>2, <2>1, Zenon DEF u, WithFirst
<1> QED
  BY <1>2, <1>3, <1>4 DEF u

LEMMA TrimmedSound ==
  ASSUME NEW log \in Logs, Sound(log), NEW x \in Nat, log.records # <<>>,
         x < Len(Head(log.records).bytes)
  PROVE  /\ TrimFront(log, x) \in Logs /\ Sound(TrimFront(log, x))
         /\ TrimFront(log, x).end = log.end
         /\ Len(TrimFront(log, x).records) = Len(log.records)
         /\ TrimFront(log, x).retained = log.retained - x
<1>1. PICK q \in Seq(Chunk) : q = log.records
  BY LogTyped
<1>2. PICK n \in Nat : n = Len(q) /\ n = Len(log.records)
  BY <1>1
<1>3. n >= 1 /\ Head(q) = q[1] /\ 1 \in 1..n
  BY <1>1, <1>2
<1>4. Linked(log) /\ log.retained = log.end - Mark(log, 1)
  BY SoundLinks
<1>5. /\ Mark(log, 1) = q[1].cursor /\ Mark(log, 1) \in Nat /\ Mark(log, 2) \in Cursors
      /\ \A i \in 1..n : Mark(log, i) = q[i].cursor
      /\ Mark(log, n + 1) = log.end
      /\ log.end \in Cursors /\ log.retained \in Nat /\ log.end \in Nat
  <2>1. 2 \in 1..(n + 1) /\ 1 \in 1..(n + 1)
    BY <1>3
  <2> QED
    BY <1>1, <1>2, <1>3, <2>1, LogTyped
<1>6. PICK e \in Nat, r \in Nat : /\ e = log.end /\ r = log.retained
                                  /\ log = [records |-> q, end |-> e, retained |-> r]
  BY <1>1, <1>5 DEF Logs
<1>7. PICK st \in Streams, c \in Cursors, b \in Seq(Cursors) :
        q[1] = [stream |-> st, cursor |-> c, bytes |-> b]
  <2>1. q[1] \in Chunk
    BY <1>2, <1>3, RecordsTyped
  <2> QED
    BY <2>1 DEF Chunk
<1>8. /\ c \in Nat /\ Len(b) \in Nat /\ x < Len(b) /\ Mark(log, 1) = c
      /\ Mark(log, 2) = c + Len(b) /\ c + Len(b) <= e
      /\ \A j \in 1..Len(b) : b[j] = c + j - 1
  <2>1. c \in Nat /\ Len(b) \in Nat
    BY <1>7, LimitsAssumption DEF Cursors
  <2>2. x < Len(b) /\ Mark(log, 1) = c
    BY <1>1, <1>3, <1>5, <1>7
  <2>3. Mark(log, 1 + 1) = c + Len(b) /\ \A j \in 1..Len(b) : b[j] = c + j - 1
    <3>1. Mark(log, 1 + 1) = Mark(log, 1) + Len(b)
      BY <1>1, <1>2, <1>3, <1>4, <1>7, Marked
    <3> QED
      BY SMTT(60), <1>1, <1>2, <1>3, <1>4, <1>7, <2>2, <3>1 DEF Linked
  <2>4. Mark(log, 1 + 1) <= log.end
    BY <1>2, <1>3, <1>4, Marked
  <2> QED
    BY <1>6, <2>1, <2>2, <2>3, <2>4
<1>9. PICK d \in Seq(Cursors) : /\ d = SubSeq(b, x + 1, Len(b)) /\ d # <<>> /\ Len(d) = Len(b) - x
                                /\ \A j \in 1..(Len(b) - x) : d[j] = b[x + j]
  BY <1>8, BytesCut
<1>10. c + x \in Cursors
  BY <1>5, <1>6, <1>8, LimitsAssumption DEF Cursors
<1>13. r - x \in Nat /\ r - x = e - (c + x)
  BY SMTT(60), <1>4, <1>6, <1>8
<1> DEFINE p == TrimFront(log, x)
<1>11. PICK front \in Chunk :
         /\ front.bytes = d /\ front.cursor = c + x /\ p \in Logs
         /\ p.records = WithFirst(q, front) /\ p.end = e /\ p.retained = r - x
  <2>1. q[1] \in Chunk /\ q[1].bytes = b /\ q[1].cursor = c
    <3>1. q[1] \in Chunk
      BY <1>2, <1>3, RecordsTyped
    <3> QED
      BY <1>7, <3>1
  <2>2. PICK z \in Cursors : z = c + x
    BY <1>10
  <2>3. /\ CutFront(q[1], x) \in Chunk
        /\ CutFront(q[1], x).bytes = d /\ CutFront(q[1], x).cursor = z
    <3>1. PICK a \in Chunk : a = q[1]
      BY <2>1
    <3>2. z = a.cursor + x /\ d = SubSeq(a.bytes, x + 1, Len(a.bytes))
      BY <1>9, <2>1, <2>2, <3>1
    <3>3. a.cursor + x \in Cursors /\ SubSeq(a.bytes, x + 1, Len(a.bytes)) \in Seq(Cursors)
      BY <3>2
    <3>4. /\ CutFront(a, x) \in Chunk /\ CutFront(a, x).cursor = a.cursor + x
          /\ CutFront(a, x).bytes = SubSeq(a.bytes, x + 1, Len(a.bytes))
      BY <3>3, FrontCut
    <3> QED
      BY <3>1, <3>2, <3>4
  <2>4. Len(q) >= 1 /\ log.retained - x \in Nat
    BY <1>2, <1>3, <1>6, <1>13
  <2>5. /\ TrimFront(log, x) \in Logs
        /\ TrimFront(log, x).records = WithFirst(q, CutFront(q[1], x))
        /\ TrimFront(log, x).end = log.end /\ TrimFront(log, x).retained = log.retained - x
    BY <1>1, <2>3, <2>4, FrontSet
  <2> QED
    BY SMTT(60), <1>6, <2>2, <2>3, <2>5
<1> DEFINE u == WithFirst(q, front)
<1> HIDE DEF p
<1>12. /\ u \in Seq(Chunk) /\ Len(u) = n /\ u[1] = front
       /\ \A i \in 1..n : i # 1 => u[i] = q[i]
  <2>1. Len(q) >= 1
    BY <1>2, <1>3
  <2>2. /\ WithFirst(q, front) \in Seq(Chunk) /\ Len(WithFirst(q, front)) = Len(q)
        /\ WithFirst(q, front)[1] = front
        /\ \A i \in 1..Len(q) : i # 1 => WithFirst(q, front)[i] = q[i]
    BY <2>1, FirstReplaced, Zenon
  <2> QED
    BY <1>2, <2>2
<1>14. p \in Logs /\ p.records = u /\ p.end = e /\ p.retained = r - x
  BY <1>11
<1> HIDE DEF u
<1>18. RecordEnd(front) = c + Len(b)
  <2>1. PICK l \in Nat : l = Len(b)
    BY <1>8
  <2>2. Len(front.bytes) = l - x /\ front.cursor = c + x
    BY <1>9, <1>11, <2>1
  <2>3. RecordEnd(front) = (c + x) + (l - x)
    BY <2>2 DEF RecordEnd
  <2> QED
    BY <1>8, <2>1, <2>3
<1>15. Mark(p, 1) = c + x /\ \A i \in 1..(n + 1) : i # 1 => Mark(p, i) = Mark(log, i)
  <2>1. u[1].cursor = c + x
    BY <1>11, <1>12
  <2>2. Mark(p, 1) = c + x
    BY <1>3, <1>12, <1>14, <2>1 DEF Mark
  <2>3. ASSUME NEW i \in 1..(n + 1), i # 1
        PROVE  Mark(p, i) = Mark(log, i)
    BY SMTT(60), <1>1, <1>2, <1>6, <1>12, <1>14, <2>3 DEF Mark
  <2> QED
    BY <2>2, <2>3
<1>16. Linked(p)
  <2> SUFFICES ASSUME NEW i \in 1..n
               PROVE  /\ u[i].bytes # <<>> /\ RecordEnd(u[i]) = Mark(p, i + 1)
                      /\ \A j \in 1..Len(u[i].bytes) : u[i].bytes[j] = u[i].cursor + j - 1
    BY <1>12, <1>14 DEF Linked
  <2>1. i + 1 \in 1..(n + 1) /\ i + 1 # 1 /\ Mark(p, i + 1) = Mark(log, i + 1)
    BY SMTT(60), <1>15
  <2>2. CASE i = 1
    <3>1. \A j \in 1..Len(d) : d[j] = (c + x) + j - 1
      <4> SUFFICES ASSUME NEW j \in 1..Len(d) PROVE d[j] = (c + x) + j - 1
        OBVIOUS
      <4>1. j \in 1..(Len(b) - x) /\ x + j \in 1..Len(b)
        <5>1. PICK l \in Nat : l = Len(b)
          BY <1>8
        <5>2. x < l /\ j \in 1..(l - x)
          BY <1>8, <1>9, <5>1
        <5> QED
          BY <5>1, <5>2
      <4>2. d[j] = b[x + j] /\ b[x + j] = c + (x + j) - 1
        BY <1>8, <1>9, <4>1
      <4> QED
        BY SMTT(60), <1>8, <4>2
    <3>2. u[i].bytes = d /\ u[i].cursor = c + x /\ u[i] = front
      BY <1>11, <1>12, <2>2
    <3>3. Mark(p, i + 1) = c + Len(b)
      BY <1>8, <2>1, <2>2
    <3> QED
      BY <1>9, <1>18, <3>1, <3>2, <3>3
  <2>3. CASE i # 1
    BY ZenonT(60), <1>1, <1>2, <1>4, <1>12, <2>1, <2>3 DEF Linked
  <2> QED
    BY <2>2, <2>3
<1>17. Sound(p)
  BY <1>13, <1>14, <1>15, <1>16, SoundLinks
<1> QED
  BY <1>2, <1>6, <1>12, <1>14, <1>17 DEF p

LEMMA MinOf ==
  ASSUME NEW S, S \subseteq Nat, S # {}
  PROVE  Min(S) \in S /\ \A y \in S : Min(S) <= y
<1>1. \E x \in S : \A y \in S : x <= y
  BY LeastOf
<1> QED
  BY <1>1 DEF Min

\* The first loop of enforce_limits.
LEMMA RecordsDropped ==
  ASSUME NEW log \in Logs, Sound(log)
  PROVE  /\ DropRecords(log) \in Logs /\ Sound(DropRecords(log)) /\ DropRecords(log).end = log.end
         /\ Len(DropRecords(log).records) <= MaxRecords
         /\ DropRecords(log) = log \/ Len(DropRecords(log).records) = MaxRecords
         /\ Len(log.records) <= MaxRecords => DropRecords(log) = log
<1>1. Len(log.records) \in Nat /\ MaxRecords \in Nat
  BY LogTyped, LimitsAssumption
<1>2. CASE Len(log.records) > MaxRecords
  <2>1. PICK k \in 0..Len(log.records) : k = Len(log.records) - MaxRecords
    BY SMTT(60), <1>1, <1>2
  <2>2. /\ Popped(log, k) \in Logs /\ Sound(Popped(log, k)) /\ Popped(log, k).end = log.end
        /\ Len(Popped(log, k).records) = Len(log.records) - k
    BY PoppedSound
  <2>3. DropRecords(log) = Popped(log, k)
    BY <1>2, <2>1 DEF DropRecords
  <2>4. Len(log.records) - k = MaxRecords /\ ~(Len(log.records) <= MaxRecords)
    BY <1>1, <1>2, <2>1
  <2> QED
    BY <1>1, <2>2, <2>3, <2>4
<1>3. CASE ~(Len(log.records) > MaxRecords)
  <2>1. DropRecords(log) = log /\ Len(log.records) <= MaxRecords
    BY <1>1, <1>3 DEF DropRecords
  <2> QED
    BY <2>1
<1> QED
  BY <1>2, <1>3

\* The second loop: what it leaves uses up the byte limit, if it drops anything.
LEMMA BytesDropped ==
  ASSUME NEW log \in Logs, Sound(log)
  PROVE  /\ DropBytes(log) \in Logs /\ Sound(DropBytes(log)) /\ DropBytes(log).end = log.end
         /\ DropBytes(log).retained <= MaxBytes
         /\ Len(DropBytes(log).records) <= Len(log.records)
         /\ DropBytes(log) = log \/ DropBytes(log).retained = MaxBytes
         /\ log.retained <= MaxBytes => DropBytes(log) = log
<1>1. PICK n \in Nat : n = Len(log.records)
  BY LogTyped
<1>2. MaxBytes \in Nat
  BY LimitsAssumption
<1>3. /\ \A i \in 1..n : /\ Mark(log, i + 1) = Mark(log, i) + Len(log.records[i].bytes)
                         /\ Len(log.records[i].bytes) \in Nat
      /\ \A i \in 1..(n + 1) : Mark(log, i) \in Nat
      /\ Mark(log, n + 1) = log.end /\ log.end \in Nat
  <2>1. Linked(log)
    BY SoundLinks
  <2> QED
    BY SMTT(60), <1>1, <2>1, LogTyped, Marked
<1>4. \A k \in 0..n :
        /\ Popped(log, k) \in Logs /\ Sound(Popped(log, k)) /\ Popped(log, k).end = log.end
        /\ Len(Popped(log, k).records) = n - k
        /\ Popped(log, k).retained = log.end - Mark(log, k + 1)
        /\ k = 0 => Popped(log, k) = log
        /\ k < n => /\ Popped(log, k).records # <<>>
                    /\ Head(Popped(log, k).records) = log.records[k + 1]
  BY <1>1, PoppedSound
<1> DEFINE S == {k \in 0..n : FrontStays(Popped(log, k))}
<1>5. n \in S /\ S \subseteq Nat
  <2>1. n \in 0..n /\ log.end - Mark(log, n + 1) = 0
    BY <1>3
  <2>2. Popped(log, n).retained = 0
    BY <1>4, <2>1
  <2>3. 0 <= MaxBytes
    BY <1>2
  <2> QED
    BY <2>1, <2>2, <2>3 DEF FrontStays
<1>6. PICK m \in S : m = Min(S) /\ \A y \in S : m <= y
  <2> HIDE DEF S
  <2> QED
    BY <1>5, MinOf
<1>7. m \in 0..n /\ FrontStays(Popped(log, m))
  OBVIOUS
<1>8. PICK left \in Logs : left = Popped(log, m)
  BY <1>4, <1>7
<1>9. /\ Sound(left) /\ left.end = log.end /\ Len(left.records) = n - m /\ left.retained \in Nat
      /\ left.retained = log.end - Mark(log, m + 1) /\ FrontStays(left)
      /\ m = 0 => left = log
      /\ m < n => left.records # <<>>
  BY <1>4, <1>7, <1>8, LogTyped
<1>10. DropBytes(log) = IF left.retained <= MaxBytes THEN left
                        ELSE TrimFront(left, left.retained - MaxBytes)
  BY <1>1, <1>6, <1>8 DEF DropBytes
<1>11. log.retained <= MaxBytes => m = 0
  <2>1. ASSUME log.retained <= MaxBytes
        PROVE  m = 0
    <3>1. 0 \in 0..n /\ Popped(log, 0) = log
      BY <1>1, <1>4
    <3>2. 0 \in S
      BY <2>1, <3>1 DEF FrontStays
    <3> HIDE DEF S
    <3>3. m <= 0
      BY <1>6, <3>2
    <3> QED
      BY <1>7, <3>3
  <2> QED
    BY <2>1
<1>12. m # 0 => left.retained >= MaxBytes
  <2>1. ASSUME m # 0
        PROVE  left.retained >= MaxBytes
    <3>1. PICK k \in 0..n : k = m - 1 /\ k + 1 = m /\ k < n /\ ~(m <= k)
      BY <1>7, <2>1
    <3>2. k \notin S
      BY <1>6, <3>1
    <3>3. ~FrontStays(Popped(log, k))
      BY <3>2
    <3>4. /\ Popped(log, k).retained = log.end - Mark(log, m)
          /\ Head(Popped(log, k).records) = log.records[m]
      BY <1>4, <3>1
    <3>5. m \in 1..n /\ m \in 1..(n + 1) /\ m + 1 \in 1..(n + 1)
      BY <1>7, <2>1
    <3>6. PICK l \in Nat, x \in Nat, e \in Nat :
            l = Len(log.records[m].bytes) /\ x = Mark(log, m) /\ e = log.end
      BY <1>3, <3>5
    <3>7. ~(e - x <= MaxBytes) /\ ~(l > (e - x) - MaxBytes)
      BY <3>3, <3>4, <3>6 DEF FrontStays
    <3>8. left.retained = e - (x + l)
      BY <1>3, <1>9, <3>5, <3>6
    <3> QED
      BY <1>2, <3>7, <3>8
  <2> QED
    BY <2>1
<1>13. CASE left.retained <= MaxBytes
  <2>1. DropBytes(log) = left
    BY <1>10, <1>13
  <2>2. n - m <= n
    BY <1>7
  <2>3. m # 0 => left.retained = MaxBytes
    BY <1>2, <1>9, <1>12, <1>13
  <2> QED
    BY <1>1, <1>9, <1>11, <1>13, <2>1, <2>2, <2>3
<1>14. CASE ~(left.retained <= MaxBytes)
  <2>1. PICK x \in Nat : x = left.retained - MaxBytes
    BY <1>2, <1>9, <1>14
  <2>2. m < n
    <3>1. ASSUME m = n
          PROVE  FALSE
      <4>1. left.retained = 0
        BY <1>3, <1>9, <3>1
      <4> QED
        BY <1>2, <1>14, <4>1
    <3> QED
      BY <1>7, <3>1
  <2>3. left.records # <<>> /\ x < Len(Head(left.records).bytes)
    <3>1. Len(Head(left.records).bytes) > x
      BY <1>9, <1>14, <2>1 DEF FrontStays
    <3>2. left.records # <<>>
      BY <1>9, <2>2
    <3>3. Len(Head(left.records).bytes) \in Nat
      <4>1. m + 1 \in 1..n /\ Head(left.records) = log.records[m + 1]
        BY <1>4, <1>7, <1>8, <2>2
      <4> QED
        BY <1>3, <4>1
    <3> QED
      BY <3>1, <3>2, <3>3
  <2>4. /\ TrimFront(left, x) \in Logs /\ Sound(TrimFront(left, x))
        /\ TrimFront(left, x).end = left.end
        /\ Len(TrimFront(left, x).records) = Len(left.records)
        /\ TrimFront(left, x).retained = left.retained - x
    BY <1>9, <2>3, TrimmedSound
  <2>5. DropBytes(log) = TrimFront(left, x)
    BY <1>10, <1>14, <2>1
  <2>6. left.retained - x = MaxBytes /\ n - m <= n
    BY <1>2, <1>7, <1>9, <2>1
  <2>7. ~(log.retained <= MaxBytes)
    BY <1>9, <1>11, <1>14
  <2> QED
    BY SMTT(60), <1>1, <1>2, <1>9, <2>4, <2>5, <2>6, <2>7
<1> QED
  BY <1>13, <1>14

LEMMA Enforced ==
  ASSUME NEW log \in Logs, Sound(log)
  PROVE  /\ EnforceLimits(log) \in Logs /\ Sound(EnforceLimits(log))
         /\ Fits(EnforceLimits(log)) /\ EnforceLimits(log).end = log.end
         /\ \/ EnforceLimits(log) = log \/ EnforceLimits(log).retained = MaxBytes
            \/ Len(EnforceLimits(log).records) = MaxRecords
         /\ Fits(log) => EnforceLimits(log) = log
<1>1. PICK d \in Logs :
        /\ d = DropRecords(log) /\ Sound(d) /\ d.end = log.end /\ Len(d.records) <= MaxRecords
        /\ d = log \/ Len(d.records) = MaxRecords
        /\ Len(log.records) <= MaxRecords => d = log
  BY RecordsDropped
<1>2. PICK e \in Logs :
        /\ e = DropBytes(d) /\ Sound(e) /\ e.end = d.end /\ e.retained <= MaxBytes
        /\ Len(e.records) <= Len(d.records)
        /\ e = d \/ e.retained = MaxBytes
        /\ d.retained <= MaxBytes => e = d
  BY <1>1, BytesDropped
<1>3. EnforceLimits(log) = e
  BY <1>1, <1>2 DEF EnforceLimits
<1>4. Len(e.records) <= MaxRecords
  <2>1. Len(e.records) \in Nat /\ Len(d.records) \in Nat /\ MaxRecords \in Nat
    BY LogTyped, LimitsAssumption
  <2> QED
    BY <1>1, <1>2, <2>1
<1> QED
  BY <1>1, <1>2, <1>3, <1>4 DEF Fits

-----------------------------------------------------------------------------
(***************************************************************************)
(* Lemmas: what append makes of a log                                      *)
(***************************************************************************)
\* The bytes the process writes next.
Written(log, bytes) ==
  /\ bytes \in Seq(Cursors) /\ Len(bytes) >= 1 /\ log.end + Len(bytes) \in Cursors
  /\ \A i \in 1..Len(bytes) : bytes[i] = log.end + i - 1

\* The log behind which they stand.
Behind(log, bytes, g) ==
  /\ g \in Logs /\ Sound(g) /\ g.end = log.end + Len(bytes)
  /\ g.retained = log.retained + Len(bytes) /\ Len(g.records) >= Len(log.records)
  /\ StartCursor(g) = StartCursor(log)

LEMMA JoinedBytes ==
  ASSUME NEW a \in Seq(Cursors), NEW b \in Seq(Cursors)
  PROVE  /\ a \o b \in Seq(Cursors) /\ Len(a \o b) = Len(a) + Len(b)
         /\ Len(a) \in Nat /\ Len(b) \in Nat
         /\ \A i \in 1..Len(a) : (a \o b)[i] = a[i]
         /\ \A i \in 1..Len(b) : (a \o b)[Len(a) + i] = b[i]
  OBVIOUS

\* The records that a new one or longer bytes of the last one leave.
LEMMA Grown ==
  ASSUME NEW log \in Logs, Sound(log), NEW bytes, Written(log, bytes),
         NEW u \in Seq(Chunk), NEW n \in Nat \ {0}, n = Len(u),
         Len(log.records) = n \/ Len(log.records) = n - 1,
         \A i \in 1..(n - 1) : u[i] = log.records[i],
         u[n].cursor = Mark(log, n), u[n].bytes # <<>>,
         RecordEnd(u[n]) = log.end + Len(bytes),
         \A j \in 1..Len(u[n].bytes) : u[n].bytes[j] = u[n].cursor + j - 1,
         NEW g \in Logs, g.records = u, g.end = log.end + Len(bytes),
         g.retained = log.retained + Len(bytes)
  PROVE  Behind(log, bytes, g)
<1>1. PICK l \in Nat : l = Len(log.records) /\ (l = n \/ l = n - 1)
  BY LogTyped
<1>2. /\ log.end \in Nat /\ log.retained = log.end - Mark(log, 1) /\ Linked(log)
      /\ Mark(log, l + 1) = log.end
      /\ \A i \in 1..(l + 1) : Mark(log, i) \in Nat
      /\ \A i \in 1..l : Mark(log, i) = log.records[i].cursor
  BY SMTT(60), <1>1, LogTyped, SoundLinks
<1>3. ASSUME NEW i \in 1..n
      PROVE  Mark(g, i) = Mark(log, i)
  <2>1. Mark(g, i) = u[i].cursor
    BY DEF Mark
  <2>2. CASE i = n
    BY <2>1, <2>2
  <2>3. CASE i # n
    <3>1. i \in 1..(n - 1) /\ i \in 1..l
      BY <1>1, <2>3
    <3> QED
      BY <1>2, <2>1, <3>1
  <2> QED
    BY <2>2, <2>3
<1>4. Mark(g, n + 1) = g.end
  BY DEF Mark
<1>5. Linked(g)
  <2> SUFFICES ASSUME NEW i \in 1..n
               PROVE  /\ u[i].bytes # <<>> /\ RecordEnd(u[i]) = Mark(g, i + 1)
                      /\ \A j \in 1..Len(u[i].bytes) : u[i].bytes[j] = u[i].cursor + j - 1
    BY SMTT(60) DEF Linked
  <2>1. CASE i = n
    BY <1>4, <2>1
  <2>2. CASE i # n
    <3>1. i \in 1..(n - 1) /\ i \in 1..l /\ i + 1 \in 1..n
      BY <1>1, <2>2
    <3>2. u[i] = log.records[i] /\ Mark(g, i + 1) = Mark(log, i + 1)
      BY <1>3, <3>1
    <3> QED
      BY SMTT(60), <1>1, <1>2, <3>1, <3>2 DEF Linked
  <2> QED
    BY <2>1, <2>2
<1>6. Mark(g, 1) = Mark(log, 1) /\ Mark(log, 1) \in Nat
  <2>1. 1 \in 1..n /\ 1 \in 1..(l + 1)
    BY <1>1
  <2> QED
    BY <1>2, <1>3, <2>1
<1>7. g.retained = g.end - Mark(g, 1)
  <2>1. PICK w \in Nat : w = Len(bytes)
    BY DEF Written
  <2> QED
    BY <1>2, <1>6, <2>1
<1>8. Sound(g)
  BY <1>5, <1>7, SoundLinks
<1>9. StartCursor(g) = Mark(g, 1) /\ StartCursor(log) = Mark(log, 1)
  BY LogTyped
<1> QED
  BY <1>1, <1>6, <1>8, <1>9 DEF Behind

LEMMA AppendKeeps ==
  ASSUME NEW log \in Logs, LogOK(log), NEW stream \in Streams, NEW bytes, Written(log, bytes)
  PROVE  /\ AppendOutput(log, stream, bytes) \in Logs
         /\ LogOK(AppendOutput(log, stream, bytes))
         /\ AppendOutput(log, stream, bytes).end = log.end + Len(bytes)
<1>1. PICK q \in Seq(Chunk) : q = log.records
  BY LogTyped
<1>2. PICK l \in Nat : l = Len(q)
  OBVIOUS
<1>3. /\ log.end \in Cursors /\ log.end \in Nat /\ log.retained \in Nat
      /\ Sound(log) /\ Linked(log)
      /\ bytes \in Seq(Cursors) /\ log.end + Len(bytes) \in Cursors
  BY LogTyped, SoundLinks DEF LogOK, Written
<1>4. PICK w \in Nat \ {0} : w = Len(bytes)
  BY <1>3 DEF Written
<1> DEFINE same == l > 0 /\ q[l].stream = stream /\ RecordEnd(q[l]) = log.end
           longer == [q EXCEPT ![l] = [q[l] EXCEPT !.bytes = q[l].bytes \o bytes]]
           fresh == [stream |-> stream, cursor |-> log.end, bytes |-> bytes]
           u == IF same THEN longer ELSE Append(q, fresh)
           n == IF same THEN l ELSE l + 1
<1>5. PICK last \in Chunk :
        /\ last.bytes # <<>> /\ last.cursor = Mark(log, n) /\ RecordEnd(last) = log.end + w
        /\ \A j \in 1..Len(last.bytes) : last.bytes[j] = last.cursor + j - 1
        /\ u = IF same THEN [q EXCEPT ![l] = last] ELSE Append(q, last)
  <2>1. CASE same
    <3>1. l \in 1..Len(q) /\ l \in 1..l /\ n = l
      BY <1>2, <2>1
    <3>2. PICK a \in Chunk : a = q[l]
      BY <3>1, RecordsTyped
    <3>3. PICK b \in Seq(Cursors), x \in Nat : b = a.bytes /\ x = Len(b) /\ a.cursor \in Nat
      BY <3>1, <3>2, RecordsTyped
    <3>4. /\ Mark(log, l) = a.cursor /\ Mark(log, l + 1) = log.end /\ a.cursor + x = log.end
          /\ \A j \in 1..x : b[j] = a.cursor + j - 1
      <4>1. Mark(log, l) = a.cursor /\ Mark(log, l + 1) = log.end
        BY <1>1, <1>2, <3>1, <3>2, LogTyped
      <4>2. a.cursor + x = log.end
        BY <2>1, <3>2, <3>3 DEF RecordEnd
      <4>3. \A j \in 1..x : b[j] = a.cursor + j - 1
        BY <1>1, <1>2, <1>3, <3>1, <3>2, <3>3 DEF Linked
      <4> QED
        BY <4>1, <4>2, <4>3
    <3>5. PICK d \in Seq(Cursors) :
            /\ d = b \o bytes /\ Len(d) = x + w
            /\ \A i \in 1..x : d[i] = b[i]
            /\ \A i \in 1..w : d[x + i] = bytes[i]
      <4>1. PICK y \in Seq(Cursors) : y = bytes
        BY <1>3
      <4>2. /\ b \o y \in Seq(Cursors) /\ Len(b \o y) = Len(b) + Len(y)
            /\ \A i \in 1..Len(b) : (b \o y)[i] = b[i]
            /\ \A i \in 1..Len(y) : (b \o y)[Len(b) + i] = y[i]
        BY JoinedBytes
      <4> QED
        BY ZenonT(60), <1>4, <3>3, <4>1, <4>2
    <3> DEFINE c == [a EXCEPT !.bytes = d]
    <3>6. c \in Chunk /\ c.bytes = d /\ c.cursor = a.cursor
      BY DEF Chunk
    <3>7. longer = [q EXCEPT ![l] = c]
      BY <3>2, <3>3, <3>5
    <3> HIDE DEF c, longer
    <3>8. d # <<>> /\ RecordEnd(c) = log.end + w
      <4>1. Len(d) # 0 /\ a.cursor + (x + w) = log.end + w
        <5>1. PICK ac \in Nat : ac = a.cursor
          BY <3>3
        <5>2. ac + (x + w) = log.end + w
          BY SMTT(60), <1>3, <3>4, <5>1
        <5>3. x + w # 0
          OBVIOUS
        <5> QED
          BY <3>5, <5>1, <5>2, <5>3
      <4> QED
        BY <3>5, <3>6, <4>1 DEF RecordEnd
    <3>9. ASSUME NEW j \in 1..Len(d)
          PROVE  d[j] = a.cursor + j - 1
      <4>1. CASE j <= x
        BY <3>4, <3>5, <4>1
      <4>2. CASE ~(j <= x)
        <5>1. PICK i \in 1..w : i = j - x /\ j = x + i
          <6>1. j \in 1..(x + w)
            BY <3>5
          <6>2. j - x \in 1..w /\ j = x + (j - x)
            BY <4>2, <6>1
          <6> QED
            BY <6>2
        <5>2. d[j] = log.end + i - 1
          BY <1>4, <3>5, <5>1 DEF Written
        <5>3. PICK ac \in Nat : ac = a.cursor
          BY <3>3
        <5>4. PICK e \in Nat : e = log.end
          BY <1>3
        <5>5. ac + x = e
          BY <3>4, <5>3, <5>4
        <5>6. e + i - 1 = ac + j - 1
          BY <5>1, <5>5
        <5> QED
          BY <5>2, <5>3, <5>4, <5>6
      <4> QED
        BY <4>1, <4>2
    <3> QED
      BY <2>1, <3>1, <3>4, <3>6, <3>7, <3>8, <3>9
  <2>2. CASE ~same
    <3>1. fresh \in Chunk /\ fresh.bytes = bytes /\ fresh.cursor = log.end
      BY <1>3 DEF Chunk
    <3>2. RecordEnd(fresh) = log.end + w
      BY <1>4 DEF RecordEnd
    <3>3. bytes # <<>> /\ Mark(log, l + 1) = log.end
      BY <1>1, <1>2, <1>3, <1>4, LogTyped
    <3> HIDE DEF fresh
    <3> QED
      BY <2>2, <3>1, <3>2, <3>3 DEF Written
  <2> QED
    BY <2>1, <2>2
<1> HIDE DEF longer, fresh, u
<1>6. /\ u \in Seq(Chunk) /\ Len(u) = n /\ n \in Nat \ {0} /\ u[n] = last
      /\ \A i \in 1..(n - 1) : u[i] = q[i]
  BY <1>2, <1>5
<1>7. PICK g \in Logs : /\ AppendOutput(log, stream, bytes) = EnforceLimits(g)
                         /\ g.records = u /\ g.end = log.end + w
                         /\ g.retained = log.retained + w
  <2> DEFINE grown == IF same THEN [log EXCEPT !.records[l].bytes = @ \o bytes]
                      ELSE [log EXCEPT !.records = Append(@, fresh)]
  <2>1. grown = [log EXCEPT !.records = u]
    BY <1>1, Zenon DEF u, longer
  <2>2. AppendOutput(log, stream, bytes) =
          EnforceLimits([grown EXCEPT !.end = grown.end + w, !.retained = grown.retained + w])
    BY <1>1, <1>2, <1>4, Zenon DEF AppendOutput, fresh
  <2> HIDE DEF grown
  <2>3. grown \in Logs /\ grown.records = u /\ grown.end = log.end /\ grown.retained = log.retained
    BY <1>6, <2>1 DEF Logs
  <2>4. PICK e \in Cursors, r \in Nat : e = log.end + w /\ r = log.retained + w
    BY <1>3, <1>4
  <2> DEFINE g == [grown EXCEPT !.end = e, !.retained = r]
  <2>5. g \in Logs /\ g.records = u /\ g.end = e /\ g.retained = r
    BY <2>3 DEF Logs
  <2>6. AppendOutput(log, stream, bytes) = EnforceLimits(g)
    BY <2>2, <2>3, <2>4, Zenon
  <2> HIDE DEF g
  <2> QED
    BY <2>4, <2>5, <2>6
<1>8. Behind(log, bytes, g)
  <2>1. Len(log.records) = n \/ Len(log.records) = n - 1
    BY <1>1, <1>2
  <2> HIDE DEF n
  <2>2. /\ \A i \in 1..(n - 1) : u[i] = log.records[i]
        /\ u[n] = last /\ last.bytes # <<>> /\ last.cursor = Mark(log, n)
    BY <1>1, <1>5, <1>6
  <2>3. /\ RecordEnd(u[n]) = log.end + Len(bytes)
        /\ \A j \in 1..Len(u[n].bytes) : u[n].bytes[j] = u[n].cursor + j - 1
    BY <1>4, <1>5, <2>2
  <2>4. g.end = log.end + Len(bytes) /\ g.retained = log.retained + Len(bytes)
    BY <1>4, <1>7
  <2> QED
    BY ZenonT(60), <1>3, <1>6, <1>7, <2>1, <2>2, <2>3, <2>4, Grown
<1>9. PICK e \in Logs :
        /\ e = EnforceLimits(g) /\ Sound(e) /\ Fits(e) /\ e.end = g.end
        /\ e = g \/ e.retained = MaxBytes \/ Len(e.records) = MaxRecords
  BY <1>8, Enforced DEF Behind
<1>10. Thrifty(e)
  <2>1. CASE e = g
    <3>1. StartCursor(g) = StartCursor(log) /\ g.retained = log.retained + w
          /\ Len(g.records) >= Len(log.records)
      BY <1>4, <1>8 DEF Behind
    <3>2. /\ MaxBytes \in Nat /\ MaxRecords \in Nat
          /\ Len(g.records) \in Nat /\ Len(log.records) \in Nat
      BY LimitsAssumption, LogTyped
    <3>3. g.retained <= MaxBytes /\ Len(g.records) <= MaxRecords
      BY <1>9, <2>1 DEF Fits
    <3>4. log.retained # MaxBytes
      BY <1>3, <1>4, <3>1, <3>2, <3>3
    <3>5. Thrifty(log)
      BY DEF LogOK
    <3>6. StartCursor(log) > 0 => Len(g.records) = MaxRecords
      BY <3>1, <3>2, <3>3, <3>4, <3>5 DEF Thrifty
    <3> QED
      BY <2>1, <3>1, <3>6 DEF Thrifty
  <2>2. CASE e # g
    BY <1>9, <2>2 DEF Thrifty
  <2> QED
    BY <2>1, <2>2
<1> QED
  BY <1>4, <1>7, <1>9, <1>10 DEF LogOK

-----------------------------------------------------------------------------
(***************************************************************************)
(* Lemmas: the file of a log decodes to it                                 *)
(***************************************************************************)
BodyRecords == [tag : Streams, cursor : Cursors, length : Cursors, data : Seq(Cursors)]
Files == [start : Cursors, end : Cursors, count : 0..MaxRecords, body : Seq(BodyRecords)]

LEMMA DecodesBack ==
  ASSUME NEW log \in Logs, LogOK(log)
  PROVE  /\ Encode(log) \in Files /\ Encode(log).end = log.end
         /\ Decodes(Encode(log)) /\ Decode(Encode(log)) = log
<1>1. PICK q \in Seq(Chunk), n \in Nat : q = log.records /\ n = Len(q)
  BY LogTyped
<1>2. /\ log.end \in Cursors /\ log.end \in Nat /\ log.retained \in Nat
      /\ StartCursor(log) = Mark(log, 1) /\ Mark(log, n + 1) = log.end
      /\ \A i \in 1..n : Mark(log, i) = q[i].cursor
      /\ \A i \in 1..(n + 1) : Mark(log, i) \in Cursors /\ Mark(log, i) \in Nat
  BY <1>1, LogTyped
<1>3. /\ Linked(log) /\ log.retained = log.end - Mark(log, 1)
      /\ Fits(log) /\ n <= MaxRecords /\ MaxRecords \in Nat
  BY <1>1, SoundLinks, LimitsAssumption DEF LogOK, Fits
<1>4. ASSUME NEW i \in 1..n
      PROVE  /\ q[i] \in Chunk /\ q[i].stream \in Streams /\ q[i].cursor \in Cursors
             /\ q[i].bytes \in Seq(Cursors) /\ q[i].bytes # <<>> /\ Len(q[i].bytes) \in Cursors
             /\ q[i].cursor + Len(q[i].bytes) = Mark(log, i + 1)
  <2>1. /\ q[i] \in Chunk /\ q[i].stream \in Streams /\ q[i].cursor \in Cursors
        /\ q[i].bytes \in Seq(Cursors) /\ Len(q[i].bytes) \in Nat
    BY <1>1, RecordsTyped
  <2>2. q[i].bytes # <<>> /\ q[i].cursor + Len(q[i].bytes) = Mark(log, i + 1)
    BY <1>1, <1>3 DEF Linked, RecordEnd
  <2>3. i + 1 \in 1..(n + 1) /\ q[i].cursor \in Nat
    BY SMTT(60), <1>2, <2>1, LimitsAssumption DEF Cursors
  <2>4. PICK l \in Nat, c \in Nat : l = Len(q[i].bytes) /\ c = q[i].cursor
    BY <2>1, <2>3
  <2>5. c + l \in Cursors
    BY <1>2, <2>2, <2>3, <2>4
  <2>6. l \in Cursors
    BY <2>5, LimitsAssumption DEF Cursors
  <2> QED
    BY <2>1, <2>2, <2>4, <2>6
<1> DEFINE body == [i \in 1..n |-> [tag |-> q[i].stream, cursor |-> q[i].cursor,
                                   length |-> Len(q[i].bytes), data |-> q[i].bytes]]
<1>5. body \in Seq(BodyRecords) /\ Len(body) = n
  <2>1. \A i \in 1..n : body[i] \in BodyRecords
    BY <1>4 DEF BodyRecords
  <2> QED
    BY <2>1
<1>6. Encode(log) = [start |-> Mark(log, 1), end |-> log.end, count |-> n, body |-> body]
  BY <1>1, <1>2, Zenon DEF Encode
<1>7. PICK f : f = Encode(log)
  OBVIOUS
<1>8. f.start = Mark(log, 1) /\ f.end = log.end /\ f.count = n /\ f.body = body
  BY <1>6, <1>7
<1>9. f \in Files
  <2>1. 1 \in 1..(n + 1) /\ n \in 0..MaxRecords
    BY <1>3
  <2> HIDE DEF body
  <2> QED
    BY <1>2, <1>5, <1>6, <1>7, <2>1 DEF Files
<1>10. \A i \in 1..n : /\ body[i].tag = q[i].stream /\ body[i].cursor = q[i].cursor
                       /\ body[i].length = Len(q[i].bytes) /\ body[i].data = q[i].bytes
  OBVIOUS
<1> HIDE DEF body
<1>11. ASSUME NEW i \in 1..(n + 1)
       PROVE  Expected(f, i) = Mark(log, i)
  <2>1. CASE i = 1
    BY <1>8, <2>1 DEF Expected
  <2>2. CASE i # 1
    <3>1. PICK j \in 1..n : j = i - 1 /\ i = j + 1
      BY <2>2
    <3>2. Expected(f, i) = body[j].cursor + body[j].length
      BY <1>8, <2>2, <3>1 DEF Expected
    <3> QED
      BY <1>4, <1>10, <3>1, <3>2
  <2> QED
    BY <2>1, <2>2
<1>12. Decodes(f)
  <2>1. f.count = Len(f.body)
    BY <1>5, <1>8
  <2>2. \A i \in 1..n : /\ body[i].cursor = Expected(f, i)
                        /\ body[i].length = Len(body[i].data) /\ body[i].data # <<>>
    <3>1. \A i \in 1..n : i \in 1..(n + 1)
      OBVIOUS
    <3> QED
      BY <1>2, <1>4, <1>10, <1>11, <3>1
  <2>3. Expected(f, n + 1) = log.end
    <3>1. n + 1 \in 1..(n + 1)
      OBVIOUS
    <3> QED
      BY <1>2, <1>11, <3>1
  <2> QED
    BY <1>8, <2>1, <2>2, <2>3 DEF Decodes
<1> DEFINE records == [i \in 1..f.count |-> [stream |-> f.body[i].tag, cursor |-> f.body[i].cursor,
                                             bytes |-> f.body[i].data]]
<1>13. records = q
  <2>1. ASSUME NEW i \in 1..n
        PROVE  records[i] = q[i]
    <3>1. records[i] = [stream |-> q[i].stream, cursor |-> q[i].cursor, bytes |-> q[i].bytes]
      BY <1>8, <1>10
    <3>2. PICK a \in Chunk : a = q[i]
      BY <1>4
    <3>3. a = [stream |-> a.stream, cursor |-> a.cursor, bytes |-> a.bytes]
      BY DEF Chunk
    <3> QED
      BY <3>1, <3>2, <3>3
  <2>2. DOMAIN records = 1..n /\ DOMAIN q = 1..n /\ records = [i \in 1..n |-> records[i]]
    BY <1>1, <1>8
  <2>3. q = [i \in 1..n |-> q[i]]
    BY <1>1
  <2> HIDE DEF records
  <2> QED
    BY <2>1, <2>2, <2>3
<1>14. BytesIn(q)[n] = log.retained
  <2>1. n \in 0..n
    OBVIOUS
  <2> QED
    BY <1>1, <1>2, <1>3, <2>1, Marked
<1>15. Decode(f) = EnforceLimits([records |-> q, end |-> log.end, retained |-> log.retained])
  <2>1. Decode(f) = EnforceLimits([records |-> records, end |-> f.end,
                                   retained |-> BytesIn(records)[f.count]])
    BY Zenon DEF Decode
  <2> HIDE DEF records
  <2> QED
    BY <1>8, <1>13, <1>14, <2>1
<1>16. log = [records |-> q, end |-> log.end, retained |-> log.retained]
  BY <1>1 DEF Logs
<1>17. EnforceLimits(log) = log
  BY <1>3, Enforced DEF LogOK
<1> QED
  BY <1>7, <1>8, <1>9, <1>12, <1>15, <1>16, <1>17

-----------------------------------------------------------------------------
(***************************************************************************)
(* Lemmas: the page a cursor and a limit select                            *)
(***************************************************************************)
LEMMA TilesAppend ==
  ASSUME NEW q \in Seq(Chunk), NEW c \in Chunk, NEW from, NEW to, NEW end,
         Tiles(q, from, to), c.cursor = to, c.bytes # <<>>, RecordEnd(c) = end,
         \A j \in 1..Len(c.bytes) : c.bytes[j] = to + j - 1
  PROVE  Append(q, c) \in Seq(Chunk) /\ Tiles(Append(q, c), from, end)
<1>1. PICK n \in Nat : n = Len(q)
  OBVIOUS
<1>2. PICK u \in Seq(Chunk) : /\ u = Append(q, c) /\ Len(u) = n + 1 /\ u[n + 1] = c
                              /\ \A i \in 1..n : u[i] = q[i]
  <2>1. /\ Append(q, c) \in Seq(Chunk) /\ Len(Append(q, c)) = Len(q) + 1
        /\ Append(q, c)[Len(q) + 1] = c
        /\ \A i \in 1..Len(q) : Append(q, c)[i] = q[i]
    OBVIOUS
  <2> QED
    BY <1>1, <2>1
<1>3. ASSUME NEW i \in 1..(n + 1)
      PROVE  Edge(u, from, i) = Edge(q, from, i)
  <2>1. i # 1 => i - 1 \in 1..n
    OBVIOUS
  <2> QED
    BY <1>2, <2>1 DEF Edge
<1>4. Edge(u, from, (n + 1) + 1) = end
  <2>1. (n + 1) + 1 # 1 /\ ((n + 1) + 1) - 1 = n + 1
    OBVIOUS
  <2> QED
    BY <1>2, <2>1 DEF Edge
<1>5. /\ Edge(q, from, n + 1) = to
      /\ \A i \in 1..n :
           /\ q[i].cursor = Edge(q, from, i) /\ q[i].bytes # <<>>
           /\ \A j \in 1..Len(q[i].bytes) : q[i].bytes[j] = q[i].cursor + j - 1
  BY <1>1 DEF Tiles
<1>6. ASSUME NEW i \in 1..(n + 1)
      PROVE  /\ u[i].cursor = Edge(u, from, i) /\ u[i].bytes # <<>>
             /\ \A j \in 1..Len(u[i].bytes) : u[i].bytes[j] = u[i].cursor + j - 1
  <2>1. CASE i = n + 1
    BY <1>2, <1>3, <1>5, <2>1
  <2>2. CASE i # n + 1
    <3>1. i \in 1..n
      BY <2>2
    <3> QED
      BY <1>2, <1>3, <1>5, <3>1
  <2> QED
    BY <2>1, <2>2
<1> QED
  BY <1>2, <1>4, <1>6 DEF Tiles

\* The page cut from the first k records: it lacks none of their bytes while
\* bytes are left to be taken.
Accs == [next : Cursors, left : Nat, chunks : Seq(Chunk)]

Cut(log, first, limit, k, acc) ==
  /\ acc \in Accs /\ acc.next >= first /\ acc.next <= log.end
  /\ acc.next + acc.left = first + limit
  /\ Tiles(acc.chunks, first, acc.next)
  /\ acc.left > 0 => acc.next >= Mark(log, k + 1)

LEMMA PartOf ==
  ASSUME NEW b \in Seq(Cursors), NEW o \in Nat, NEW t \in Nat \ {0}, o + t <= Len(b)
  PROVE  /\ SubSeq(b, o + 1, o + t) \in Seq(Cursors) /\ SubSeq(b, o + 1, o + t) # <<>>
         /\ Len(SubSeq(b, o + 1, o + t)) = t
         /\ \A j \in 1..t : SubSeq(b, o + 1, o + t)[j] = b[o + j]
<1>1. /\ SubSeq(b, o + 1, o + t) \in Seq(Cursors) /\ Len(SubSeq(b, o + 1, o + t)) = t
      /\ \A j \in 1..t : SubSeq(b, o + 1, o + t)[j] = b[o + j]
  <2>1. PICK m \in Nat, n \in Nat :
          m = o + 1 /\ n = o + t /\ 1 <= m /\ m <= n /\ n <= Len(b) /\ (n - m) + 1 = t
    OBVIOUS
  <2>2. /\ SubSeq(b, m, n) \in Seq(Cursors) /\ Len(SubSeq(b, m, n)) = (n - m) + 1
        /\ \A j \in 1..((n - m) + 1) : SubSeq(b, m, n)[j] = b[(m + j) - 1]
    BY <2>1
  <2>3. \A j \in 1..t : (m + j) - 1 = o + j
    BY <2>1
  <2> QED
    BY <2>1, <2>2, <2>3
<1> QED
  BY <1>1

LEMMA OneTaken ==
  ASSUME NEW log \in Logs, Sound(log), NEW first \in Nat, NEW limit \in Nat,
         NEW k \in 1..Len(log.records), NEW acc, Cut(log, first, limit, k - 1, acc)
  PROVE  Cut(log, first, limit, k, TakeRecord(acc, log.records[k]))
<1>1. PICK q \in Seq(Chunk), n \in Nat : q = log.records /\ n = Len(q) /\ k \in 1..n
  BY LogTyped
<1>2. PICK st \in Streams, c \in Nat, b \in Seq(Cursors), l \in Nat :
        /\ st = q[k].stream /\ c = q[k].cursor /\ b = q[k].bytes /\ l = Len(b)
        /\ RecordEnd(q[k]) = c + l
  BY ZenonT(60), <1>1, RecordsTyped
<1>3. Linked(log) /\ log.end \in Nat /\ log.end \in Cursors
  BY LogTyped, SoundLinks
<1>4. Mark(log, k) = c /\ Mark(log, k + 1) = c + l /\ c + l <= log.end
  <2>1. k \in 0..n
    BY <1>1
  <2> QED
    BY ZenonT(60), <1>1, <1>2, <1>3, <2>1, LogTyped, Marked DEF Linked
<1>5. \A j \in 1..l : b[j] = c + j - 1
  BY <1>1, <1>2, <1>3 DEF Linked
<1>6. PICK p \in Cursors, left \in Nat, chunks \in Seq(Chunk) :
        /\ p = acc.next /\ left = acc.left /\ chunks = acc.chunks /\ p \in Nat
        /\ p >= first /\ p <= log.end /\ p + left = first + limit /\ Tiles(chunks, first, p)
        /\ left > 0 => p >= c
  <2>1. acc \in Accs
    BY DEF Cut
  <2>2. acc.next \in Cursors /\ acc.left \in Nat /\ acc.chunks \in Seq(Chunk)
    BY <2>1 DEF Accs
  <2>3. acc.next \in Nat
    BY SMTT(60), <2>2, LimitsAssumption DEF Cursors
  <2>4. (k - 1) + 1 = k
    BY <1>1
  <2> QED
    BY <1>4, <2>2, <2>3, <2>4 DEF Cut
<1>7. CASE left = 0 \/ c + l <= p
  <2>1. TakeRecord(acc, q[k]) = acc
    BY <1>2, <1>6, <1>7 DEF TakeRecord
  <2>2. left > 0 => p >= c + l
    BY <1>2, <1>6, <1>7
  <2> QED
    BY <1>1, <1>4, <1>6, <2>1, <2>2 DEF Cut
<1>8. CASE ~(left = 0 \/ c + l <= p)
  <2>1. PICK o \in Nat, a \in Nat \ {0} : o = p - c /\ a = l - o /\ p = c + o
    BY SMTT(60), <1>6, <1>8
  <2>2. PICK t \in Nat \ {0} :
          /\ t = IF left < a THEN left ELSE a
          /\ o + t <= l /\ left - t \in Nat /\ t <= a
          /\ left - t > 0 => t = a
    <3>1. left # 0 /\ o + a = l
      BY <1>8, <2>1
    <3>2. CASE left < a
      BY <3>1, <3>2
    <3>3. CASE ~(left < a)
      BY <3>1, <3>3
    <3> QED
      BY <3>2, <3>3
  <2>3. PICK d \in Seq(Cursors) :
          /\ d = SubSeq(b, o + 1, o + t) /\ d # <<>> /\ Len(d) = t
          /\ \A j \in 1..t : d[j] = b[o + j]
    <3>1. o + t <= Len(b)
      BY <1>2, <2>2
    <3>2. /\ SubSeq(b, o + 1, o + t) \in Seq(Cursors) /\ SubSeq(b, o + 1, o + t) # <<>>
          /\ Len(SubSeq(b, o + 1, o + t)) = t
          /\ \A j \in 1..t : SubSeq(b, o + 1, o + t)[j] = b[o + j]
      BY ZenonT(60), <3>1, PartOf
    <3> QED
      BY <3>2
  <2> DEFINE new == [stream |-> st, cursor |-> p, bytes |-> d]
  <2>4. new \in Chunk /\ new.cursor = p /\ new.bytes = d /\ RecordEnd(new) = p + t
    BY <2>3 DEF Chunk, RecordEnd
  <2>5. TakeRecord(acc, q[k]) = [next |-> p + t, left |-> left - t,
                                 chunks |-> Append(chunks, new)]
    <3>1. /\ ~(acc.left = 0 \/ RecordEnd(q[k]) <= acc.next)
          /\ acc.next - q[k].cursor = o /\ Len(q[k].bytes) - o = a
      BY <1>2, <1>6, <1>8, <2>1
    <3>2. TakeRecord(acc, q[k]) =
            [next |-> acc.next + t, left |-> acc.left - t,
             chunks |-> Append(acc.chunks, [stream |-> q[k].stream, cursor |-> acc.next,
                                            bytes |-> SubSeq(q[k].bytes, o + 1, o + t)])]
      BY <1>6, <2>2, <3>1, Zenon DEF TakeRecord
    <3> QED
      BY <1>2, <1>6, <2>3, <3>2, Zenon
  <2> HIDE DEF new
  <2>6. \A j \in 1..Len(d) : d[j] = p + j - 1
    <3> SUFFICES ASSUME NEW j \in 1..t PROVE d[j] = p + j - 1
      BY <2>3
    <3>1. o + j \in 1..l
      BY <2>2
    <3>2. d[j] = c + (o + j) - 1
      BY <1>5, <2>3, <3>1
    <3> QED
      BY <2>1, <3>2
  <2>7. p + t \in Cursors /\ p + t <= log.end /\ p + t >= first /\ (p + t) + (left - t) = first + limit
    <3>0. PICK x \in Nat, e \in Nat : x = p /\ e = log.end
      BY <1>3, <1>6
    <3>1. p + t <= c + l
      BY <2>1, <2>2
    <3>2. x + t <= e
      BY SMTT(60), <1>4, <3>0, <3>1
    <3>3. x + t \in Cursors
      BY SMTT(60), <1>3, <3>0, <3>2, LimitsAssumption DEF Cursors
    <3>4. x + t >= first /\ (x + t) + (left - t) = first + limit
      <4>1. x >= first /\ x + left = first + limit
        BY <1>6, <3>0
      <4> QED
        BY <2>2, <4>1
    <3> QED
      BY <3>0, <3>2, <3>3, <3>4
  <2>8. Append(chunks, new) \in Seq(Chunk) /\ Tiles(Append(chunks, new), first, p + t)
    BY ZenonT(60), <1>6, <2>3, <2>4, <2>6, TilesAppend
  <2>9. left - t > 0 => p + t >= c + l
    BY <2>1, <2>2
  <2>10. PICK e \in Cursors, m \in Nat, w \in Seq(Chunk) :
           e = p + t /\ m = left - t /\ w = Append(chunks, new)
    BY <2>2, <2>7, <2>8
  <2>11. PICK r \in Accs : r = TakeRecord(acc, q[k]) /\ r.next = e /\ r.left = m /\ r.chunks = w
    <3>1. TakeRecord(acc, q[k]) = [next |-> e, left |-> m, chunks |-> w]
      BY <2>5, <2>10
    <3>2. [next |-> e, left |-> m, chunks |-> w] \in Accs
      BY DEF Accs
    <3> QED
      BY <3>1, <3>2
  <2> QED
    BY <1>1, <1>4, <2>7, <2>8, <2>9, <2>10, <2>11 DEF Cut
<1> QED
  BY <1>7, <1>8

\* The loop over the records, unrolled.
LEMMA Taken ==
  ASSUME NEW acc, NEW records \in Seq(Chunk)
  PROVE  \E f : /\ f[0] = acc /\ TakeRecords(acc, records) = f[Len(records)]
                /\ \A k \in 1..Len(records) : f[k] = TakeRecord(f[k - 1], records[k])
<1> DEFINE n == Len(records)
           Steps(f, m) == f = [k \in 0..m |-> IF k = 0 THEN acc
                                             ELSE TakeRecord(f[k - 1], records[k])]
           can == {m \in 0..n : \E f : Steps(f, m)}
<1>0. n \in Nat
  OBVIOUS
<1>1. 0 \in can
  <2>1. Steps([k \in 0..0 |-> acc], 0)
    OBVIOUS
  <2>2. (\E f1 : Steps(f1, 0)) /\ 0 \in 0..n
    <3>1. 0 \in 0..n
      BY <1>0
    <3> HIDE DEF Steps
    <3> QED
      BY <2>1, <3>1, Zenon
  <2> QED
    BY <2>2, Zenon
<1>2. ASSUME NEW m \in 1..n, m - 1 \in can
      PROVE  m \in can
  <2>1. PICK f : Steps(f, m - 1)
    BY <1>2
  <2> DEFINE g == [k \in 0..m |-> IF k = m THEN TakeRecord(f[m - 1], records[m]) ELSE f[k]]
  <2>2. Steps(g, m)
    <3>1. ASSUME NEW k \in 0..m
          PROVE  g[k] = IF k = 0 THEN acc ELSE TakeRecord(g[k - 1], records[k])
      <4>1. CASE k = m
        <5>1. m - 1 \in 0..m /\ m - 1 # m /\ m # 0
          BY <1>0
        <5> QED
          BY <4>1, <5>1
      <4>2. CASE k # m
        <5>1. k \in 0..m - 1 /\ (k # 0 => k - 1 \in 0..m /\ k - 1 # m)
          BY <1>0, <4>2
        <5>2. f[k] = IF k = 0 THEN acc ELSE TakeRecord(f[k - 1], records[k])
          BY <2>1, <5>1
        <5> QED
          BY <4>2, <5>1, <5>2
      <4> QED
        BY <4>1, <4>2
    <3>2. g = [k \in 0..m |-> g[k]]
      OBVIOUS
    <3> HIDE DEF g
    <3> QED
      BY <3>1, <3>2
  <2>3. (\E f1 : Steps(f1, m)) /\ m \in 0..n
    <3>1. m \in 0..n
      BY <1>0
    <3> HIDE DEF Steps, g
    <3> QED
      BY <2>2, <3>1, Zenon
  <2> QED
    BY <2>3, Zenon
<1>3. n \in can
  <2> HIDE DEF can, n
  <2>1. 0..n \subseteq can
    BY <1>0, <1>1, <1>2, Induction
  <2> QED
    BY <1>0, <2>1
<1>4. PICK f : Steps(f, n) /\ TakeRecords(acc, records) = f[n]
  BY <1>3, Zenon DEF TakeRecords
<1> HIDE DEF n
<1>5. \A k \in 0..n : f[k] = IF k = 0 THEN acc ELSE TakeRecord(f[k - 1], records[k])
  BY <1>4
<1>6. 0 \in 0..n /\ \A k \in 1..n : k \in 0..n /\ k # 0
  BY <1>0
<1>7. f[0] = acc /\ \A k \in 1..n : f[k] = TakeRecord(f[k - 1], records[k])
  BY <1>5, <1>6
<1>8. n = Len(records)
  BY DEF n
<1> QED
  BY <1>4, <1>7, <1>8, Zenon

LEMMA AllTaken ==
  ASSUME NEW log \in Logs, Sound(log), NEW first \in Nat, NEW limit \in Nat,
         NEW acc, Cut(log, first, limit, 0, acc)
  PROVE  Cut(log, first, limit, Len(log.records), TakeRecords(acc, log.records))
<1>1. PICK q \in Seq(Chunk), n \in Nat : q = log.records /\ n = Len(q)
  BY LogTyped
<1>2. PICK f : /\ f[0] = acc /\ TakeRecords(acc, q) = f[n]
               /\ \A k \in 1..n : f[k] = TakeRecord(f[k - 1], q[k])
  BY <1>1, Taken
<1> DEFINE S == {k \in 0..n : Cut(log, first, limit, k, f[k])}
<1>3. 0 \in S
  BY <1>2
<1>4. ASSUME NEW k \in 1..n, k - 1 \in S
      PROVE  k \in S
  <2>1. Cut(log, first, limit, k - 1, f[k - 1])
    BY <1>4
  <2>2. Cut(log, first, limit, k, TakeRecord(f[k - 1], q[k]))
    BY <1>1, <2>1, OneTaken
  <2>3. k \in 0..n
    OBVIOUS
  <2> QED
    BY <1>2, <2>2, <2>3
<1>5. n \in S
  <2> HIDE DEF S
  <2>1. 0..n \subseteq S
    BY <1>3, <1>4, Induction
  <2> QED
    BY <2>1
<1> QED
  BY <1>1, <1>2, <1>5

\* What a read promises of its page.
Promised(log, cursor, got) ==
  /\ got \in Pages /\ Tiles(got.chunks, got.start, got.next)
  /\ got.next <= log.end /\ (got.more => got.next > got.start)
  /\ cursor # <<>> => /\ got.start >= cursor[1]
                      /\ got.start > cursor[1] <=> got.truncated

LEMMA PageCut ==
  ASSUME NEW log \in Logs, LogOK(log), NEW cursor \in {<<>>} \cup {<<c>> : c \in Cursors},
         InLog(log, cursor), NEW limit \in Nat \ {0}
  PROVE  Promised(log, cursor, ReadPage(log, cursor, limit))
<1>1. /\ Sound(log) /\ Linked(log) /\ log.end \in Nat /\ log.end \in Cursors
      /\ StartCursor(log) = Mark(log, 1) /\ Mark(log, Len(log.records) + 1) = log.end
      /\ Len(log.records) \in Nat /\ 1 \in 1..(Len(log.records) + 1)
  BY LogTyped, SoundLinks DEF LogOK
<1>2. PICK start \in Nat : start = StartCursor(log) /\ start \in Cursors /\ start <= log.end
  <2>1. 0 \in 0..Len(log.records) /\ 0 + 1 = 1
    BY <1>1
  <2> QED
    BY <1>1, <2>1, LogTyped, Marked
<1>3. PICK asked \in Nat : /\ asked = IF cursor = <<>> THEN start ELSE cursor[1]
                           /\ asked \in Cursors /\ asked <= log.end
  <2>1. CASE cursor = <<>>
    BY <1>2, <2>1
  <2>2. CASE cursor # <<>>
    <3>1. PICK c \in Cursors : cursor = <<c>>
      BY <2>2
    <3>2. cursor[1] = c /\ c \in Nat
      BY <3>1, LimitsAssumption DEF Cursors
    <3> QED
      BY <2>2, <3>1, <3>2 DEF InLog
  <2> QED
    BY <2>1, <2>2
<1>4. PICK first \in Nat :
        /\ first = FirstByte(asked, start) /\ first \in Cursors /\ first <= log.end
        /\ first >= start /\ first >= asked /\ (first > asked <=> asked < start)
  BY <1>2, <1>3 DEF FirstByte
<1> DEFINE acc == [next |-> first, left |-> limit, chunks |-> <<>>]
<1>5. Cut(log, first, limit, 0, acc)
  <2>1. acc \in Accs /\ acc.next = first /\ acc.left = limit /\ acc.chunks = <<>>
    BY <1>4 DEF Accs
  <2>2. Tiles(<<>>, first, first)
    <3>1. Len(<<>>) = 0 /\ 1..0 = {}
      OBVIOUS
    <3> QED
      BY <3>1 DEF Tiles, Edge
  <2>3. 0 + 1 = 1
    OBVIOUS
  <2> HIDE DEF acc
  <2> QED
    BY <1>1, <1>2, <1>4, <2>1, <2>2, <2>3 DEF Cut
<1>6. PICK t \in Accs : /\ t = TakeRecords(acc, log.records)
                        /\ Cut(log, first, limit, Len(log.records), t)
  <2> HIDE DEF acc
  <2>1. Cut(log, first, limit, Len(log.records), TakeRecords(acc, log.records))
    BY <1>1, <1>5, AllTaken
  <2> QED
    BY <2>1 DEF Cut
<1>7. PICK next \in Cursors, left \in Nat, chunks \in Seq(Chunk) :
        next = t.next /\ left = t.left /\ chunks = t.chunks /\ next \in Nat
  <2>1. t.next \in Cursors /\ t.left \in Nat /\ t.chunks \in Seq(Chunk)
    BY DEF Accs
  <2>2. t.next \in Nat
    BY <2>1, LimitsAssumption DEF Cursors
  <2> QED
    BY <2>1, <2>2
<1>8. /\ next >= first /\ next <= log.end /\ next + left = first + limit
      /\ Tiles(chunks, first, next) /\ (left > 0 => next >= log.end)
  BY <1>1, <1>6, <1>7 DEF Cut
<1>9. next < log.end => next > first
  <2>1. PICK e \in Nat : e = log.end
    BY <1>1
  <2>2. PICK x \in Nat, y \in Nat, m \in Nat \ {0} : x = next /\ y = first /\ m = limit
    BY <1>7
  <2>3. /\ x >= y /\ x <= e /\ x + left = y + m
        /\ left > 0 => x >= e
    BY <1>8, <2>1, <2>2
  <2>4. x < e => x > y
    BY <2>3
  <2> QED
    BY <2>1, <2>2, <2>4
<1>10. PICK truncated \in BOOLEAN, more \in BOOLEAN :
         (truncated <=> asked < start) /\ (more <=> next < log.end)
  OBVIOUS
<1>11. ReadPage(log, cursor, limit) =
         [start |-> first, next |-> next, end |-> log.end,
          truncated |-> (asked < start), more |-> (next < log.end), chunks |-> chunks]
  BY <1>2, <1>3, <1>4, <1>6, <1>7, Zenon DEF ReadPage, Clamped
<1>12. ReadPage(log, cursor, limit) =
         [start |-> first, next |-> next, end |-> log.end,
          truncated |-> truncated, more |-> more, chunks |-> chunks]
  <2>1. (asked < start) = truncated /\ (next < log.end) = more
    BY <1>10
  <2> QED
    BY <1>11, <2>1
<1>13. PICK got \in Pages :
         /\ got = ReadPage(log, cursor, limit) /\ got.start = first /\ got.next = next
         /\ got.truncated = truncated /\ got.more = more /\ got.chunks = chunks
  BY <1>1, <1>4, <1>12 DEF Pages
<1>14. cursor # <<>> => asked = cursor[1]
  BY <1>3
<1> QED
  BY SMTT(60), <1>4, <1>8, <1>9, <1>10, <1>13, <1>14 DEF Promised

-----------------------------------------------------------------------------
(***************************************************************************)
(* The invariant is inductive                                              *)
(***************************************************************************)
LEMMA EmptySound == EmptyLog \in Logs /\ LogOK(EmptyLog)
<1>1. /\ EmptyLog \in Logs /\ EmptyLog.records = <<>> /\ EmptyLog.end = 0
      /\ EmptyLog.retained = 0
  BY LimitsAssumption DEF EmptyLog, Logs, Cursors
<1>2. StartCursor(EmptyLog) = 0
  BY <1>1 DEF StartCursor
<1>3. Tiles(EmptyLog.records, 0, 0)
  <2>1. Len(<<>>) = 0 /\ 1..0 = {}
    OBVIOUS
  <2> QED
    BY <1>1, <2>1 DEF Tiles, Edge
<1>4. Fits(EmptyLog)
  BY <1>1, LimitsAssumption DEF Fits
<1> QED
  BY <1>1, <1>2, <1>3, <1>4 DEF LogOK, Sound, Thrifty

LEMMA LogInitInvariant == LogInit => LogInv
<1> SUFFICES ASSUME LogInit PROVE LogInv
  OBVIOUS
<1>1. /\ EmptyLog \in Logs /\ LogOK(EmptyLog) /\ EmptyLog.end = 0 /\ 0 \in Cursors
      /\ Encode(EmptyLog).end = 0
  BY EmptySound, DecodesBack, LimitsAssumption DEF EmptyLog, Cursors
<1>2. mem = EmptyLog /\ file = Encode(EmptyLog) /\ written = FALSE /\ shown = 0 /\ errors = 0
  BY DEF LogInit
<1>3. Holds(EmptyLog)
  BY <1>1, <1>2 DEF Holds
<1>4. ReadersOK
  <2>1. NoPage \in Pages /\ Tiles(NoPage.chunks, NoPage.start, NoPage.next) /\ ~NoPage.more
    <3>1. /\ NoPage \in Pages /\ NoPage.chunks = <<>> /\ NoPage.start = 0 /\ NoPage.next = 0
          /\ ~NoPage.more
      BY <1>1 DEF NoPage, Pages
    <3>2. Len(<<>>) = 0 /\ 1..0 = {}
      OBVIOUS
    <3> QED
      BY <3>1, <3>2 DEF Tiles, Edge
  <2>2. \A r \in Readers : place[r] = <<>> /\ page[r] = NoPage
    BY DEF LogInit
  <2>3. page \in [Readers -> Pages] /\ place \in [Readers -> {<<>>} \cup {<<c>> : c \in Cursors}]
    BY <2>1 DEF LogInit
  <2> QED
    BY <2>1, <2>2, <2>3 DEF ReadersOK, PageOK
<1>5. errors \in 0..MaxErrors
  BY <1>2, LimitsAssumption
<1>6. LogOK(mem) /\ \E log \in Logs : Holds(log)
  BY <1>1, <1>2, <1>3
<1>7. written \in BOOLEAN
  BY <1>2
<1>8. shown \in Cursors /\ shown <= file.end
  BY <1>1, <1>2
<1> QED
  BY <1>4, <1>5, <1>6, <1>7, <1>8 DEF LogInv

\* The readers' part does not mind a file that has grown.
LEMMA ReadersKeep ==
  ASSUME ReadersOK, UNCHANGED <<place, page>>, file.end \in Nat, file'.end \in Nat,
         file.end <= file'.end
  PROVE  ReadersOK'
<1>1. \A r \in Readers : PageOK(r)'
  BY DEF ReadersOK, PageOK
<1>2. ASSUME NEW r \in Readers, place[r] # <<>>
      PROVE  place[r][1] <= file'.end
  <2>1. place[r] \in {<<>>} \cup {<<c>> : c \in Cursors}
    BY DEF ReadersOK
  <2>2. PICK c \in Cursors : place[r] = <<c>>
    BY <1>2, <2>1
  <2>3. c \in Nat /\ place[r][1] = c
    BY <2>2, LimitsAssumption DEF Cursors
  <2>4. place[r][1] <= file.end
    BY <1>2 DEF ReadersOK
  <2> QED
    BY <2>3, <2>4
<1> QED
  BY <1>1, <1>2 DEF ReadersOK

LEMMA LogKeepsInvariant ==
  ASSUME LogInv, NEW stream \in Streams, NEW n \in 1..ChunkBytes, Log(stream, n)
  PROVE  LogInv'
<1>1. PICK log \in Logs : Holds(log)
  BY DEF LogInv
<1>2. mem \in Logs /\ LogOK(mem) /\ mem.end \in Nat
  BY LogTyped DEF LogInv, LogOK, Sound
<1> DEFINE bytes == [i \in 1..n |-> mem.end + i - 1]
<1>3. n \in Nat \ {0} /\ mem.end + n <= MaxTotal
  BY LimitsAssumption DEF Log
<1>4. Written(mem, bytes) /\ Len(bytes) = n
  <2>1. ASSUME NEW i \in 1..n
        PROVE  mem.end + i - 1 \in Cursors
    BY <1>2, <1>3, LimitsAssumption DEF Cursors
  <2>2. bytes \in Seq(Cursors) /\ Len(bytes) = n
    BY <1>3, <2>1
  <2>3. mem.end + n \in Cursors
    BY <1>2, <1>3, LimitsAssumption DEF Cursors
  <2> QED
    BY <1>3, <2>2, <2>3 DEF Written
<1>5. PICK new \in Logs : /\ new = AppendOutput(mem, stream, bytes) /\ LogOK(new)
                          /\ new.end = mem.end + n
  <2> HIDE DEF bytes
  <2> QED
    BY <1>2, <1>4, AppendKeeps
<1>6. mem' = new /\ UNCHANGED <<shown, place, page>> /\ ~written
  BY <1>5 DEF Log
<1>7. /\ log.end \in Nat /\ new.end \in Nat /\ log.end <= mem.end /\ file = Encode(log)
      /\ LogOK(log) /\ Encode(log).end = log.end /\ Encode(new).end = new.end
      /\ log.end <= new.end
  <2>1. log.end <= mem.end /\ file = Encode(log) /\ LogOK(log)
    BY <1>1 DEF Holds
  <2>2. log.end \in Nat /\ Encode(log).end = log.end /\ Encode(new).end = new.end
    BY <1>5, <2>1, DecodesBack, LogTyped
  <2>3. PICK x \in Nat, y \in Nat : x = log.end /\ y = mem.end
    BY <1>2, <2>2
  <2>4. x <= y + n /\ y + n \in Nat
    BY <1>3, <2>1, <2>3
  <2> QED
    BY SMTT(60), <1>5, <2>1, <2>2, <2>3, <2>4
<1>8. \/ file' = Encode(new) /\ written' = TRUE /\ UNCHANGED errors
      \/ /\ errors < MaxErrors /\ errors' = errors + 1
         /\ file' \in {file, Encode(new)} /\ UNCHANGED written
  BY <1>5 DEF Log, NotPersisted
<1>9. (file' = Encode(new) \/ (file' = Encode(log) /\ ~written')) /\ written' \in BOOLEAN
  <2>1. written' \in BOOLEAN
    BY <1>6, <1>8 DEF LogInv
  <2>2. file' = Encode(new) \/ (file' = Encode(log) /\ ~written')
    <3>1. CASE file' = Encode(new)
      BY <3>1, Zenon
    <3>2. CASE file' = file /\ UNCHANGED written
      BY <1>6, <1>7, <3>2, Zenon
    <3> QED
      BY <1>8, <3>1, <3>2
  <2> QED
    BY <2>1, <2>2
<1>10. errors' \in 0..MaxErrors
  BY <1>8, LimitsAssumption DEF LogInv
<1>11. \E l \in Logs : Holds(l)'
  <2>1. CASE file' = Encode(new)
    <3>1. new.end <= mem'.end /\ new = mem'
      BY <1>6, <1>7
    <3> QED
      BY <1>5, <2>1, <3>1 DEF Holds
  <2>2. CASE file' = Encode(log) /\ ~written'
    BY <1>6, <1>7, <2>2 DEF Holds
  <2> QED
    BY <1>9, <2>1, <2>2
<1>12. file.end \in Nat /\ file'.end \in Nat /\ file.end <= file'.end
  <2>1. file.end = log.end /\ (file'.end = new.end \/ file'.end = log.end)
    BY <1>7, <1>9
  <2> QED
    BY <1>7, <2>1
<1>13. shown' \in Cursors /\ shown' <= file'.end
  <2>1. shown \in Cursors /\ shown <= file.end /\ shown \in Nat
    BY LimitsAssumption DEF LogInv, Cursors
  <2> QED
    BY <1>6, <1>12, <2>1
<1>14. ReadersOK'
  BY <1>6, <1>12, ReadersKeep DEF LogInv
<1>15. LogOK(mem)'
  BY <1>5, <1>6 DEF LogOK, Sound, Fits, Thrifty
<1> QED
  BY <1>9, <1>10, <1>11, <1>13, <1>14, <1>15 DEF LogInv

LEMMA AnnounceKeepsInvariant ==
  ASSUME LogInv, Announce
  PROVE  LogInv'
<1>1. PICK log \in Logs : Holds(log)
  BY DEF LogInv
<1>2. /\ written /\ written' = FALSE /\ shown' = mem.end
      /\ UNCHANGED <<mem, file, place, page, errors>>
  BY DEF Announce
<1>3. log = mem /\ file = Encode(mem) /\ LogOK(mem)
  BY <1>1, <1>2 DEF Holds
<1>4. file.end = mem.end /\ mem.end \in Cursors /\ mem.end \in Nat
  BY <1>3, DecodesBack, LogTyped
<1>5. \E l \in Logs : Holds(l)'
  BY <1>1, <1>2 DEF Holds
<1>6. ReadersOK'
  BY <1>2, <1>4, ReadersKeep DEF LogInv
<1>7. shown' \in Cursors /\ shown' <= file'.end /\ errors' \in 0..MaxErrors /\ written' \in BOOLEAN
  <2>1. errors' \in 0..MaxErrors /\ written' \in BOOLEAN
    BY <1>2 DEF LogInv
  <2>2. shown' \in Cursors /\ shown' <= file'.end
    BY <1>2, <1>4
  <2> QED
    BY <2>1, <2>2
<1>8. LogOK(mem)'
  BY <1>2, <1>3 DEF LogOK, Sound, Fits, Thrifty
<1> QED
  BY <1>5, <1>6, <1>7, <1>8 DEF LogInv

\* The log a reader is served is the one behind the file.
LEMMA ReadPromises ==
  ASSUME LogInv, NEW r \in Readers, NEW limit \in 1..MaxReadBytes, Read(r, limit)
  PROVE  \E got \in Pages :
           /\ Promised(Decode(file), place[r], got) /\ Decode(file).end = file.end
           /\ file.end \in Nat
           /\ page' = [page EXCEPT ![r] = got]
           /\ place' = [place EXCEPT ![r] = <<got.next>>]
           /\ UNCHANGED <<mem, file, written, shown, errors>>
<1>1. PICK log \in Logs : Holds(log)
  BY DEF LogInv
<1>2. /\ LogOK(log) /\ Decode(file) = log /\ file.end = log.end /\ log.end \in Nat
  BY <1>1, DecodesBack, LogTyped DEF Holds
<1>3. place[r] \in {<<>>} \cup {<<c>> : c \in Cursors} /\ InLog(log, place[r])
  BY <1>2 DEF Read, LogInv, ReadersOK
<1>4. limit \in Nat \ {0}
  BY LimitsAssumption
<1>5. PICK got \in Pages : got = ReadPage(log, place[r], limit) /\ Promised(log, place[r], got)
  <2>1. Promised(log, place[r], ReadPage(log, place[r], limit))
    BY <1>2, <1>3, <1>4, PageCut
  <2> QED
    BY <2>1 DEF Promised
<1>6. /\ page' = [page EXCEPT ![r] = got]
      /\ place' = [place EXCEPT ![r] = <<got.next>>]
      /\ UNCHANGED <<mem, file, written, shown, errors>>
  BY <1>2, <1>5 DEF Read
<1> QED
  BY <1>2, <1>5, <1>6

\* Nothing but one reader's page and place changed.
LEMMA RestKeeps ==
  ASSUME LogInv, UNCHANGED <<mem, file, written, shown, errors>>, ReadersOK'
  PROVE  LogInv'
<1>1. PICK log \in Logs : Holds(log)
  BY DEF LogInv
<1>2. \E l \in Logs : Holds(l)'
  BY <1>1 DEF Holds
<1>3. LogOK(mem)'
  BY DEF LogInv, LogOK, Sound, Fits, Thrifty
<1> QED
  BY <1>2, <1>3 DEF LogInv

LEMMA ReadersMove ==
  ASSUME ReadersOK, NEW r \in Readers, NEW got \in Pages, NEW c \in Cursors,
         page' = [page EXCEPT ![r] = got], place' = [place EXCEPT ![r] = <<c>>],
         Tiles(got.chunks, got.start, got.next), got.more => got.next > got.start,
         UNCHANGED file, c <= file.end
  PROVE  ReadersOK'
<1>1. page' \in [Readers -> Pages] /\ page'[r] = got /\ \A x \in Readers : x # r => page'[x] = page[x]
  BY DEF ReadersOK
<1>2. /\ place' \in [Readers -> {<<>>} \cup {<<x>> : x \in Cursors}]
      /\ place'[r] = <<c>> /\ \A x \in Readers : x # r => place'[x] = place[x]
  BY DEF ReadersOK
<1>3. ASSUME NEW x \in Readers
      PROVE  PageOK(x)'
  <2>1. CASE x = r
    BY <1>1, <2>1 DEF PageOK
  <2>2. CASE x # r
    BY <1>1, <2>2 DEF ReadersOK, PageOK
  <2> QED
    BY <2>1, <2>2
<1>4. ASSUME NEW x \in Readers, place'[x] # <<>>
      PROVE  place'[x][1] <= file'.end
  <2>1. CASE x = r
    BY <1>2, <2>1
  <2>2. CASE x # r
    BY <1>2, <1>4, <2>2 DEF ReadersOK
  <2> QED
    BY <2>1, <2>2
<1> QED
  BY <1>1, <1>2, <1>3, <1>4 DEF ReadersOK

LEMMA ReadKeepsInvariant ==
  ASSUME LogInv, NEW r \in Readers, NEW limit \in 1..MaxReadBytes, Read(r, limit)
  PROVE  LogInv'
<1>1. PICK got \in Pages :
        /\ Promised(Decode(file), place[r], got) /\ Decode(file).end = file.end
        /\ page' = [page EXCEPT ![r] = got]
        /\ place' = [place EXCEPT ![r] = <<got.next>>]
        /\ UNCHANGED <<mem, file, written, shown, errors>>
  BY ReadPromises
<1>2. /\ got.next \in Cursors /\ got.next <= file.end
      /\ Tiles(got.chunks, got.start, got.next) /\ (got.more => got.next > got.start)
  BY <1>1 DEF Promised, Pages
<1>3. ReadersOK'
  BY <1>1, <1>2, ReadersMove DEF LogInv
<1> QED
  BY <1>1, <1>3, RestKeeps

LEMMA JumpKeepsInvariant ==
  ASSUME LogInv, NEW r \in Readers, Jump(r)
  PROVE  LogInv'
<1>1. /\ page' = [page EXCEPT ![r] = NoPage] /\ place' = [place EXCEPT ![r] = <<shown>>]
      /\ UNCHANGED <<mem, file, written, shown, errors>>
      /\ shown \in Cursors /\ shown <= file.end /\ ReadersOK
  BY DEF Jump, LogInv
<1>2. /\ NoPage \in Pages /\ NoPage.chunks = <<>> /\ NoPage.start = 0 /\ NoPage.next = 0
      /\ ~NoPage.more
  BY LimitsAssumption DEF NoPage, Pages, Cursors
<1>3. Tiles(NoPage.chunks, NoPage.start, NoPage.next)
  <2>1. Len(<<>>) = 0 /\ 1..0 = {}
    OBVIOUS
  <2> QED
    BY <1>2, <2>1 DEF Tiles, Edge
<1>4. ReadersOK'
  BY <1>1, <1>2, <1>3, ReadersMove
<1> QED
  BY <1>1, <1>4, RestKeeps

LEMMA LogStepKeepsInvariant == LogInv /\ [LogNext]_logVars => LogInv'
<1> SUFFICES ASSUME LogInv, [LogNext]_logVars PROVE LogInv'
  OBVIOUS
<1>1. ASSUME NEW stream \in Streams, NEW n \in 1..ChunkBytes, Log(stream, n) PROVE LogInv'
  BY <1>1, LogKeepsInvariant
<1>2. CASE Announce
  BY <1>2, AnnounceKeepsInvariant
<1>3. ASSUME NEW r \in Readers, Jump(r) PROVE LogInv'
  BY <1>3, JumpKeepsInvariant
<1>4. ASSUME NEW r \in Readers, NEW limit \in 1..MaxReadBytes, Read(r, limit) PROVE LogInv'
  BY <1>4, ReadKeepsInvariant
<1>5. CASE UNCHANGED logVars
  <2>1. UNCHANGED <<mem, file, written, shown, errors>> /\ UNCHANGED <<place, page>>
    BY <1>5 DEF logVars
  <2>2. ReadersOK'
    BY <2>1 DEF LogInv, ReadersOK, PageOK
  <2> QED
    BY <2>1, <2>2, RestKeeps
<1> QED
  BY <1>1, <1>2, <1>3, <1>4, <1>5 DEF LogNext

\* The invariant holds in every state, whatever the limits, however the file's
\* replacements fail and wherever readers ask.
THEOREM LogInvariant == LogSpec => []LogInv
<1>1. LogInit => LogInv
  BY LogInitInvariant
<1>2. LogInv /\ [LogNext]_logVars => LogInv'
  BY LogStepKeepsInvariant
<1> QED
  BY <1>1, <1>2, PTL DEF LogSpec

-----------------------------------------------------------------------------
(***************************************************************************)
(* The theorems                                                            *)
(***************************************************************************)
LEMMA InvariantIsExact == LogInv => LogIsExact
<1> SUFFICES ASSUME LogInv PROVE LogIsExact
  OBVIOUS
<1>1. PICK log \in Logs : Holds(log)
  BY DEF LogInv
<1>2. /\ mem \in Logs /\ Sound(mem) /\ Fits(mem) /\ Thrifty(mem)
      /\ mem.records \in Seq(Chunk) /\ mem.end \in Cursors /\ mem.retained \in Nat
  BY LogTyped DEF LogInv, LogOK, Sound
<1>3. /\ LogOK(log) /\ file = Encode(log) /\ file \in Files /\ Decodes(file)
      /\ Decode(file) = log /\ (written => log = mem)
  BY <1>1, DecodesBack DEF Holds
<1>4. LogTypeOK
  <2>1. mem \in [records : Seq(Chunk), end : Cursors, retained : 0..MaxBytes]
    <3>1. mem.retained \in 0..MaxBytes
      BY <1>2, LimitsAssumption DEF Fits
    <3> QED
      BY <1>2, <3>1 DEF Logs
  <2>2. file \in [start : Cursors, end : Cursors, count : 0..MaxRecords,
                  body : Seq([tag : Streams, cursor : Cursors, length : Cursors,
                              data : Seq(Cursors)])]
    BY <1>3, Zenon DEF Files, BodyRecords
  <2>3. page \in [Readers -> Pages]
    BY DEF LogInv, ReadersOK
  <2>4. /\ written \in BOOLEAN /\ shown \in Cursors /\ errors \in 0..MaxErrors
        /\ place \in [Readers -> {<<>>} \cup {<<c>> : c \in Cursors}]
    BY DEF LogInv, ReadersOK
  <2> QED
    BY <2>1, <2>2, <2>3, <2>4, Zenon DEF LogTypeOK, Pages
<1>5. KeepsTheTail
  BY <1>2 DEF Sound, Thrifty, KeepsTheTail
<1>6. FileDecodes
  BY <1>3 DEF FileDecodes
<1> QED
  BY <1>4, <1>5, <1>6 DEF LogIsExact

\* The log in memory holds the tail of the output, each byte under its own
\* cursor, and gives up no more than the limits demand; the file always decodes,
\* to what the logger holds or held (OutputLog::append, encode, decode).
THEOREM LogExact == LogSpec => []LogIsExact
BY LogInvariant, InvariantIsExact, PTL

\* A page is an unbroken stretch of the output, and one that says has_more
\* brings its reader further (OutputLog::read).
THEOREM PagesSound == LogSpec => []PagesAreSound
<1>1. LogInv => PagesAreSound
  BY DEF LogInv, ReadersOK, PageOK, PagesAreSound, PagesAreExact, MorePagesAdvance
<1> QED
  BY <1>1, LogInvariant, PTL

\* No cursor a client was given by a page or an Output event is past the end of
\* the file it will be looked up in (ProcessManager::read_output).
THEOREM CursorsValid == LogSpec => []CursorsStayValid
<1>1. LogInv => CursorsStayValid
  BY DEF LogInv, ReadersOK, CursorsStayValid
<1> QED
  BY <1>1, LogInvariant, PTL

LEMMA StepFlagsGaps ==
  ASSUME LogInv, [LogNext]_logVars,
         NEW x \in Readers, page'[x] # page[x], page'[x] # NoPage, place[x] # <<>>
  PROVE  /\ page'[x].start >= place[x][1]
         /\ page'[x].start > place[x][1] <=> page'[x].truncated
<1>1. page' # page
  OBVIOUS
<1>2. CASE \E r \in Readers : Jump(r)
  <2>1. PICK r \in Readers : page' = [page EXCEPT ![r] = NoPage]
    BY <1>2 DEF Jump
  <2> QED
    BY <2>1 DEF LogInv, ReadersOK
<1>3. ASSUME NEW r \in Readers, NEW limit \in 1..MaxReadBytes, Read(r, limit)
      PROVE  /\ page'[x].start >= place[x][1]
             /\ page'[x].start > place[x][1] <=> page'[x].truncated
  <2>1. PICK got \in Pages : /\ Promised(Decode(file), place[r], got)
                             /\ page' = [page EXCEPT ![r] = got]
    BY <1>3, ReadPromises
  <2>2. x = r /\ page'[x] = got
    BY <2>1 DEF LogInv, ReadersOK
  <2>3. Promised(Decode(file), place[x], page'[x])
    BY <2>1, <2>2
  <2> QED
    BY <2>3 DEF Promised
<1>4. ~Announce /\ ~UNCHANGED logVars /\ \A s \in Streams, n \in 1..ChunkBytes : ~Log(s, n)
  BY <1>1 DEF Announce, logVars, Log
<1> QED
  BY <1>2, <1>3, <1>4 DEF LogNext

\* A reader that pages on with next_cursor misses bytes only when its page says
\* truncated, and sees no byte twice (OutputLog::read).
THEOREM GapsFlagged == LogSpec => GapsAreFlagged
<1>1. LogInv /\ [LogNext]_logVars =>
        [\A r \in Readers : page'[r] # page[r] /\ page'[r] # NoPage /\ place[r] # <<>> =>
           /\ page'[r].start >= place[r][1]
           /\ page'[r].start > place[r][1] <=> page'[r].truncated]_logVars
  BY StepFlagsGaps
<1> QED
  BY <1>1, LogInvariant, PTL DEF LogSpec, GapsAreFlagged
=============================================================================
