---------------------------- MODULE AppServerProofs ----------------------------
(***************************************************************************)
(* Theorems about AppServer: whichever calls, sessions, Turns and title    *)
(* tasks run in whichever order, a create-and-start makes one Thread or    *)
(* none, a prepared Turn runs, a client misses no event, the barrier of    *)
(* shutdown is woken, and a title is made from the right Turn.             *)
(***************************************************************************)
EXTENDS AppServer, TLAPS

-----------------------------------------------------------------------------
(***************************************************************************)
(* The invariant in parts                                                  *)
(***************************************************************************)
\* What stage a call is in says what there is of its Turn: none before
\* prepare_turn, a queued one that no task has until it is launched.
StageOK(c) ==
  /\ stage[c] \in {"idle", "creating", "preparing", "undoing", "referring", "reading"}
       => turn[c] = "none"
  /\ stage[c] \in {"registering", "recording", "sending"} => turn[c] = "queued" /\ task[c] = "none"
  /\ stage[c] \in {"creating", "undoing", "recording", "sending"} => ask[c].kind = "create"
  /\ stage[c] = "sending" => ask[c].via \in Sessions
  /\ stage[c] = "preparing" => ask[c].kind \in {"create", "start"}
  /\ stage[c] = "reading" => ask[c].kind = "get"
  /\ stage[c] = "referring" => ask[c].kind = "refer"
  /\ task[c] = "running" => turn[c] # "none"
  /\ task[c] \in {"notifying", "gone"} => turn[c] \in {"completed", "ended"}
  /\ task[c] = "none" => turn[c] \in {"none", "queued"}
  /\ turn[c] = "queued" =>
       \/ task[c] = "running"
       \/ stage[c] \in {"registering", "recording", "sending", "dropped"}
       \/ stage[c] = "failed" /\ ask[c].kind = "create" /\ ask[c].id \in lost

StagesOK == \A c \in Calls : StageOK(c)

\* A create-and-start holds the mutex from its look-up to its record, alone.
Locking == {"creating", "preparing", "undoing", "registering", "recording"}

LockOK ==
  /\ \A c, d \in lock : c = d
  /\ \A c \in Calls : c \in lock <=> ask[c].kind = "create" /\ stage[c] \in Locking

\* The window has one record for an id, made by a call that returned or is
\* about to, and none for the id of the call that holds the mutex.
WindowOK ==
  /\ \A i, j \in DOMAIN cache : cache[i].id = cache[j].id => i = j
  /\ \A i \in DOMAIN cache :
       cache[i] = Record(cache[i].thread) /\ stage[cache[i].thread] \in {"sending", "answered"}
  /\ \A c \in lock : \A i \in DOMAIN cache : cache[i].id # ask[c].id

\* A Thread has its record in the window, or will have, or its id is lost.
ThreadsOK ==
  /\ \A c \in Calls : stage[c] \in {"idle", "creating"} => c \notin threads
  /\ \A c \in Created :
       ask[c].id \in lost \/ c \in lock \/ \E i \in DOMAIN cache : cache[i].thread = c

CreateInv == LockOK /\ WindowOK /\ ThreadsOK

\* A Turn the barrier cancelled is registered until its last event is out, and
\* while the barrier sleeps with none registered a notification is on its way.
EndOf(c) == [turn |-> c, what |-> "ended"]

BarrierInv ==
  /\ \A c \in Calls : turn[c] \in {"completed", "ended"} => EndOf(c) \in published
  /\ barrier \in {"going", "waiting"} /\ active = {} =>
       woken \/ \E c \in Calls : task[c] = "notifying"
  /\ barrier # "no" => \A c \in held : c \in active \/ EndOf(c) \in published
  /\ ClearMeansEnded

\* An event of a Thread a session follows was sent, is in its receiver, is lost
\* with a report to come, or will be in the snapshot a call is reading.
Reads(s, h) == \E c \in Calls : stage[c] = "reading" /\ ask[c].via = s /\ ask[c].thread = h

HeardOf(s, e) ==
  \/ e \in seen[s] \/ e \in Range(queue[s])
  \/ e \in lagged[s] \/ e \in told[s]
  \/ Reads(s, Home(e.turn))

FollowersHear ==
  \A s \in open : \A e \in published : Home(e.turn) \in subs[s] => HeardOf(s, e)

EventsInv ==
  /\ \A e \in published : turn[e.turn] \notin {"none", "queued"}
  /\ FollowersHear

\* A Thread has one Turn that goes on, its latest.
TurnsInv ==
  /\ \A c \in Calls : turn[c] # "none" <=> \E i \in DOMAIN turns : turns[i] = c
  /\ \A i, j \in DOMAIN turns :
       i < j /\ Home(turns[i]) = Home(turns[j]) => turn[turns[i]] \in {"completed", "ended"}

\* A title is in the making for the first Turn that completed and no other, and
\* a snapshot to be put back has a title that fits as well.
SnapshotFits(c) ==
  Fits(Home(c), copy[c]) /\ (ask[Home(c)].kind = "thread" => Home(c) \in threads)

TitlesInv ==
  /\ \A c \in Calls : titling[c] # "none" => turn[c] = "completed"
  /\ \A c \in Calls : titling[c] = "making" => FirstCompleted(c)
  /\ \A c \in Calls : stage[c] = "referring" => SnapshotFits(c)
  /\ TitleOfFirstTurn

Inv == TypeOK /\ StagesOK /\ CreateInv /\ BarrierInv /\ EventsInv /\ TurnsInv /\ TitlesInv

-----------------------------------------------------------------------------
(***************************************************************************)
(* Lemmas about sequences and scripts                                      *)
(***************************************************************************)
LEMMA RangeOfAppend ==
  ASSUME NEW S, NEW q \in Seq(S), NEW e
  PROVE  Range(Append(q, e)) = Range(q) \cup {e}
<1>1. /\ Len(q) \in Nat /\ DOMAIN q = 1..Len(q)
      /\ DOMAIN Append(q, e) = 1..(Len(q) + 1)
      /\ Append(q, e)[Len(q) + 1] = e
      /\ \A i \in 1..Len(q) : Append(q, e)[i] = q[i]
  OBVIOUS
<1>2. 1..(Len(q) + 1) = 1..Len(q) \cup {Len(q) + 1}
  BY <1>1
<1> QED
  BY <1>1, <1>2 DEF Range

LEMMA RangeOfTail ==
  ASSUME NEW S, NEW q \in Seq(S), q # <<>>
  PROVE  /\ Tail(q) \in Seq(S)
         /\ Len(Tail(q)) = Len(q) - 1
         /\ Range(q) = {Head(q)} \cup Range(Tail(q))
<1>1. /\ Len(q) \in Nat \ {0} /\ DOMAIN q = 1..Len(q) /\ Head(q) = q[1]
      /\ DOMAIN Tail(q) = 1..(Len(q) - 1)
      /\ \A i \in 1..(Len(q) - 1) : Tail(q)[i] = q[i + 1]
  OBVIOUS
<1>2. Tail(q) \in Seq(S) /\ Len(Tail(q)) = Len(q) - 1
  OBVIOUS
<1>3. ASSUME NEW i \in 1..Len(q), i # 1
      PROVE  \E j \in DOMAIN Tail(q) : q[i] = Tail(q)[j]
  <2>1. i - 1 \in 1..(Len(q) - 1) /\ (i - 1) + 1 = i
    BY <1>1, <1>3
  <2> QED
    BY <1>1, <2>1
<1>4. Range(q) \subseteq {Head(q)} \cup Range(Tail(q))
  BY <1>1, <1>3 DEF Range
<1>5. {Head(q)} \cup Range(Tail(q)) \subseteq Range(q)
  <2>1. \A i \in DOMAIN Tail(q) : i + 1 \in DOMAIN q /\ Tail(q)[i] = q[i + 1]
    BY <1>1
  <2> QED
    BY <1>1, <2>1 DEF Range
<1> QED
  BY <1>2, <1>4, <1>5

LEMMA CacheTyped ==
  ASSUME TypeOK
  PROVE  /\ DOMAIN cache = 1..Len(cache) /\ Len(cache) \in Nat
         /\ \A i \in DOMAIN cache :
              cache[i].id \in Ids /\ cache[i].body \in Bodies /\ cache[i].thread \in Calls
         /\ \A r \in Range(cache) : r.id \in Ids /\ r.thread \in Calls
<1> DEFINE Records == [id : Ids, body : Bodies, thread : Calls]
<1>a. cache \in Seq(Records)
  BY DEF TypeOK
<1>b. \A r \in Records : r.id \in Ids /\ r.body \in Bodies /\ r.thread \in Calls
  OBVIOUS
<1> HIDE DEF Records
<1>1. DOMAIN cache = 1..Len(cache) /\ Len(cache) \in Nat
  BY <1>a
<1>2. \A i \in 1..Len(cache) : cache[i] \in Records
  BY <1>a
<1>3. \A i \in DOMAIN cache :
        cache[i].id \in Ids /\ cache[i].body \in Bodies /\ cache[i].thread \in Calls
  BY <1>1, <1>2, <1>b
<1> QED
  BY <1>1, <1>3 DEF Range

LEMMA Asking ==
  ASSUME TypeOK, NEW c \in Calls
  PROVE  /\ ask[c].kind \in {"create", "thread", "start", "refer", "get"}
         /\ ask[c].via \in Sessions \cup {HTTP}
         /\ ask[c].kind = "create" => ask[c].id \in Ids /\ ask[c].body \in Bodies
         /\ ask[c].kind \notin {"create", "thread"} => ask[c].thread \in Calls
         /\ ask[c].kind = "thread" => ask[c].title \in {Default, Given}
         /\ ask[c].kind = "get" => ask[c].via \in Sessions
         /\ Home(c) \in Calls
<1>1. ask[c] \in Asks
  BY ScriptsAssumption DEF TypeOK, calls, store, manager, session, closing, Stages, Over
<1> QED
  BY <1>1 DEF Asks, Home, Makes

-----------------------------------------------------------------------------
(***************************************************************************)
(* Types                                                                   *)
(***************************************************************************)
\* An event reaches every session that runs.
LEMMA Published ==
  ASSUME TypeOK, NEW e \in Events, Publish(e)
  PROVE  /\ published' \subseteq Events /\ lagged' \in [Sessions -> SUBSET published']
         /\ queue' \in [Sessions -> Seq(published')]
         /\ \A s \in Sessions : Len(queue'[s]) <= Buffer
         /\ \A s \in Sessions : SUBSET published \subseteq SUBSET published'
<1> USE BoundsAssumption
<1>1. published' = published \cup {e} /\ published' \subseteq Events
  BY DEF Publish, TypeOK
<1>2. ASSUME NEW s \in Sessions
      PROVE  queue'[s] \in Seq(published') /\ Len(queue'[s]) <= Buffer
  <2>1. queue[s] \in Seq(published') /\ Len(queue[s]) <= Buffer
    BY <1>1 DEF TypeOK
  <2>2. CASE s \notin open
    BY <2>2 DEF Publish
  <2>3. CASE s \in open /\ Len(queue[s]) >= Buffer
    <3>1. Tail(queue[s]) \in Seq(published') /\ Len(Tail(queue[s])) = Len(queue[s]) - 1
      BY <2>1, <2>3, RangeOfTail
    <3>2. queue'[s] = Append(Tail(queue[s]), e)
      BY <2>3 DEF Publish
    <3> QED
      BY <1>1, <2>1, <3>1, <3>2
  <2>4. CASE s \in open /\ ~(Len(queue[s]) >= Buffer)
    BY <1>1, <2>1, <2>4 DEF Publish
  <2> QED
    BY <2>2, <2>3, <2>4
<1>3. DOMAIN queue' = Sessions /\ queue' = [s \in Sessions |-> queue'[s]]
  BY DEF Publish
<1>4. ASSUME NEW s \in Sessions
      PROVE  lagged'[s] \subseteq published'
  <2>1. lagged[s] \subseteq published'
    BY <1>1 DEF TypeOK
  <2>2. ASSUME Len(queue[s]) >= Buffer
        PROVE  Head(queue[s]) \in published'
    <3>1. queue[s] \in Seq(published) /\ queue[s] # <<>>
      BY <2>2 DEF TypeOK
    <3> QED
      BY <1>1, <3>1
  <2>3. lagged'[s] \in {lagged[s], lagged[s] \cup {Head(queue[s])}}
    BY DEF Publish
  <2> QED
    BY <2>1, <2>2, <2>3 DEF Publish
<1>5. DOMAIN lagged' = Sessions /\ lagged' = [s \in Sessions |-> lagged'[s]]
  BY DEF Publish
<1> QED
  BY <1>1, <1>2, <1>3, <1>4, <1>5

LEMMA TypesStep == TypeOK /\ StagesOK /\ TurnsInv /\ Next => TypeOK'
<1> SUFFICES ASSUME TypeOK, StagesOK, TurnsInv, Next
             PROVE  TypeOK'
  OBVIOUS
<1> USE ScriptsAssumption, BoundsAssumption
<1>1. CASE \E c \in Calls : CreateAndStart(c)
  <2>1. PICK c \in Calls : CreateAndStart(c)
    BY <1>1
  <2>2. /\ UNCHANGED <<ask, cache, lost, store, manager, open, queue, lagged, told, published,
                       closing>>
    BY <2>1 DEF CreateAndStart
  <2>7. stage' \in [Calls -> Stages]
    <3>1. PICK where \in Stages : Moves(c, where)
      BY <2>1 DEF CreateAndStart, Stages, Over
    <3> QED
      BY <3>1 DEF Moves, TypeOK
  <2>8. lock' \subseteq Calls
    BY <2>1 DEF TypeOK, CreateAndStart
  <2>6. faults' \in 0..MaxFaults
    BY <2>1 DEF TypeOK, CreateAndStart, Fault
  <2>3. \A record \in Known(ask[c].id) : record.thread \in Calls
    BY CacheTyped DEF Known
  <2>4. CASE UNCHANGED <<subs, seen>>
    BY <2>2, <2>4, <2>6, <2>7, <2>8 DEF TypeOK, store, manager, closing
  <2>5. CASE \E record \in Known(ask[c].id) :
               /\ Subscribe(c, record.thread)
               /\ seen' = [s \in Sessions |-> IF s = ask[c].via
                            THEN seen[s] \cup Past(record.thread) ELSE seen[s]]
    <3>1. subs' \in [Sessions -> SUBSET Calls]
      BY <2>3, <2>5 DEF TypeOK, Subscribe
    <3>2. seen' \in [Sessions -> SUBSET published']
      BY <2>2, <2>5 DEF TypeOK, Past
    <3> QED
      BY <2>2, <2>6, <2>7, <2>8, <3>1, <3>2 DEF TypeOK, store, manager, closing
  <2> QED
    BY <2>1, <2>4, <2>5 DEF CreateAndStart
<1>2. CASE \E c \in Calls : CreateThread(c)
  <2>1. PICK c \in Calls : CreateThread(c)
    BY <1>2
  <2>2. UNCHANGED <<ask, cache, lost, turn, turns, title, copy, manager, session, closing>>
    BY <2>1 DEF CreateThread
  <2>3. stage' \in [Calls -> Stages]
    <3>1. PICK where \in Stages : Moves(c, where)
      BY <2>1 DEF CreateThread, Stages, Over
    <3> QED
      BY <3>1 DEF Moves, TypeOK
  <2>4. lock' \subseteq Calls /\ threads' \subseteq Calls
    BY <2>1 DEF TypeOK, CreateThread
  <2>5. faults' \in 0..MaxFaults
    BY <2>1 DEF TypeOK, CreateThread, Fault
  <2> QED
    BY <2>2, <2>3, <2>4, <2>5 DEF TypeOK, manager, session, closing
<1>3. CASE \E c \in Calls : Prepare(c)
  <2>1. PICK c \in Calls : Prepare(c)
    BY <1>3
  <2>2. /\ UNCHANGED <<ask, lock, cache, lost, threads, title, copy, manager, session, closing, faults>>
        /\ stage' \in [Calls -> Stages]
        /\ turn' \in [Calls -> {"none", "queued", "running", "completed", "ended"}]
    BY <2>1 DEF TypeOK, Prepare, Moves, Stages, Over
  <2>3. turns' \in Seq(Calls)
    BY <2>1 DEF TypeOK, Prepare
  <2>4. IsInjective(turns')
    BY <2>1 DEF TypeOK, StagesOK, StageOK, TurnsInv, Prepare, IsInjective
  <2> QED
    BY <2>2, <2>3, <2>4 DEF TypeOK, manager, session, closing
<1>4. CASE \E c \in Calls : PrepareFails(c)
  BY <1>4, Asking DEF TypeOK, StagesOK, StageOK, PrepareFails, Moves, calls, store,
     manager, session, closing, Stages, Over
<1>5. CASE \E c \in Calls : Undo(c)
  <2>1. PICK c \in Calls : Undo(c)
    BY <1>5
  <2>2. UNCHANGED <<ask, cache, turn, turns, title, copy, manager, session, closing>>
    BY <2>1 DEF Undo
  <2>3. stage' \in [Calls -> Stages]
    BY <2>1 DEF TypeOK, Undo, Moves, Stages, Over
  <2>4. lock' \subseteq Calls /\ threads' \subseteq Calls
    BY <2>1 DEF TypeOK, Undo, Undone
  <2>5. ask[c].id \in Ids
    BY <2>1, Asking DEF StagesOK, StageOK, Undo
  <2>6. lost' \subseteq Ids /\ faults' \in 0..MaxFaults
    BY <2>1, <2>5 DEF TypeOK, Undo, Fault
  <2> QED
    BY <2>2, <2>3, <2>4, <2>6 DEF TypeOK, manager, session, closing
<1>6. CASE \E c \in Calls : Register(c)
  <2>1. PICK c \in Calls : Register(c)
    BY <1>6
  <2>2. /\ UNCHANGED <<ask, lock, cache, lost, store, titling, session, closing, faults>>
        /\ stage' \in [Calls -> Stages] /\ active' \subseteq Calls
    BY ZenonT(60), <2>1 DEF TypeOK, Register, Moves, Stages, Over
  <2>3. task' \in [Calls -> {"none", "running", "notifying", "gone"}]
    BY <2>1 DEF TypeOK, Register
  <2> QED
    BY <2>2, <2>3 DEF TypeOK, store, session, closing
<1>7. CASE \E c \in Calls : Remember(c)
  <2>1. PICK c \in Calls : Remember(c)
    BY <1>7
  <2>2. /\ UNCHANGED <<ask, store, active, titling, open, queue, lagged, told, published,
                       closing, faults>>
        /\ stage' \in [Calls -> Stages] /\ lock' \subseteq Calls
        /\ task' \in [Calls -> {"none", "running", "notifying", "gone"}]
    BY ZenonT(60), <2>1 DEF TypeOK, Remember, Moves, Stages, Over
  <2>3. Record(c) \in [id : Ids, body : Bodies, thread : Calls]
    BY <2>1, Asking DEF StagesOK, StageOK, Remember, Record
  <2>4. /\ Kept \in Seq([id : Ids, body : Bodies, thread : Calls]) /\ Len(Kept) < Capacity
    BY RangeOfTail DEF TypeOK, Kept
  <2>5. /\ cache' \in Seq([id : Ids, body : Bodies, thread : Calls]) /\ Len(cache') <= Capacity
    BY <2>1, <2>3, <2>4 DEF Remember
  <2>6. \A record \in Range(cache) : record.id \in Ids
    BY CacheTyped
  <2>7. lost' \subseteq Ids
    BY <2>1, <2>6 DEF TypeOK, Remember
  <2>8. subs' \in [Sessions -> SUBSET Calls] /\ seen' \in [Sessions -> SUBSET published']
    BY SMTT(60), <2>1 DEF TypeOK, Remember, Subscribe, Past
  <2> QED
    BY <2>2, <2>5, <2>7, <2>8 DEF TypeOK, store, closing
<1>8. CASE \E c \in Calls : Respond(c)
  <2>1. PICK c \in Calls : Respond(c)
    BY <1>8
  <2>2. /\ UNCHANGED <<ask, lock, cache, lost, store, active, titling, closing>>
        /\ stage' \in [Calls -> Stages] /\ faults' \in 0..MaxFaults
        /\ task' \in [Calls -> {"none", "running", "notifying", "gone"}]
    BY <2>1 DEF TypeOK, Respond, Launch, Moves, Fault, Stages, Over
  <2>3. CASE UNCHANGED session
    BY <2>2, <2>3 DEF TypeOK, store, session, closing
  <2>4. CASE Leave(ask[c].via)
    <3>1. /\ open' \subseteq Sessions /\ UNCHANGED published
          /\ lagged' \in [Sessions -> SUBSET published] /\ told' \in [Sessions -> SUBSET published]
      BY <2>4 DEF TypeOK, Leave
    <3>2. /\ subs' \in [Sessions -> SUBSET Calls] /\ seen' \in [Sessions -> SUBSET published]
      BY <2>4 DEF TypeOK, Leave
    <3>3. \A s \in Sessions : queue'[s] = queue[s] \/ queue'[s] = <<>>
      BY <2>4 DEF TypeOK, Leave
    <3>4. queue' \in [Sessions -> Seq(published)]
      <4>1. \A s \in Sessions : queue'[s] \in Seq(published)
        <5>1. \A s \in Sessions : queue[s] \in Seq(published)
          BY DEF TypeOK
        <5>2. <<>> \in Seq(published)
          OBVIOUS
        <5> QED
          BY <3>3, <5>1, <5>2
      <4>2. queue' = [s \in Sessions |-> queue'[s]]
        BY <2>4 DEF TypeOK, Leave
      <4> QED
        BY <4>1, <4>2
    <3>5. \A s \in Sessions : Len(queue'[s]) <= Buffer
      BY <3>3 DEF TypeOK
    <3> QED
      BY <2>2, <3>1, <3>2, <3>4, <3>5 DEF TypeOK, store, closing
  <2> QED
    BY <2>1, <2>3, <2>4 DEF Respond
<1>9. CASE \E c \in Calls : Drop(c)
  BY SMTT(60), <1>9, Asking DEF TypeOK, StagesOK, StageOK, Drop, Moves, Fault, calls,
     store, manager, session, closing, Stages, Over
<1>10. CASE \E c \in Calls : StartTurn(c)
  BY SMTT(60), <1>10, Asking DEF TypeOK, StagesOK, StageOK, StartTurn, Moves, Arrives,
     Subscribe, Past, calls, store, manager, session, closing, Stages, Over
<1>11. CASE \E c \in Calls : GetThread(c)
  BY SMTT(60), <1>11, Asking DEF TypeOK, StagesOK, StageOK, GetThread, Moves, Arrives,
     Subscribe, calls, store, manager, session, closing, Stages, Over
<1>12. CASE \E c \in Calls : Snapshot(c)
  BY SMTT(60), <1>12, Asking DEF TypeOK, StagesOK, StageOK, Snapshot, Moves, Past, calls,
     store, manager, session, closing, Stages, Over
<1>13. CASE \E c \in Calls : Begins(c)
  BY SMTT(60), <1>13, Asking DEF TypeOK, StagesOK, StageOK, Begins, Publish, Events,
     calls, store, manager, session, closing, Stages, Over
<1>14. CASE \E c \in Calls : Ends(c)
  <2>1. PICK c \in Calls : Ends(c)
    BY <1>14
  <2>2. /\ UNCHANGED <<calls, threads, turns, title, copy, active, task, open, subs, told, seen,
                       closing, faults>>
        /\ turn' \in [Calls -> {"none", "queued", "running", "completed", "ended"}]
    BY <2>1 DEF TypeOK, Ends
  <2>3. titling' \in [Calls -> {"none", "reading", "making"}]
    BY <2>1 DEF TypeOK, Ends
  <2>4. Publish(EndOf(c)) /\ EndOf(c) \in Events
    BY <2>1 DEF Ends, Events, EndOf
  <2>5. seen' \in [Sessions -> SUBSET published'] /\ told' \in [Sessions -> SUBSET published']
    BY <2>2, <2>4, Published DEF TypeOK
  <2> QED
    BY <2>2, <2>3, <2>4, <2>5, Published DEF TypeOK, calls, closing
<1>15. CASE \E c \in Calls : Unregister(c)
  BY <1>15, Asking DEF TypeOK, StagesOK, StageOK, Unregister, calls, store, manager,
     session, closing, Stages, Over
<1>16. CASE \E c \in Calls : Notify(c)
  BY <1>16, Asking DEF TypeOK, StagesOK, StageOK, Notify, calls, store, manager, session,
     closing, Stages, Over
<1>17. CASE \E c \in Calls : ReadTitle(c)
  BY <1>17, Asking DEF TypeOK, StagesOK, StageOK, ReadTitle, calls, store, manager,
     session, closing, Stages, Over
<1>18. CASE \E c \in Calls : WriteTitle(c)
  <2>1. PICK c \in Calls : WriteTitle(c)
    BY <1>18
  <2>2. UNCHANGED <<calls, threads, turn, turns, copy, active, task, session, closing, faults>>
    BY <2>1 DEF WriteTitle
  <2>3. titling' \in [Calls -> {"none", "reading", "making"}]
    BY <2>1 DEF TypeOK, WriteTitle
  <2>4. title' \in [Calls -> Calls \cup {Default, Given}]
    <3>1. PICK h \in Calls : h = Home(c)
      BY Asking
    <3>2. title' = title \/ title' = [title EXCEPT ![h] = c]
      BY <2>1, <3>1 DEF WriteTitle, TypeOK
    <3> QED
      BY ZenonT(60), <3>2 DEF TypeOK
  <2> QED
    BY <2>2, <2>3, <2>4 DEF TypeOK, calls, session, closing
<1>19. CASE \E s \in Sessions : Gap(s)
  BY <1>19, Asking DEF TypeOK, Gap, Report, calls, store, manager, session, closing,
     Stages, Over
<1>20. CASE \E s \in Sessions : Deliver(s)
  BY SMTT(60), <1>20, Asking DEF TypeOK, Deliver, calls, store, manager, session, closing,
     Stages, Over
<1>21. CASE \E s \in Sessions : HangUp(s)
  BY SMTT(60), <1>21, Asking DEF TypeOK, HangUp, Fault, Leave, calls, store, manager,
     session, closing, Stages, Over
<1>22. CASE \E s \in Sessions, h \in Calls : Unsubscribe(s, h)
  BY <1>22, Asking DEF TypeOK, Unsubscribe, Fault, calls, store, manager, session,
     closing, Stages, Over
<1>29. CASE \E c \in Calls : HydrateFails(c)
  <2>1. PICK c \in Calls : HydrateFails(c)
    BY <1>29
  <2>2. UNCHANGED <<ask, cache, store, manager, session, closing>>
    BY <2>1 DEF HydrateFails
  <2>3. stage' \in [Calls -> Stages]
    BY <2>1 DEF TypeOK, HydrateFails, Moves, Stages, Over
  <2>4. ask[c].id \in Ids
    BY <2>1, Asking DEF StagesOK, StageOK, HydrateFails
  <2>5. lock' \subseteq Calls /\ lost' \subseteq Ids /\ faults' \in 0..MaxFaults
    BY <2>1, <2>4 DEF TypeOK, HydrateFails, Fault
  <2> QED
    BY <2>2, <2>3, <2>5 DEF TypeOK, store, manager, session, closing
<1>30. CASE \E c \in Calls : NewThread(c)
  <2>1. PICK c \in Calls : NewThread(c)
    BY <1>30
  <2>2. UNCHANGED <<ask, lock, cache, lost, turn, turns, copy, manager, session, closing>>
    BY <2>1 DEF NewThread
  <2>3. stage' \in [Calls -> Stages]
    BY <2>1 DEF TypeOK, NewThread, Moves, Stages, Over
  <2>4. ask[c].title \in {Default, Given}
    BY <2>1, Asking DEF NewThread, Arrives
  <2>5. threads' \subseteq Calls /\ faults' \in 0..MaxFaults
    BY <2>1 DEF TypeOK, NewThread, Fault
  <2>6. title' \in [Calls -> Calls \cup {Default, Given}]
    BY <2>1, <2>4 DEF TypeOK, NewThread
  <2> QED
    BY <2>2, <2>3, <2>5, <2>6 DEF TypeOK, manager, session, closing
<1>31. CASE \E c \in Calls : AddReference(c) \/ UpdateThread(c)
  <2>1. PICK c \in Calls : AddReference(c) \/ UpdateThread(c)
    BY <1>31
  <2>2. UNCHANGED <<ask, lock, cache, lost, threads, turn, turns, manager, session, closing>>
    BY <2>1 DEF AddReference, UpdateThread
  <2>3. stage' \in [Calls -> Stages] /\ faults' \in 0..MaxFaults
    <3>1. PICK where \in Stages : Moves(c, where)
      BY <2>1 DEF AddReference, UpdateThread, Stages, Over
    <3>2. stage' \in [Calls -> Stages]
      BY <3>1 DEF Moves, TypeOK
    <3>3. faults' \in 0..MaxFaults
      BY <2>1 DEF TypeOK, AddReference, UpdateThread, Fault
    <3> QED
      BY <3>2, <3>3
  <2>4. PICK h \in Calls : h = Home(c)
    BY Asking
  <2>5. /\ title' = title \/ title' = [title EXCEPT ![h] = copy[c]]
        /\ copy' = copy \/ copy' = [copy EXCEPT ![c] = title[h]]
    BY <2>1, <2>4 DEF AddReference, UpdateThread
  <2>6. title' \in [Calls -> Calls \cup {Default, Given}]
    BY ZenonT(60), <2>5 DEF TypeOK
  <2>7. copy' \in [Calls -> Calls \cup {Default, Given}]
    BY <2>5 DEF TypeOK
  <2> QED
    BY <2>2, <2>3, <2>6, <2>7 DEF TypeOK, manager, session, closing
<1>23. CASE Shutdown
  BY <1>23 DEF TypeOK, Shutdown, calls, store, manager, session, closing, Stages, Over
<1>24. CASE Arm
  BY <1>24 DEF TypeOK, Arm, calls, store, manager, session, closing, Stages, Over
<1>25. CASE Look
  BY <1>25 DEF TypeOK, Look, calls, store, manager, session, closing, Stages, Over
<1>26. CASE Sleep
  BY <1>26 DEF TypeOK, Sleep, StillHeard, calls, store, manager, session, closing, Stages,
     Over
<1>27. CASE Wakes
  BY <1>27 DEF TypeOK, Wakes, calls, store, manager, session, closing, Stages, Over
<1>28. CASE TimesOut
  BY SMTT(60), <1>28 DEF TypeOK, TimesOut, calls, store, manager, session, closing,
     Stages, Over
<1> QED
  BY SMTT(60), <1>1, <1>2, <1>3, <1>4, <1>5, <1>6, <1>7, <1>8, <1>9, <1>10, <1>11, <1>12,
     <1>13, <1>14, <1>15, <1>16, <1>17, <1>18, <1>19, <1>20, <1>21, <1>22, <1>23, <1>24,
     <1>25, <1>26, <1>27, <1>28, <1>29, <1>30, <1>31 DEF Next

-----------------------------------------------------------------------------
(***************************************************************************)
(* Stages of a call and the status of its Turn                             *)
(***************************************************************************)
LEMMA StagesStep == TypeOK /\ StagesOK /\ Next => StagesOK'
<1> SUFFICES ASSUME TypeOK, StagesOK, Next, NEW d \in Calls
             PROVE  StageOK(d)'
  BY DEF StagesOK
<1>a. StageOK(d)
  BY SMTT(60) DEF StagesOK
<1> USE DEF StageOK, TypeOK, calls, store, manager
<1>1. CASE \E c \in Calls : CreateAndStart(c)
  BY <1>1, <1>a, Asking DEF CreateAndStart, Arrives, Moves, calls
<1>2. CASE \E c \in Calls : CreateThread(c)
  BY <1>2, <1>a, Asking DEF CreateThread, Moves
<1>3. CASE \E c \in Calls : Prepare(c)
  BY <1>3, <1>a, Asking DEF Prepare, Moves
<1>4. CASE \E c \in Calls : PrepareFails(c)
  BY <1>4, <1>a, Asking DEF PrepareFails, Moves
<1>5. CASE \E c \in Calls : Undo(c)
  BY SMTT(60), <1>5, <1>a, Asking DEF Undo, Moves
<1>6. CASE \E c \in Calls : Register(c)
  BY SMTT(60), <1>6, <1>a, Asking DEF Register, Moves
<1>7. CASE \E c \in Calls : Remember(c)
  BY SMTT(60), <1>7, <1>a, Asking DEF Remember, Moves
<1>8. CASE \E c \in Calls : Respond(c)
  BY SMTT(60), <1>8, <1>a, Asking DEF Respond, Moves, Launch
<1>9. CASE \E c \in Calls : Drop(c)
  BY SMTT(60), <1>9, <1>a, Asking DEF Drop, Moves
<1>10. CASE \E c \in Calls : StartTurn(c)
  BY <1>10, <1>a, Asking DEF StartTurn, Arrives, Moves, calls
<1>11. CASE \E c \in Calls : GetThread(c)
  BY <1>11, <1>a, Asking DEF GetThread, Arrives, Moves, calls
<1>12. CASE \E c \in Calls : Snapshot(c)
  BY <1>12, <1>a, Asking DEF Snapshot, Moves
<1>13. CASE \E c \in Calls : Begins(c)
  BY <1>13, <1>a, Asking DEF Begins
<1>14. CASE \E c \in Calls : Ends(c)
  BY <1>14, <1>a, Asking DEF Ends
<1>15. CASE \E c \in Calls : Unregister(c)
  BY <1>15, <1>a, Asking DEF Unregister, Finished
<1>16. CASE \E c \in Calls : Notify(c)
  BY <1>16, <1>a, Asking DEF Notify
<1>17. CASE \E c \in Calls : ReadTitle(c)
  BY <1>17, <1>a, Asking DEF ReadTitle
<1>18. CASE \E c \in Calls : WriteTitle(c)
  BY <1>18, <1>a, Asking DEF WriteTitle
<1>19. CASE UNCHANGED <<ask, stage, turn, task, lost>>
  BY <1>19, <1>a
<1>22. CASE \E c \in Calls : HydrateFails(c)
  BY SMTT(60), <1>22, <1>a, Asking DEF HydrateFails, Moves
<1>23. CASE \E c \in Calls : NewThread(c) \/ AddReference(c) \/ UpdateThread(c)
  BY <1>23, <1>a, Asking DEF NewThread, AddReference, UpdateThread, Arrives, Moves
<1>20. CASE \E s \in Sessions : Gap(s) \/ Deliver(s) \/ HangUp(s)
                                \/ \E h \in Calls : Unsubscribe(s, h)
  BY <1>19, <1>20 DEF Gap, Deliver, HangUp, Unsubscribe
<1>21. CASE Shutdown \/ Arm \/ Look \/ Sleep \/ Wakes \/ TimesOut
  BY SMTT(60), <1>19, <1>21 DEF Shutdown, Arm, Look, Sleep, Wakes, TimesOut
<1> QED
  BY SMTT(60), <1>1, <1>2, <1>3, <1>4, <1>5, <1>6, <1>7, <1>8, <1>9, <1>10, <1>11, <1>12,
     <1>13, <1>14, <1>15, <1>16, <1>17, <1>18, <1>20, <1>21, <1>22, <1>23 DEF Next

-----------------------------------------------------------------------------
(***************************************************************************)
(* The mutex, the window and the Threads                                   *)
(***************************************************************************)
LEMMA LockStep == TypeOK /\ StagesOK /\ LockOK /\ Next => LockOK'
<1> SUFFICES ASSUME TypeOK, StagesOK, LockOK, Next
             PROVE  LockOK'
  OBVIOUS
<1> USE DEF TypeOK, StagesOK, StageOK, LockOK, Locking, calls, store
<1>1. CASE \E c \in Calls : CreateAndStart(c)
  BY <1>1, Asking DEF CreateAndStart, Arrives, Moves, LockIsFree
<1>2. CASE \E c \in Calls : CreateThread(c)
  <2>1. PICK c \in Calls : CreateThread(c)
    BY <1>2
  <2>2. /\ stage[c] = "creating" /\ ask' = ask /\ lock' \subseteq lock
        /\ \A d \in Calls : d # c => stage'[d] = stage[d]
        /\ \/ stage'[c] = "preparing" /\ lock' = lock
           \/ stage'[c] = "failed" /\ lock' = lock \ {c}
    BY <2>1 DEF CreateThread, Moves
  <2> QED
    BY <2>2, Asking
<1>3. CASE \E c \in Calls : Prepare(c)
  BY <1>3, Asking DEF Prepare, Moves
<1>4. CASE \E c \in Calls : PrepareFails(c)
  BY <1>4, Asking DEF PrepareFails, Moves
<1>5. CASE \E c \in Calls : Undo(c)
  BY <1>5, Asking DEF Undo, Moves
<1>6. CASE \E c \in Calls : Register(c)
  BY <1>6, Asking DEF Register, Moves
<1>7. CASE \E c \in Calls : Remember(c)
  BY <1>7, Asking DEF Remember, Moves
<1>8. CASE \E c \in Calls : Respond(c)
  BY <1>8, Asking DEF Respond, Moves
<1>9. CASE \E c \in Calls : Drop(c)
  BY <1>9, Asking DEF Drop, Moves
<1>10. CASE \E c \in Calls : StartTurn(c)
  BY <1>10, Asking DEF StartTurn, Arrives, Moves
<1>11. CASE \E c \in Calls : GetThread(c)
  BY <1>11, Asking DEF GetThread, Arrives, Moves
<1>12. CASE \E c \in Calls : Snapshot(c)
  BY <1>12, Asking DEF Snapshot, Moves
<1>13. CASE UNCHANGED <<ask, stage, lock>>
  BY <1>13
<1>14. CASE \E c \in Calls : Begins(c) \/ Ends(c) \/ Unregister(c) \/ Notify(c)
                             \/ ReadTitle(c) \/ WriteTitle(c)
  BY <1>13, <1>14 DEF Begins, Ends, Unregister, Notify, ReadTitle, WriteTitle
<1>15. CASE \E s \in Sessions : Gap(s) \/ Deliver(s) \/ HangUp(s)
                                \/ \E h \in Calls : Unsubscribe(s, h)
  BY <1>13, <1>15 DEF Gap, Deliver, HangUp, Unsubscribe
<1>16. CASE Shutdown \/ Arm \/ Look \/ Sleep \/ Wakes \/ TimesOut
  BY <1>13, <1>16 DEF Shutdown, Arm, Look, Sleep, Wakes, TimesOut
<1>17. CASE \E c \in Calls : HydrateFails(c)
  BY SMTT(60), <1>17, Asking DEF HydrateFails, Moves
<1>18. CASE \E c \in Calls : NewThread(c) \/ AddReference(c) \/ UpdateThread(c)
  BY SMTT(60), <1>18, Asking DEF NewThread, AddReference, UpdateThread, Arrives, Moves
<1> QED
  BY SMTT(60), <1>1, <1>2, <1>3, <1>4, <1>5, <1>6, <1>7, <1>8, <1>9, <1>10, <1>11, <1>12,
     <1>14, <1>15, <1>16, <1>17, <1>18 DEF Next

LEMMA InWindow ==
  TypeOK => \A i \in DOMAIN cache : cache[i].thread \in Calls
  BY CacheTyped

\* What is kept of the window keeps its order.
LEMMA KeptIs ==
  ASSUME TypeOK
  PROVE  \E k \in {0, 1} :
           /\ k <= Len(cache) /\ Len(Kept) = Len(cache) - k
           /\ Kept \in Seq([id : Ids, body : Bodies, thread : Calls])
           /\ \A i \in 1..Len(Kept) : i + k \in DOMAIN cache /\ Kept[i] = cache[i + k]
<1> USE BoundsAssumption
<1> DEFINE Records == [id : Ids, body : Bodies, thread : Calls]
<1>1. cache \in Seq(Records)
  BY DEF TypeOK
<1> HIDE DEF Records
<1>2. CASE Len(cache) >= Capacity
  <2>1. cache # <<>> /\ Kept = Tail(cache)
    BY <1>1, <1>2 DEF Kept
  <2>2. /\ Len(Kept) = Len(cache) - 1 /\ 1 <= Len(cache) /\ Kept \in Seq(Records)
        /\ \A i \in 1..(Len(cache) - 1) : Kept[i] = cache[i + 1]
    BY <1>1, <2>1, RangeOfTail
  <2>3. \A i \in 1..Len(Kept) : i + 1 \in DOMAIN cache /\ Kept[i] = cache[i + 1]
    BY SMTT(60), <1>1, <2>2
  <2> QED
    BY SMTT(60), <2>2, <2>3 DEF Records
<1>3. CASE ~(Len(cache) >= Capacity)
  <2>1. /\ Kept = cache /\ Len(Kept) = Len(cache) - 0 /\ 0 <= Len(cache)
        /\ \A i \in 1..Len(Kept) : i + 0 \in DOMAIN cache /\ Kept[i] = cache[i + 0]
    BY <1>1, <1>3 DEF Kept
  <2> QED
    BY <1>1, <2>1 DEF Records
<1> QED
  BY <1>2, <1>3

\* The window after a record is inserted: what was kept, and the record.
LEMMA Remembered ==
  ASSUME TypeOK, NEW c \in Calls, Remember(c)
  PROVE  /\ DOMAIN cache' = 1..(Len(Kept) + 1)
         /\ cache'[Len(Kept) + 1] = Record(c)
         /\ \A i \in 1..Len(Kept) : cache'[i] = Kept[i]
         /\ Len(Kept) \in Nat
<1> DEFINE Records == [id : Ids, body : Bodies, thread : Calls]
<1>1. Kept \in Seq(Records)
  BY KeptIs
<1> HIDE DEF Records
<1>2. cache' = Append(Kept, Record(c))
  BY SMTT(60) DEF Remember
<1> QED
  BY <1>1, <1>2

LEMMA WindowStep == TypeOK /\ StagesOK /\ LockOK /\ WindowOK /\ Next => WindowOK'
<1> SUFFICES ASSUME TypeOK, StagesOK, LockOK, WindowOK, Next
             PROVE  WindowOK'
  OBVIOUS
<1> USE DEF WindowOK, Record, calls, store
<1>1. CASE \E c \in Calls : CreateAndStart(c)
  <2>1. PICK c \in Calls : CreateAndStart(c)
    BY <1>1
  <2>2. /\ UNCHANGED <<ask, cache>>
        /\ \A d \in Calls : stage[d] \in {"sending", "answered"} => stage'[d] = stage[d]
    BY <2>1 DEF TypeOK, CreateAndStart, Arrives, Moves
  <2>3. ASSUME NEW d \in lock', NEW i \in DOMAIN cache
        PROVE  cache[i].id # ask[d].id
    <3>1. CASE UNCHANGED lock
      BY <3>1
    <3>2. CASE Known(ask[c].id) = {} /\ lock' = lock \cup {c}
      <4>1. d = c
        BY <2>1, <3>2 DEF CreateAndStart, LockIsFree
      <4> QED
        BY <3>2, <4>1 DEF Known, Range
    <3> QED
      BY <2>1, <3>1, <3>2 DEF CreateAndStart
  <2> QED
    BY <2>2, <2>3, InWindow
<1>2. CASE \E c \in Calls : CreateThread(c)
  <2>1. PICK c \in Calls : CreateThread(c)
    BY <1>2
  <2>2. /\ \A d \in Calls : stage[d] \in {"sending", "answered"} => stage'[d] = stage[d]
        /\ UNCHANGED <<ask, cache>> /\ lock' \subseteq lock
    BY <2>1 DEF TypeOK, CreateThread, Moves
  <2> QED
    BY <2>2, InWindow
<1>3. CASE \E c \in Calls : Prepare(c)
  BY <1>3, InWindow DEF TypeOK, Prepare, Moves
<1>4. CASE \E c \in Calls : PrepareFails(c)
  BY <1>4, InWindow DEF TypeOK, PrepareFails, Moves
<1>5. CASE \E c \in Calls : Undo(c)
  BY <1>5, InWindow DEF TypeOK, Undo, Moves
<1>6. CASE \E c \in Calls : Register(c)
  <2>1. PICK c \in Calls : Register(c)
    BY <1>6
  <2>2. \A d \in Calls : stage[d] \in {"sending", "answered"} => stage'[d] = stage[d]
    BY <2>1 DEF TypeOK, Register, Moves
  <2> QED
    BY <2>1, <2>2, InWindow DEF Register
<1>7. CASE \E c \in Calls : Remember(c)
  <2>1. PICK c \in Calls : Remember(c)
    BY <1>7
  <2>2. /\ UNCHANGED ask /\ lock' = {} /\ c \in lock
        /\ \A d \in Calls : stage[d] \in {"sending", "answered"} => stage'[d] = stage[d]
        /\ stage'[c] \in {"sending", "answered"}
    BY <2>1 DEF TypeOK, StagesOK, StageOK, LockOK, Locking, Remember, Moves
  <2>3. PICK k \in {0, 1} :
          /\ k <= Len(cache) /\ Len(Kept) = Len(cache) - k
          /\ \A i \in 1..Len(Kept) : i + k \in DOMAIN cache /\ Kept[i] = cache[i + k]
    BY KeptIs
  <2>4. /\ DOMAIN cache' = 1..(Len(Kept) + 1) /\ Len(Kept) \in Nat
        /\ cache'[Len(Kept) + 1] = Record(c)
        /\ \A i \in 1..Len(Kept) : i + k \in DOMAIN cache /\ cache'[i] = cache[i + k]
    BY <2>1, <2>3, Remembered
  <2>5. \A i \in 1..Len(Kept) : cache'[i].id # Record(c).id
    BY <2>2, <2>4
  <2>6. ASSUME NEW i \in DOMAIN cache', NEW j \in DOMAIN cache', cache'[i].id = cache'[j].id
        PROVE  i = j
    <3>1. CASE i \in 1..Len(Kept) /\ j \in 1..Len(Kept)
      <4>1. i + k = j + k
        BY <2>4, <2>6, <3>1
      <4> QED
        BY <2>4, <3>1, <4>1
    <3>2. CASE i = Len(Kept) + 1 \/ j = Len(Kept) + 1
      BY <2>4, <2>5, <2>6, <3>2
    <3> QED
      BY <2>4, <3>1, <3>2
  <2>7. ASSUME NEW i \in DOMAIN cache'
        PROVE  /\ cache'[i] = [id |-> ask[cache'[i].thread].id,
                                body |-> ask[cache'[i].thread].body, thread |-> cache'[i].thread]
               /\ stage'[cache'[i].thread] \in {"sending", "answered"}
    <3>1. CASE i \in 1..Len(Kept)
      BY <2>2, <2>4, <3>1, InWindow
    <3>2. CASE i = Len(Kept) + 1
      BY <2>2, <2>4, <3>2
    <3> QED
      BY <2>4, <3>1, <3>2
  <2> QED
    BY <2>2, <2>6, <2>7
<1>8. CASE \E c \in Calls : Respond(c)
  BY <1>8, InWindow DEF TypeOK, Respond, Moves
<1>9. CASE \E c \in Calls : Drop(c)
  BY <1>9, InWindow DEF TypeOK, Drop, Moves
<1>10. CASE \E c \in Calls : StartTurn(c)
  BY <1>10, InWindow DEF TypeOK, StartTurn, Arrives, Moves
<1>11. CASE \E c \in Calls : GetThread(c)
  BY <1>11, InWindow DEF TypeOK, GetThread, Arrives, Moves
<1>12. CASE \E c \in Calls : Snapshot(c)
  BY <1>12, InWindow DEF TypeOK, Snapshot, Moves
<1>13. CASE UNCHANGED <<ask, stage, lock, cache>>
  BY <1>13
<1>14. CASE \E c \in Calls : Begins(c) \/ Ends(c) \/ Unregister(c) \/ Notify(c)
                             \/ ReadTitle(c) \/ WriteTitle(c)
  BY <1>13, <1>14 DEF Begins, Ends, Unregister, Notify, ReadTitle, WriteTitle
<1>15. CASE \E s \in Sessions : Gap(s) \/ Deliver(s) \/ HangUp(s)
                                \/ \E h \in Calls : Unsubscribe(s, h)
  BY <1>13, <1>15 DEF Gap, Deliver, HangUp, Unsubscribe
<1>16. CASE Shutdown \/ Arm \/ Look \/ Sleep \/ Wakes \/ TimesOut
  BY <1>13, <1>16 DEF Shutdown, Arm, Look, Sleep, Wakes, TimesOut
<1>17. CASE \E c \in Calls : HydrateFails(c)
  BY <1>17, InWindow DEF TypeOK, HydrateFails, Moves, StagesOK, StageOK, LockOK, Locking
<1>18. CASE \E c \in Calls : NewThread(c) \/ AddReference(c) \/ UpdateThread(c)
  <2>1. PICK c \in Calls : NewThread(c) \/ AddReference(c) \/ UpdateThread(c)
    BY <1>18
  <2>2. /\ stage[c] \notin {"sending", "answered"} /\ UNCHANGED <<ask, lock, cache>>
        /\ \E where \in Stages : Moves(c, where)
    BY <2>1 DEF NewThread, AddReference, UpdateThread, Arrives, Stages, Over
  <2>3. \A d \in Calls : stage[d] \in {"sending", "answered"} => stage'[d] = stage[d]
    BY <2>2 DEF TypeOK, Moves
  <2> QED
    BY <2>2, <2>3, InWindow
<1> QED
  BY <1>1, <1>2, <1>3, <1>4, <1>5, <1>6, <1>7, <1>8, <1>9, <1>10, <1>11, <1>12, <1>14,
     <1>15, <1>16, <1>17, <1>18 DEF Next

LEMMA ThreadsStep == TypeOK /\ StagesOK /\ LockOK /\ WindowOK /\ ThreadsOK /\ Next => ThreadsOK'
<1> SUFFICES ASSUME TypeOK, StagesOK, LockOK, WindowOK, ThreadsOK, Next
             PROVE  ThreadsOK'
  OBVIOUS
<1> USE DEF ThreadsOK, Created, calls, store
<1>1. CASE \E c \in Calls : CreateAndStart(c)
  BY <1>1, InWindow DEF TypeOK, CreateAndStart, Arrives, Moves
<1>2. CASE \E c \in Calls : CreateThread(c)
  <2>1. PICK c \in Calls : CreateThread(c)
    BY <1>2
  <2>2. /\ UNCHANGED <<ask, cache, lost>> /\ c \in lock /\ c \notin threads
        /\ ask[c].kind = "create" /\ stage'[c] \in {"preparing", "failed"}
        /\ \A d \in Calls : d # c => stage'[d] = stage[d]
    BY <2>1 DEF TypeOK, CreateThread, StagesOK, StageOK, LockOK, Locking, Moves
  <2>3. CASE threads' = threads \cup {c} /\ UNCHANGED lock
    BY <2>2, <2>3
  <2>4. CASE threads' = threads /\ lock' = lock \ {c}
    BY <2>2, <2>4
  <2> QED
    BY <2>1, <2>3, <2>4 DEF CreateThread
<1>3. CASE \E c \in Calls : Prepare(c)
  BY <1>3, InWindow DEF TypeOK, Prepare, Moves
<1>4. CASE \E c \in Calls : PrepareFails(c)
  BY <1>4, InWindow DEF TypeOK, PrepareFails, Moves
<1>5. CASE \E c \in Calls : Undo(c)
  BY <1>5, InWindow DEF TypeOK, Undo, Undone, StagesOK, StageOK, LockOK, Locking, Moves
<1>6. CASE \E c \in Calls : Register(c)
  BY <1>6, InWindow DEF TypeOK, Register, Moves
<1>7. CASE \E c \in Calls : Remember(c)
  <2>1. PICK c \in Calls : Remember(c)
    BY <1>7
  <2>2. /\ UNCHANGED <<ask, threads>> /\ lock = {c} /\ lock' = {}
        /\ \A d \in Calls : stage'[d] \in {"idle", "creating"} => stage[d] = stage'[d]
    BY <2>1 DEF TypeOK, StagesOK, StageOK, LockOK, Locking, Remember, Moves
  <2>3. PICK k \in {0, 1} :
          /\ k <= Len(cache) /\ Len(Kept) = Len(cache) - k
          /\ \A i \in 1..Len(Kept) : i + k \in DOMAIN cache /\ Kept[i] = cache[i + k]
    BY KeptIs
  <2>4. /\ DOMAIN cache' = 1..(Len(Kept) + 1) /\ Len(Kept) \in Nat
        /\ cache'[Len(Kept) + 1] = Record(c)
        /\ \A i \in 1..Len(Kept) : cache'[i] = Kept[i]
    BY <2>1, Remembered
  <2>5. ASSUME NEW d \in Created
        PROVE  ask[d].id \in lost' \/ \E i \in DOMAIN cache' : cache'[i].thread = d
    <3>1. CASE ask[d].id \in lost
      BY <2>1, <3>1 DEF Remember
    <3>2. CASE d \in lock
      BY <2>2, <2>4, <3>2 DEF Record
    <3>3. CASE \E i \in DOMAIN cache : cache[i].thread = d
      <4>1. PICK i \in DOMAIN cache : cache[i].thread = d
        BY <3>3
      <4>2. cache[i] \in Range(cache) /\ cache[i].id = ask[d].id
        BY <4>1 DEF WindowOK, Record, Range
      <4>3. CASE cache[i] \in Range(Kept)
        <5>1. PICK j \in DOMAIN Kept : Kept[j] = cache[i]
          BY <4>3 DEF Range
        <5>2. DOMAIN Kept = 1..Len(Kept)
          BY KeptIs
        <5> QED
          BY <2>4, <4>1, <5>1, <5>2
      <4>4. CASE cache[i] \notin Range(Kept)
        BY <2>1, <4>2, <4>4 DEF Remember
      <4> QED
        BY <4>3, <4>4
    <3> QED
      BY <3>1, <3>2, <3>3 DEF ThreadsOK
  <2> QED
    BY <2>2, <2>5
<1>8. CASE \E c \in Calls : Respond(c)
  BY <1>8, InWindow DEF TypeOK, Respond, Moves
<1>9. CASE \E c \in Calls : Drop(c)
  BY <1>9, InWindow DEF TypeOK, Drop, Moves
<1>10. CASE \E c \in Calls : StartTurn(c)
  BY <1>10, InWindow DEF TypeOK, StartTurn, Arrives, Moves
<1>11. CASE \E c \in Calls : GetThread(c)
  BY <1>11, InWindow DEF TypeOK, GetThread, Arrives, Moves
<1>12. CASE \E c \in Calls : Snapshot(c)
  BY <1>12, InWindow DEF TypeOK, Snapshot, Moves
<1>13. CASE UNCHANGED <<ask, stage, lock, cache, threads, lost>>
  BY <1>13
<1>14. CASE \E c \in Calls : Begins(c) \/ Ends(c) \/ Unregister(c) \/ Notify(c)
                             \/ ReadTitle(c) \/ WriteTitle(c)
  BY <1>13, <1>14 DEF Begins, Ends, Unregister, Notify, ReadTitle, WriteTitle
<1>15. CASE \E s \in Sessions : Gap(s) \/ Deliver(s) \/ HangUp(s)
                                \/ \E h \in Calls : Unsubscribe(s, h)
  BY <1>13, <1>15 DEF Gap, Deliver, HangUp, Unsubscribe
<1>16. CASE Shutdown \/ Arm \/ Look \/ Sleep \/ Wakes \/ TimesOut
  BY <1>13, <1>16 DEF Shutdown, Arm, Look, Sleep, Wakes, TimesOut
<1>17. CASE \E c \in Calls : HydrateFails(c)
  BY <1>17, InWindow DEF TypeOK, HydrateFails, Moves, StagesOK, StageOK, LockOK, Locking
<1>18. CASE \E c \in Calls : NewThread(c) \/ AddReference(c) \/ UpdateThread(c)
  BY SMTT(60), <1>18, InWindow DEF TypeOK, NewThread, AddReference, UpdateThread, Arrives,
     Moves
<1> QED
  BY <1>1, <1>2, <1>3, <1>4, <1>5, <1>6, <1>7, <1>8, <1>9, <1>10, <1>11, <1>12, <1>14,
     <1>15, <1>16, <1>17, <1>18 DEF Next

\* What the parts promise together: a Thread that is not lost is the one its
\* id has a record for, or the one being made under the mutex.
LEMMA CreateOutcome ==
  ASSUME TypeOK, CreateInv
  PROVE  OneThreadPerRequest /\ FailedCreateLeavesNothing
<1> USE DEF CreateInv
<1>1. ASSUME NEW c \in Created, NEW d \in Created, ask[c].id = ask[d].id, ask[c].id \notin lost
      PROVE  c = d
  <2>1. c \in lock \/ \E i \in DOMAIN cache : cache[i].thread = c /\ cache[i].id = ask[c].id
    BY <1>1 DEF ThreadsOK, WindowOK, Record
  <2>2. d \in lock \/ \E i \in DOMAIN cache : cache[i].thread = d /\ cache[i].id = ask[c].id
    BY <1>1 DEF ThreadsOK, WindowOK, Record
  <2> QED
    BY <1>1, <2>1, <2>2 DEF LockOK, WindowOK
<1>2. ASSUME NEW c \in Created, stage[c] = "failed"
      PROVE  ask[c].id \in lost
  <2>1. c \notin lock /\ c \in Calls
    BY <1>2 DEF TypeOK, LockOK, Locking, Created
  <2>2. \A i \in DOMAIN cache : cache[i].thread # c
    BY <1>2 DEF WindowOK
  <2> QED
    BY <2>1, <2>2 DEF ThreadsOK
<1> QED
  BY <1>1, <1>2 DEF OneThreadPerRequest, FailedCreateLeavesNothing

-----------------------------------------------------------------------------
(***************************************************************************)
(* The barrier of shutdown                                                 *)
(***************************************************************************)
LEMMA BarrierStep == TypeOK /\ StagesOK /\ BarrierInv /\ Next => BarrierInv'
<1> SUFFICES ASSUME TypeOK, StagesOK, BarrierInv, Next
             PROVE  BarrierInv'
  OBVIOUS
<1> USE DEF BarrierInv, ClearMeansEnded, EndOf, calls, store, manager, session, closing
<1>1. CASE \E c \in Calls : Prepare(c)
  BY <1>1 DEF TypeOK, Prepare
<1>2. CASE \E c \in Calls : Register(c)
  BY <1>2 DEF Register
<1>3. CASE \E c \in Calls : Remember(c)
  BY <1>3 DEF TypeOK, StagesOK, StageOK, Remember
<1>4. CASE \E c \in Calls : Respond(c)
  BY <1>4 DEF TypeOK, StagesOK, StageOK, Respond, Launch, Leave
<1>5. CASE \E c \in Calls : Begins(c)
  BY <1>5 DEF TypeOK, Begins, Publish
<1>6. CASE \E c \in Calls : Ends(c)
  BY <1>6 DEF TypeOK, Ends, Publish
<1>7. CASE \E c \in Calls : Unregister(c)
  BY <1>7 DEF TypeOK, Unregister, Finished
<1>8. CASE \E c \in Calls : Notify(c)
  BY <1>8 DEF TypeOK, Notify
<1>9. CASE Shutdown
  BY <1>9 DEF Shutdown
<1>10. CASE Arm
  BY <1>10 DEF Arm
<1>11. CASE Look
  BY <1>11 DEF Look
<1>12. CASE Sleep
  BY <1>12 DEF Sleep, StillHeard
<1>13. CASE Wakes
  BY <1>13 DEF Wakes
<1>14. CASE TimesOut
  BY <1>14 DEF TimesOut
<1>15. CASE UNCHANGED <<turn, published, active, task, closing>>
  BY <1>15
<1>16. CASE \E c \in Calls : CreateAndStart(c) \/ CreateThread(c) \/ PrepareFails(c) \/ Undo(c)
  BY <1>15, <1>16 DEF CreateAndStart, CreateThread, PrepareFails, Undo
<1>19. CASE \E c \in Calls : HydrateFails(c) \/ NewThread(c) \/ AddReference(c) \/ UpdateThread(c)
  BY <1>15, <1>19 DEF HydrateFails, NewThread, AddReference, UpdateThread
<1>17. CASE \E c \in Calls : Drop(c) \/ StartTurn(c) \/ GetThread(c) \/ Snapshot(c)
                             \/ ReadTitle(c) \/ WriteTitle(c)
  BY <1>15, <1>17 DEF Drop, StartTurn, GetThread, Snapshot, ReadTitle, WriteTitle
<1>18. CASE \E s \in Sessions : Gap(s) \/ Deliver(s) \/ HangUp(s)
                                \/ \E h \in Calls : Unsubscribe(s, h)
  BY <1>15, <1>18 DEF Gap, Deliver, HangUp, Unsubscribe, Leave
<1> QED
  BY <1>1, <1>2, <1>3, <1>4, <1>5, <1>6, <1>7, <1>8, <1>9, <1>10, <1>11, <1>12, <1>13,
     <1>14, <1>16, <1>17, <1>18, <1>19 DEF Next

-----------------------------------------------------------------------------
(***************************************************************************)
(* The Turns of a Thread and its title                                     *)
(***************************************************************************)
\* Three steps touch the status of a Turn.
LEMMA TurnMoves ==
  Next => \/ \E c \in Calls : Prepare(c) \/ Begins(c) \/ Ends(c)
          \/ UNCHANGED <<ask, turn, turns>>
<1> SUFFICES ASSUME Next
             PROVE  \/ \E c \in Calls : Prepare(c) \/ Begins(c) \/ Ends(c)
                    \/ UNCHANGED <<ask, turn, turns>>
  OBVIOUS
<1> USE DEF calls, store
<1>1. CASE \E c \in Calls : CreateAndStart(c) \/ CreateThread(c) \/ PrepareFails(c) \/ Undo(c)
                            \/ Register(c) \/ Remember(c) \/ Respond(c) \/ Drop(c)
  BY <1>1 DEF CreateAndStart, CreateThread, PrepareFails, Undo, Register, Remember,
     Respond, Drop
<1>2. CASE \E c \in Calls : StartTurn(c) \/ GetThread(c) \/ Snapshot(c) \/ Unregister(c)
                            \/ Notify(c) \/ ReadTitle(c) \/ WriteTitle(c)
  BY <1>2 DEF StartTurn, GetThread, Snapshot, Unregister, Notify, ReadTitle, WriteTitle
<1>3. CASE \E s \in Sessions : Gap(s) \/ Deliver(s) \/ HangUp(s)
                               \/ \E h \in Calls : Unsubscribe(s, h)
  BY <1>3 DEF Gap, Deliver, HangUp, Unsubscribe
<1>4. CASE Shutdown \/ Arm \/ Look \/ Sleep \/ Wakes \/ TimesOut
  BY <1>4 DEF Shutdown, Arm, Look, Sleep, Wakes, TimesOut
<1>5. CASE \E c \in Calls : HydrateFails(c) \/ NewThread(c) \/ AddReference(c) \/ UpdateThread(c)
  BY <1>5 DEF HydrateFails, NewThread, AddReference, UpdateThread
<1> QED
  BY <1>1, <1>2, <1>3, <1>4, <1>5 DEF Next

\* A prepared Turn is the last of the list and was not in it.
LEMMA Prepared ==
  ASSUME TypeOK, StagesOK, TurnsInv, NEW c \in Calls, Prepare(c)
  PROVE  /\ UNCHANGED ask /\ turn[c] = "none" /\ turn' = [turn EXCEPT ![c] = "queued"]
         /\ Len(turns) \in Nat /\ DOMAIN turns = 1..Len(turns)
         /\ DOMAIN turns' = 1..(Len(turns) + 1)
         /\ turns'[Len(turns) + 1] = c
         /\ \A i \in 1..Len(turns) :
              turns'[i] = turns[i] /\ turns[i] \in Calls /\ turn[turns[i]] # "none"
<1>1. UNCHANGED ask /\ turn[c] = "none" /\ turn' = [turn EXCEPT ![c] = "queued"]
  BY DEF Prepare, StagesOK, StageOK
<1>2. turns' = Append(turns, c) /\ turns \in Seq(Calls)
  BY DEF Prepare, TypeOK
<1>3. /\ Len(turns) \in Nat /\ DOMAIN turns = 1..Len(turns)
      /\ DOMAIN turns' = 1..(Len(turns) + 1)
      /\ turns'[Len(turns) + 1] = c
      /\ \A i \in 1..Len(turns) : turns'[i] = turns[i] /\ turns[i] \in Calls
  BY <1>2
<1> QED
  BY <1>1, <1>3 DEF TurnsInv

LEMMA TurnsStep == TypeOK /\ StagesOK /\ TurnsInv /\ Next => TurnsInv'
<1> SUFFICES ASSUME TypeOK, StagesOK, TurnsInv, Next
             PROVE  TurnsInv'
  OBVIOUS
<1>1. ASSUME NEW c \in Calls, Prepare(c)
      PROVE  TurnsInv'
  <2>1. /\ UNCHANGED ask /\ turn[c] = "none" /\ turn' = [turn EXCEPT ![c] = "queued"]
        /\ Len(turns) \in Nat /\ DOMAIN turns = 1..Len(turns)
        /\ DOMAIN turns' = 1..(Len(turns) + 1)
        /\ turns'[Len(turns) + 1] = c
        /\ \A i \in 1..Len(turns) :
             turns'[i] = turns[i] /\ turns[i] \in Calls /\ turn[turns[i]] # "none"
    BY <1>1, Prepared
  <2>2. \A i \in 1..Len(turns) : turns[i] # c /\ turn'[turns[i]] = turn[turns[i]]
    BY <2>1 DEF TypeOK
  <2>3. ASSUME NEW d \in Calls
        PROVE  turn'[d] # "none" <=> \E i \in DOMAIN turns' : turns'[i] = d
    <3>1. CASE d = c
      <4>1. turn'[d] = "queued"
        BY <2>1, <3>1 DEF TypeOK
      <4>2. Len(turns) + 1 \in DOMAIN turns' /\ turns'[Len(turns) + 1] = d
        BY <2>1, <3>1
      <4> QED
        BY <4>1, <4>2
    <3>2. CASE d # c
      <4>1. turn'[d] = turn[d]
        BY <2>1, <3>2 DEF TypeOK
      <4>2. (\E i \in DOMAIN turns' : turns'[i] = d) <=> \E i \in DOMAIN turns : turns[i] = d
        BY <2>1, <3>2
      <4> QED
        BY <4>1, <4>2 DEF TurnsInv
    <3> QED
      BY <3>1, <3>2
  <2>4. ASSUME NEW i \in DOMAIN turns', NEW j \in DOMAIN turns',
               i < j, (Home(turns[i]) = Home(turns[j]))'
        PROVE  (turn[turns[i]] \in {"completed", "ended"})'
    <3>1. i \in 1..Len(turns)
      BY <2>1, <2>4
    <3>2. CASE j \in 1..Len(turns)
      BY <2>1, <2>2, <2>4, <3>1, <3>2 DEF TurnsInv, Home, Makes
    <3>3. CASE j = Len(turns) + 1
      <4>1. Home(turns[i]) = Home(c)
        BY <2>1, <2>4, <3>1, <3>3 DEF Home, Makes
      <4>2. turn[turns[i]] \notin {"queued", "running"}
        BY <1>1, <2>1, <3>1, <4>1 DEF Prepare, Busy
      <4> QED
        BY <2>1, <2>2, <3>1, <4>2 DEF TypeOK
    <3> QED
      BY <2>1, <3>2, <3>3
  <2> QED
    BY <2>3, <2>4 DEF TurnsInv
<1>2. ASSUME NEW c \in Calls, Begins(c) \/ Ends(c)
      PROVE  TurnsInv'
  <2>1. /\ UNCHANGED <<ask, turns>> /\ turn[c] \in {"queued", "running"} /\ turn'[c] # "none"
        /\ \A d \in Calls : d # c => turn'[d] = turn[d]
    BY <1>2 DEF Begins, Ends, TypeOK, calls
  <2>2. \A i \in DOMAIN turns : turns[i] \in Calls
    BY DEF TypeOK
  <2> QED
    BY <2>1, <2>2 DEF TurnsInv, Home, Makes
<1>3. CASE UNCHANGED <<ask, turn, turns>>
  BY <1>3 DEF TurnsInv, Home, Makes
<1> QED
  BY <1>1, <1>2, <1>3, TurnMoves

\* The first Turn of a Thread that completed stays the first.
LEMMA FirstStays ==
  ASSUME TypeOK, StagesOK, TurnsInv, Next, NEW c \in Calls, FirstCompleted(c)
  PROVE  FirstCompleted(c)' /\ Home(c)' = Home(c)
<1>1. ASSUME NEW e \in Calls, Prepare(e)
      PROVE  FirstCompleted(c)' /\ Home(c)' = Home(c)
  <2>1. /\ UNCHANGED ask /\ turn[e] = "none" /\ turn' = [turn EXCEPT ![e] = "queued"]
        /\ Len(turns) \in Nat /\ DOMAIN turns = 1..Len(turns)
        /\ DOMAIN turns' = 1..(Len(turns) + 1)
        /\ turns'[Len(turns) + 1] = e
        /\ \A i \in 1..Len(turns) :
             turns'[i] = turns[i] /\ turns[i] \in Calls /\ turn[turns[i]] # "none"
    BY <1>1, Prepared
  <2>2. c # e
    BY <2>1 DEF FirstCompleted
  <2>3. \A d \in Calls : Before(d, c)' => Before(d, c)
    BY <2>1, <2>2 DEF Before
  <2>4. \A d \in Calls : turn'[d] = "completed" => turn[d] = "completed"
    BY <2>1 DEF TypeOK
  <2>5. turn'[c] = "completed" /\ \A d \in Calls : Home(d)' = Home(d)
    BY <2>1, <2>2 DEF TypeOK, FirstCompleted, Home, Makes
  <2> QED
    BY <2>3, <2>4, <2>5 DEF FirstCompleted
<1>2. ASSUME NEW e \in Calls, Begins(e) \/ Ends(e)
      PROVE  FirstCompleted(c)' /\ Home(c)' = Home(c)
  <2>1. /\ UNCHANGED <<ask, turns>> /\ turn[e] \in {"queued", "running"}
        /\ \A d \in Calls : d # e => turn'[d] = turn[d]
    BY <1>2 DEF Begins, Ends, TypeOK, calls
  <2>2. turn'[c] = "completed" /\ \A d \in Calls : Home(d)' = Home(d)
    BY <2>1 DEF FirstCompleted, Home, Makes
  <2>3. ASSUME NEW d \in Calls, Home(d) = Home(c), Before(d, c)
        PROVE  turn'[d] # "completed"
    <3>1. turn[d] \in {"completed", "ended"}
      BY <2>3 DEF Before, TurnsInv
    <3> QED
      BY <2>1, <2>3, <3>1 DEF FirstCompleted
  <2>4. \A d \in Calls : Before(d, c)' <=> Before(d, c)
    BY <2>1 DEF Before
  <2> QED
    BY <2>2, <2>3, <2>4 DEF FirstCompleted
<1>3. CASE UNCHANGED <<ask, turn, turns>>
  BY <1>3 DEF FirstCompleted, Before, Home, Makes
<1> QED
  BY <1>1, <1>2, <1>3, TurnMoves

\* Five steps touch a title or its task.
LEMMA TitleMoves ==
  Next => \/ \E c \in Calls : Ends(c) \/ ReadTitle(c) \/ WriteTitle(c)
          \/ \E c \in Calls : NewThread(c) \/ UpdateThread(c)
          \/ UNCHANGED <<titling, title>>
<1> SUFFICES ASSUME Next
             PROVE  \/ \E c \in Calls : Ends(c) \/ ReadTitle(c) \/ WriteTitle(c)
                    \/ \E c \in Calls : NewThread(c) \/ UpdateThread(c)
                    \/ UNCHANGED <<titling, title>>
  OBVIOUS
<1> USE DEF store, manager
<1>1. CASE \E c \in Calls : CreateAndStart(c) \/ CreateThread(c) \/ PrepareFails(c) \/ Undo(c)
                            \/ Register(c) \/ Remember(c) \/ Respond(c) \/ Drop(c) \/ Prepare(c)
  BY <1>1 DEF CreateAndStart, CreateThread, PrepareFails, Undo, Register, Remember,
     Respond, Drop, Prepare
<1>2. CASE \E c \in Calls : StartTurn(c) \/ GetThread(c) \/ Snapshot(c) \/ Begins(c)
                            \/ Unregister(c) \/ Notify(c)
  BY <1>2 DEF StartTurn, GetThread, Snapshot, Begins, Unregister, Notify
<1>3. CASE \E s \in Sessions : Gap(s) \/ Deliver(s) \/ HangUp(s)
                               \/ \E h \in Calls : Unsubscribe(s, h)
  BY <1>3 DEF Gap, Deliver, HangUp, Unsubscribe
<1>4. CASE Shutdown \/ Arm \/ Look \/ Sleep \/ Wakes \/ TimesOut
  BY <1>4 DEF Shutdown, Arm, Look, Sleep, Wakes, TimesOut
<1>5. CASE \E c \in Calls : HydrateFails(c) \/ NewThread(c) \/ AddReference(c) \/ UpdateThread(c)
  BY <1>5 DEF HydrateFails, AddReference
<1> QED
  BY <1>1, <1>2, <1>3, <1>4, <1>5 DEF Next

\* Only thread/create makes a Thread with a title of its own.
LEMMA GivenStays ==
  ASSUME TypeOK, StagesOK, Next, NEW h \in Calls
  PROVE  /\ UNCHANGED ask
         /\ HasTitle(h)' => HasTitle(h) \/ NewThread(h)
         /\ ask[h].kind = "thread" /\ h \in threads => h \in threads'
<1> USE DEF calls, store, HasTitle
<1>1. CASE \E c \in Calls : CreateThread(c)
  BY <1>1 DEF CreateThread, StagesOK, StageOK
<1>2. CASE \E c \in Calls : Undo(c)
  BY <1>2 DEF Undo, Undone, StagesOK, StageOK
<1>3. CASE \E c \in Calls : NewThread(c)
  <2>1. PICK c \in Calls : NewThread(c)
    BY <1>3
  <2>2. UNCHANGED ask /\ (threads' = threads \/ threads' = threads \cup {c})
    BY <2>1 DEF NewThread
  <2> QED
    BY <2>1, <2>2
<1>4. CASE UNCHANGED <<ask, threads>>
  BY <1>4
<1>5. CASE \E c \in Calls : CreateAndStart(c) \/ Prepare(c) \/ PrepareFails(c) \/ Register(c)
                            \/ Remember(c) \/ HydrateFails(c) \/ Respond(c) \/ Drop(c)
  BY <1>4, <1>5 DEF CreateAndStart, Prepare, PrepareFails, Register, Remember,
     HydrateFails, Respond, Drop
<1>6. CASE \E c \in Calls : AddReference(c) \/ UpdateThread(c) \/ StartTurn(c) \/ GetThread(c)
                            \/ Snapshot(c)
  BY <1>4, <1>6 DEF AddReference, UpdateThread, StartTurn, GetThread, Snapshot
<1>7. CASE \E c \in Calls : Begins(c) \/ Ends(c) \/ Unregister(c) \/ Notify(c) \/ ReadTitle(c)
                            \/ WriteTitle(c)
  BY <1>4, <1>7 DEF Begins, Ends, Unregister, Notify, ReadTitle, WriteTitle
<1>8. CASE \E s \in Sessions : Gap(s) \/ Deliver(s) \/ HangUp(s)
                               \/ \E g \in Calls : Unsubscribe(s, g)
  BY <1>4, <1>8 DEF Gap, Deliver, HangUp, Unsubscribe
<1>9. CASE Shutdown \/ Arm \/ Look \/ Sleep \/ Wakes \/ TimesOut
  BY <1>4, <1>9 DEF Shutdown, Arm, Look, Sleep, Wakes, TimesOut
<1> QED
  BY <1>1, <1>2, <1>3, <1>5, <1>6, <1>7, <1>8, <1>9 DEF Next

\* A title that fits a Thread goes on fitting it.
LEMMA FitsStays ==
  ASSUME TypeOK, StagesOK, TurnsInv, Next, NEW h \in Calls, NEW a, Fits(h, a),
         HasTitle(h)' => HasTitle(h)
  PROVE  Fits(h, a)'
<1>1. a \in Calls => FirstCompleted(a)' /\ Home(a)' = h
  BY FirstStays DEF Fits
<1> QED
  BY <1>1 DEF Fits

\* The snapshot of a call is the one it had, or is taken of its Thread now.
LEMMA CopyMoves ==
  ASSUME TypeOK, Next, NEW d \in Calls, stage'[d] = "referring"
  PROVE  \/ stage[d] = "referring" /\ copy'[d] = copy[d]
         \/ Home(d) \in threads /\ copy'[d] = title[Home(d)] /\ UNCHANGED <<title, threads>>
<1> USE DEF calls, store, Moves, TypeOK
<1>1. CASE \E c \in Calls : AddReference(c)
  BY <1>1 DEF AddReference
<1>2. CASE UNCHANGED copy /\ \E c \in Calls, where \in Stages \ {"referring"} : Moves(c, where)
  BY <1>2
<1>3. CASE UNCHANGED <<stage, copy>>
  BY <1>3
<1>4. CASE \E c \in Calls : CreateAndStart(c) \/ CreateThread(c) \/ Prepare(c) \/ PrepareFails(c)
                            \/ Undo(c) \/ Register(c)
  BY <1>4 DEF CreateAndStart, CreateThread, Prepare, PrepareFails, Undo, Register
<1>5. CASE \E c \in Calls : Remember(c) \/ HydrateFails(c) \/ Respond(c) \/ Drop(c)
                            \/ NewThread(c) \/ UpdateThread(c)
  BY <1>5 DEF Remember, HydrateFails, Respond, Drop, NewThread, UpdateThread
<1>6. CASE \E c \in Calls : StartTurn(c) \/ GetThread(c) \/ Snapshot(c)
  BY <1>6 DEF StartTurn, GetThread, Snapshot
<1>7. CASE \E c \in Calls : Begins(c) \/ Ends(c) \/ Unregister(c) \/ Notify(c) \/ ReadTitle(c)
                            \/ WriteTitle(c)
  BY <1>3, <1>7 DEF Begins, Ends, Unregister, Notify, ReadTitle, WriteTitle
<1>8. CASE \E s \in Sessions : Gap(s) \/ Deliver(s) \/ HangUp(s)
                               \/ \E g \in Calls : Unsubscribe(s, g)
  BY <1>3, <1>8 DEF Gap, Deliver, HangUp, Unsubscribe
<1>9. CASE Shutdown \/ Arm \/ Look \/ Sleep \/ Wakes \/ TimesOut
  BY <1>3, <1>9 DEF Shutdown, Arm, Look, Sleep, Wakes, TimesOut
<1> QED
  BY <1>1, <1>4, <1>5, <1>6, <1>7, <1>8, <1>9 DEF Next

\* A title stays, or is the snapshot put back, the one given at the start or the
\* one made where there was none.
LEMMA TitleIs ==
  ASSUME TypeOK, Next, NEW h \in Calls
  PROVE  \/ title'[h] = title[h]
         \/ \E c \in Calls : titling[c] = "making" /\ h = Home(c) /\ title[h] = Default /\ title'[h] = c
         \/ \E c \in Calls : stage[c] = "referring" /\ h = Home(c) /\ title'[h] = copy[c]
         \/ NewThread(h) /\ title'[h] = ask[h].title
<1>0. title \in [Calls -> Calls \cup {Default, Given}] /\ \A c \in Calls : Home(c) \in Calls
  BY Asking DEF TypeOK
<1>1. ASSUME NEW c \in Calls, WriteTitle(c)
      PROVE  title'[h] = title[h]
             \/ (titling[c] = "making" /\ h = Home(c) /\ title[h] = Default /\ title'[h] = c)
  BY <1>0, <1>1 DEF WriteTitle
<1>2. ASSUME NEW c \in Calls, UpdateThread(c)
      PROVE  title'[h] = title[h] \/ (stage[c] = "referring" /\ h = Home(c) /\ title'[h] = copy[c])
  BY <1>0, <1>2 DEF UpdateThread
<1>3. ASSUME NEW c \in Calls, NewThread(c)
      PROVE  title'[h] = title[h] \/ (NewThread(h) /\ title'[h] = ask[h].title)
  BY <1>0, <1>3 DEF NewThread
<1>4. CASE \E c \in Calls : Ends(c) \/ ReadTitle(c)
  BY <1>4 DEF Ends, ReadTitle, store
<1> QED
  BY <1>1, <1>2, <1>3, <1>4, TitleMoves

LEMMA TitlesStep ==
  TypeOK /\ StagesOK /\ ThreadsOK /\ TurnsInv /\ TitlesInv /\ Next => TitlesInv'
<1> SUFFICES ASSUME TypeOK, StagesOK, ThreadsOK, TurnsInv, TitlesInv, Next
             PROVE  TitlesInv'
  OBVIOUS
<1>1. \A c \in Calls : FirstCompleted(c) => FirstCompleted(c)' /\ Home(c)' = Home(c)
  BY FirstStays
<1>2. \A c \in Calls : turn[c] = "completed" => turn'[c] = "completed"
  <2>1. ASSUME NEW e \in Calls, Prepare(e) \/ Begins(e) \/ Ends(e)
        PROVE  turn[e] # "completed" /\ \A c \in Calls : c # e => turn'[c] = turn[c]
    BY <2>1 DEF Prepare, Begins, Ends, StagesOK, StageOK, TypeOK
  <2> QED
    BY <2>1, TurnMoves
<1>3. \A c \in Calls : Home(c)' = Home(c) /\ Home(c) \in Calls
  BY TurnMoves, Asking DEF Prepare, Begins, Ends, calls, Home, Makes
<1>4. ASSUME NEW c \in Calls
      PROVE  \/ titling'[c] \in {titling[c], "none"}
             \/ titling'[c] = "reading" /\ turn'[c] = "completed"
             \/ titling'[c] = "making" /\ FirstCompleted(c)
  <2>1. CASE UNCHANGED <<titling, title>>
    BY <2>1
  <2>2. ASSUME NEW d \in Calls, Ends(d)
        PROVE  titling'[c] = titling[c] \/ (titling'[c] = "reading" /\ turn'[c] = "completed")
    BY <2>2 DEF Ends, TypeOK
  <2>3. ASSUME NEW d \in Calls, ReadTitle(d)
        PROVE  titling'[c] \in {titling[c], "none"} \/ (titling'[c] = "making" /\ FirstCompleted(c))
    BY <2>3 DEF ReadTitle, MayTitle, TypeOK
  <2>4. ASSUME NEW d \in Calls, WriteTitle(d) \/ NewThread(d) \/ UpdateThread(d)
        PROVE  titling'[c] \in {titling[c], "none"}
    BY <2>4 DEF WriteTitle, NewThread, UpdateThread, TypeOK, manager
  <2> QED
    BY <2>1, <2>2, <2>3, <2>4, TitleMoves
<1>5. ASSUME NEW c \in Calls
      PROVE  /\ titling'[c] # "none" => turn'[c] = "completed"
             /\ titling'[c] = "making" => FirstCompleted(c)'
  <2>1. titling[c] # "none" => turn[c] = "completed"
    BY DEF TitlesInv
  <2>2. titling[c] = "making" => FirstCompleted(c)
    BY DEF TitlesInv
  <2>3. FirstCompleted(c) => turn[c] = "completed"
    BY DEF FirstCompleted
  <2> QED
    BY <1>1, <1>2, <1>4, <2>1, <2>2, <2>3
<1>6. ASSUME NEW h \in Calls
      PROVE  Fits(h, title[h])'
  <2>1. PICK a : a = title[h]
    OBVIOUS
  <2>2. PICK b : b = title'[h]
    OBVIOUS
  <2>3. Fits(h, a)
    BY <2>1 DEF TitlesInv, TitleOfFirstTurn
  <2>4. SUFFICES Fits(h, b)'
    BY <2>2 DEF Fits
  <2>5. CASE NewThread(h)
    <3>1. /\ h \notin threads /\ ask[h].title \in {Default, Given} /\ UNCHANGED ask
          /\ ask[h].kind = "thread"
      BY <2>5, Asking DEF NewThread, Arrives, ThreadsOK
    <3>2. b = ask[h].title \/ (b = a /\ UNCHANGED threads)
      BY <2>1, <2>2, <2>5 DEF NewThread, TypeOK
    <3>3. CASE b = ask[h].title
      <4>1. b \notin Calls
        BY <3>1, <3>3, ScriptsAssumption
      <4>2. HasTitle(h)' => b = Given
        BY <3>1, <3>3 DEF HasTitle
      <4> QED
        BY <4>1, <4>2 DEF Fits
    <3>4. CASE b = a /\ UNCHANGED threads
      <4>1. ~HasTitle(h)'
        BY <3>1, <3>4 DEF HasTitle
      <4> QED
        BY <2>3, <3>4, <4>1, FitsStays
    <3> QED
      BY <3>2, <3>3, <3>4
  <2>6. CASE ~NewThread(h)
    <3>1. HasTitle(h)' => HasTitle(h)
      BY <2>6, GivenStays
    <3>2. CASE b = a
      BY <2>3, <3>1, <3>2, FitsStays
    <3>3. ASSUME NEW c \in Calls, titling[c] = "making", h = Home(c), a = Default, b = c
          PROVE  Fits(h, b)'
      <4>1. ~HasTitle(h)
        BY <2>3, <3>3, ScriptsAssumption DEF Fits
      <4>2. FirstCompleted(c)' /\ Home(c)' = h
        BY <1>1, <3>3 DEF TitlesInv
      <4> QED
        BY <3>1, <3>3, <4>1, <4>2 DEF Fits
    <3>4. ASSUME NEW c \in Calls, stage[c] = "referring", h = Home(c), b = copy[c]
          PROVE  Fits(h, b)'
      <4>1. Fits(h, b)
        BY <3>4 DEF TitlesInv, SnapshotFits
      <4> QED
        BY <3>1, <4>1, FitsStays
    <3> QED
      BY <2>1, <2>2, <2>6, <3>2, <3>3, <3>4, TitleIs
  <2> QED
    BY <2>5, <2>6
<1>7. ASSUME NEW c \in Calls, stage'[c] = "referring"
      PROVE  SnapshotFits(c)'
  <2>1. PICK h \in Calls : h = Home(c) /\ h = Home(c)'
    BY <1>3
  <2>2. PICK b : b = copy'[c]
    OBVIOUS
  <2>3. PICK a : a = title[h]
    OBVIOUS
  <2>4. Fits(h, a)
    BY <2>3 DEF TitlesInv, TitleOfFirstTurn
  <2>5. Fits(h, b) /\ (ask[h].kind = "thread" => h \in threads)
    <3>1. CASE stage[c] = "referring" /\ copy'[c] = copy[c]
      BY <2>1, <2>2, <3>1 DEF TitlesInv, SnapshotFits
    <3>2. CASE h \in threads /\ copy'[c] = title[h]
      BY <2>2, <2>3, <2>4, <3>2
    <3> QED
      BY <1>7, <2>1, <3>1, <3>2, CopyMoves
  <2>6. /\ UNCHANGED ask
        /\ HasTitle(h)' => HasTitle(h) \/ NewThread(h)
        /\ ask[h].kind = "thread" /\ h \in threads => h \in threads'
    BY GivenStays
  <2>7. ~(NewThread(h) /\ ask[h].kind = "thread" /\ h \in threads)
    BY DEF NewThread, Arrives, ThreadsOK
  <2>8. HasTitle(h)' => HasTitle(h)
    <3>1. HasTitle(h)' /\ ~HasTitle(h) => NewThread(h) /\ h \notin threads
      BY <2>5, <2>6 DEF NewThread, Arrives, HasTitle
    <3> QED
      BY <2>5, <2>6, <2>7, <3>1 DEF HasTitle
  <2>9. Fits(h, b)'
    BY <2>5, <2>8, FitsStays
  <2> QED
    <3>1. ask'[h].kind = "thread" => h \in threads'
      BY <2>5, <2>6
    <3>2. Fits(h, b)' = Fits(Home(c), copy[c])'
      BY <2>1, <2>2
    <3> QED
      BY <2>1, <2>9, <3>1, <3>2 DEF SnapshotFits
<1>8. TitleOfFirstTurn'
  BY <1>6 DEF TitleOfFirstTurn
<1> QED
  BY <1>5, <1>7, <1>8 DEF TitlesInv

-----------------------------------------------------------------------------
(***************************************************************************)
(* Events                                                                  *)
(***************************************************************************)
LEMMA EventsAreTyped == TypeOK => \A e \in published : e.turn \in Calls
  BY DEF TypeOK, Events

\* An event is of a Turn that was claimed.
LEMMA ClaimedStep ==
  TypeOK /\ StagesOK /\ EventsInv /\ Next
    => \A e \in published' : turn'[e.turn] \notin {"none", "queued"}
<1> SUFFICES ASSUME TypeOK, StagesOK, EventsInv, Next, NEW e \in published'
             PROVE  turn'[e.turn] \notin {"none", "queued"}
  OBVIOUS
<1>1. ASSUME NEW c \in Calls, Begins(c) \/ Ends(c)
      PROVE  turn'[e.turn] \notin {"none", "queued"}
  <2>1. /\ turn'[c] \notin {"none", "queued"} /\ \A d \in Calls : d # c => turn'[d] = turn[d]
        /\ e \in published \/ e.turn = c
    BY <1>1 DEF Begins, Ends, Publish, TypeOK
  <2> QED
    BY <2>1, EventsAreTyped DEF EventsInv
<1>2. CASE published' = published
  <2>1. e.turn \in Calls /\ turn[e.turn] \notin {"none", "queued"}
    BY <1>2, EventsAreTyped DEF EventsInv
  <2>2. ASSUME NEW c \in Calls, Prepare(c)
        PROVE  turn'[e.turn] = turn[e.turn]
    BY <2>1, <2>2 DEF Prepare, StagesOK, StageOK, TypeOK
  <2> QED
    BY <1>1, <2>1, <2>2, TurnMoves
<1>3. published' = published \/ \E c \in Calls : Begins(c) \/ Ends(c)
  <2> USE DEF session
  <2>1. CASE \E c \in Calls : CreateAndStart(c) \/ CreateThread(c) \/ PrepareFails(c) \/ Undo(c)
                              \/ Register(c) \/ Remember(c) \/ Drop(c) \/ Prepare(c)
    BY <2>1 DEF CreateAndStart, CreateThread, PrepareFails, Undo, Register, Remember,
       Drop, Prepare
  <2>2. CASE \E c \in Calls : StartTurn(c) \/ GetThread(c) \/ Snapshot(c) \/ Respond(c)
                              \/ Unregister(c) \/ Notify(c) \/ ReadTitle(c) \/ WriteTitle(c)
    BY <2>2 DEF StartTurn, GetThread, Snapshot, Respond, Leave, Unregister, Notify,
       ReadTitle, WriteTitle
  <2>3. CASE \E s \in Sessions : Gap(s) \/ Deliver(s) \/ HangUp(s)
                                 \/ \E h \in Calls : Unsubscribe(s, h)
    BY <2>3 DEF Gap, Deliver, HangUp, Leave, Unsubscribe
  <2>4. CASE Shutdown \/ Arm \/ Look \/ Sleep \/ Wakes \/ TimesOut
    BY <2>4 DEF Shutdown, Arm, Look, Sleep, Wakes, TimesOut
  <2>5. CASE \E c \in Calls : HydrateFails(c) \/ NewThread(c) \/ AddReference(c) \/ UpdateThread(c)
    BY <2>5 DEF HydrateFails, NewThread, AddReference, UpdateThread
  <2> QED
    BY <2>1, <2>2, <2>3, <2>4, <2>5 DEF Next
<1> QED
  BY <1>1, <1>2, <1>3

\* A step that leaves the sessions and the calls that read alone.
LEMMA SessionsSame ==
  ASSUME FollowersHear, UNCHANGED <<ask, session>>,
         \A c \in Calls : stage[c] = "reading" => stage'[c] = "reading"
  PROVE  FollowersHear'
  BY DEF FollowersHear, HeardOf, Reads, Home, Makes, session

\* A session that starts to follow a Thread has its past, or is reading it.
LEMMA Following ==
  ASSUME TypeOK, FollowersHear, NEW c \in Calls, NEW h \in Calls, Subscribe(c, h),
         UNCHANGED <<ask, open, queue, lagged, told, published>>,
         \A s \in Sessions : seen[s] \subseteq seen'[s],
         \A d \in Calls : stage[d] = "reading" => stage'[d] = "reading",
         ask[c].via \in Sessions =>
           Past(h) \subseteq seen'[ask[c].via] \/ Reads(ask[c].via, h)'
  PROVE  FollowersHear'
<1> SUFFICES ASSUME NEW s \in open, NEW e \in published, Home(e.turn) \in subs'[s]
             PROVE  HeardOf(s, e)'
  BY DEF FollowersHear, Home, Makes
<1>1. s \in Sessions /\ Home(e.turn)' = Home(e.turn)
  BY DEF TypeOK, Home, Makes
<1>2. CASE Home(e.turn) \in subs[s]
  BY <1>1, <1>2 DEF FollowersHear, HeardOf, Reads
<1>3. CASE Home(e.turn) \notin subs[s]
  <2>1. s = ask[c].via /\ Home(e.turn) = h
    BY <1>1, <1>3 DEF Subscribe
  <2> QED
    BY <1>1, <2>1 DEF Past, HeardOf
<1> QED
  BY <1>2, <1>3

\* A session that ends follows nothing.
LEMMA Leaving ==
  ASSUME TypeOK, FollowersHear, NEW s \in Sessions, Leave(s), UNCHANGED ask,
         \A c \in Calls : stage[c] = "reading" => stage'[c] = "reading"
  PROVE  FollowersHear'
<1> SUFFICES ASSUME NEW r \in open', NEW e \in published, Home(e.turn) \in subs'[r]
             PROVE  HeardOf(r, e)'
  BY DEF FollowersHear, Home, Makes, Leave
<1>1. /\ r \in open /\ r # s /\ r \in Sessions /\ Home(e.turn)' = Home(e.turn)
      /\ subs'[r] = subs[r] /\ seen'[r] = seen[r] /\ queue'[r] = queue[r]
      /\ lagged'[r] = lagged[r] /\ told'[r] = told[r]
  BY DEF Leave, TypeOK, Home, Makes
<1> QED
  BY <1>1 DEF FollowersHear, HeardOf, Reads

\* A new event is in every receiver, and what it pushed out is reported.
LEMMA Publishing ==
  ASSUME TypeOK, FollowersHear, NEW x \in Events, Publish(x),
         UNCHANGED <<ask, stage, open, subs, told, seen>>
  PROVE  FollowersHear'
<1> SUFFICES ASSUME NEW s \in open, NEW e \in published', Home(e.turn) \in subs[s]
             PROVE  HeardOf(s, e)'
  BY DEF FollowersHear, Home, Makes
<1>1. s \in Sessions /\ queue[s] \in Seq(published) /\ Home(e.turn)' = Home(e.turn)
  BY DEF TypeOK, Home, Makes
<1>2. CASE Len(queue[s]) >= Buffer
  <2>1. queue[s] # <<>> /\ Tail(queue[s]) \in Seq(published)
    BY <1>1, <1>2, BoundsAssumption
  <2>2. /\ queue'[s] = Append(Tail(queue[s]), x)
        /\ lagged'[s] = lagged[s] \cup {Head(queue[s])}
    BY <1>1, <1>2 DEF Publish
  <2>3. /\ Range(queue[s]) = {Head(queue[s])} \cup Range(Tail(queue[s]))
        /\ Range(queue'[s]) = Range(Tail(queue[s])) \cup {x}
    BY ZenonT(60), <1>1, <2>1, <2>2, RangeOfAppend, RangeOfTail
  <2>4. e = x \/ e \in published
    BY DEF Publish
  <2> QED
    BY <1>1, <2>2, <2>3, <2>4 DEF FollowersHear, HeardOf, Reads
<1>3. CASE ~(Len(queue[s]) >= Buffer)
  <2>1. queue'[s] = Append(queue[s], x)
    BY <1>1, <1>3 DEF Publish
  <2>2. Range(queue'[s]) = Range(queue[s]) \cup {x}
    BY <1>1, <2>1, RangeOfAppend
  <2>3. e = x \/ e \in published
    BY DEF Publish
  <2>4. lagged'[s] = lagged[s]
    BY <1>1, <1>3 DEF Publish
  <2> QED
    BY <1>1, <2>2, <2>3, <2>4 DEF FollowersHear, HeardOf, Reads
<1> QED
  BY <1>2, <1>3

\* A call that reads its snapshot, and a session that is not serving.
LEMMA FollowersStep == TypeOK /\ StagesOK /\ EventsInv /\ Next => FollowersHear'
<1> SUFFICES ASSUME TypeOK, StagesOK, EventsInv, Next
             PROVE  FollowersHear'
  OBVIOUS
<1>a. FollowersHear
  BY DEF EventsInv
<1>1. ASSUME NEW c \in Calls, CreateAndStart(c)
      PROVE  FollowersHear'
  <2>1. /\ UNCHANGED <<ask, open, queue, lagged, told, published>>
        /\ \A d \in Calls : stage[d] = "reading" => stage'[d] = "reading"
    BY <1>1 DEF CreateAndStart, Arrives, Moves, TypeOK
  <2>2. CASE UNCHANGED <<subs, seen>>
    BY <1>a, <2>1, <2>2, SessionsSame DEF session
  <2>3. ASSUME NEW record \in Known(ask[c].id), Subscribe(c, record.thread),
               seen' = [s \in Sessions |-> IF s = ask[c].via
                        THEN seen[s] \cup Past(record.thread) ELSE seen[s]]
        PROVE  FollowersHear'
    <3>1. record.thread \in Calls
      BY CacheTyped DEF Known
    <3>2. /\ \A s \in Sessions : seen[s] \subseteq seen'[s]
          /\ ask[c].via \in Sessions => Past(record.thread) \subseteq seen'[ask[c].via]
      BY <2>3
    <3> QED
      BY <1>a, <2>1, <2>3, <3>1, <3>2, Following
  <2> QED
    BY <1>1, <2>2, <2>3 DEF CreateAndStart
<1>2. ASSUME NEW c \in Calls, CreateThread(c) \/ Prepare(c) \/ PrepareFails(c) \/ Undo(c)
      PROVE  FollowersHear'
  <2>1. /\ UNCHANGED <<ask, session>>
        /\ \A d \in Calls : stage[d] = "reading" => stage'[d] = "reading"
    BY <1>2 DEF CreateThread, Prepare, PrepareFails, Undo, Moves, TypeOK
  <2> QED
    BY <1>a, <2>1, SessionsSame
<1>3. ASSUME NEW c \in Calls, Register(c) \/ Drop(c)
      PROVE  FollowersHear'
  <2>1. /\ UNCHANGED <<ask, session>>
        /\ \A d \in Calls : stage[d] = "reading" => stage'[d] = "reading"
    BY <1>3 DEF Register, Drop, Moves, TypeOK
  <2> QED
    BY <1>a, <2>1, SessionsSame
<1>4. ASSUME NEW c \in Calls, Remember(c)
      PROVE  FollowersHear'
  <2>1. /\ Subscribe(c, c) /\ UNCHANGED <<ask, open, queue, lagged, told, published>>
        /\ seen' = [s \in Sessions |->
             IF s = ask[c].via THEN seen[s] \cup {e \in Past(c) : e.turn # c} ELSE seen[s]]
        /\ \A d \in Calls : stage[d] = "reading" => stage'[d] = "reading"
    BY <1>4 DEF Remember, Moves, TypeOK, store
  <2>2. turn[c] = "queued"
    BY <1>4 DEF Remember, StagesOK, StageOK
  <2>3. \A e \in Past(c) : e.turn # c
    BY <2>2 DEF Past, EventsInv
  <2>4. /\ \A s \in Sessions : seen[s] \subseteq seen'[s]
        /\ ask[c].via \in Sessions => Past(c) \subseteq seen'[ask[c].via]
    BY <2>1, <2>3
  <2> QED
    BY <1>a, <2>1, <2>4, Following
<1>5. ASSUME NEW c \in Calls, Respond(c)
      PROVE  FollowersHear'
  <2>1. /\ UNCHANGED ask /\ ask[c].via \in Sessions
        /\ \A d \in Calls : stage[d] = "reading" => stage'[d] = "reading"
    BY <1>5 DEF Respond, Moves, TypeOK, StagesOK, StageOK
  <2>2. UNCHANGED session \/ Leave(ask[c].via)
    BY <1>5 DEF Respond
  <2> QED
    BY <1>a, <2>1, <2>2, SessionsSame, Leaving
<1>6. ASSUME NEW c \in Calls, StartTurn(c)
      PROVE  FollowersHear'
  <2>1. /\ Subscribe(c, ask[c].thread) /\ UNCHANGED <<ask, open, queue, lagged, told, published>>
        /\ seen' = [s \in Sessions |->
             IF s = ask[c].via THEN seen[s] \cup Past(ask[c].thread) ELSE seen[s]]
        /\ \A d \in Calls : stage[d] = "reading" => stage'[d] = "reading"
    BY <1>6 DEF StartTurn, Arrives, Moves, TypeOK
  <2>2. /\ \A s \in Sessions : seen[s] \subseteq seen'[s]
        /\ ask[c].via \in Sessions => Past(ask[c].thread) \subseteq seen'[ask[c].via]
    BY <2>1
  <2>3. ask[c].thread \in Calls
    BY <1>6, Asking DEF StartTurn, Arrives
  <2> QED
    BY <1>a, <2>1, <2>2, <2>3, Following
<1>7. ASSUME NEW c \in Calls, GetThread(c)
      PROVE  FollowersHear'
  <2>1. /\ Subscribe(c, ask[c].thread) /\ UNCHANGED <<ask, open, queue, lagged, told, seen, published>>
        /\ stage'[c] = "reading"
        /\ \A d \in Calls : stage[d] = "reading" => stage'[d] = "reading"
    BY <1>7 DEF GetThread, Arrives, Moves, TypeOK
  <2>2. Reads(ask[c].via, ask[c].thread)'
    BY <2>1 DEF Reads
  <2>3. ask[c].thread \in Calls
    BY <1>7, Asking DEF GetThread, Arrives
  <2> QED
    BY <1>a, <2>1, <2>2, <2>3, Following
<1>8. ASSUME NEW c \in Calls, Snapshot(c)
      PROVE  FollowersHear'
  <2>1. /\ UNCHANGED <<ask, open, subs, queue, lagged, told, published>>
        /\ \A s \in Sessions : seen[s] \subseteq seen'[s]
        /\ \A d \in Calls : d # c => stage'[d] = stage[d]
    BY <1>8 DEF Snapshot, Moves, TypeOK
  <2>2. ask[c].via \in Sessions /\ Past(ask[c].thread) \subseteq seen'[ask[c].via]
    BY <1>8, Asking DEF Snapshot, TypeOK, StagesOK, StageOK
  <2> SUFFICES ASSUME NEW s \in open, NEW e \in published, Home(e.turn) \in subs[s]
               PROVE  HeardOf(s, e)'
    BY <2>1 DEF FollowersHear, Home, Makes
  <2>3. s \in Sessions /\ Home(e.turn)' = Home(e.turn)
    BY <2>1 DEF TypeOK, Home, Makes
  <2>4. CASE ask[c].via = s /\ ask[c].thread = Home(e.turn)
    BY <2>2, <2>4 DEF Past, HeardOf
  <2>5. CASE ~(ask[c].via = s /\ ask[c].thread = Home(e.turn))
    BY <1>a, <2>1, <2>3, <2>5 DEF FollowersHear, HeardOf, Reads
  <2> QED
    BY <2>4, <2>5
<1>9. ASSUME NEW c \in Calls, Begins(c) \/ Ends(c)
      PROVE  FollowersHear'
  <2>1. UNCHANGED <<ask, stage, open, subs, told, seen>>
    BY <1>9 DEF Begins, Ends, calls
  <2>2. \E x \in Events : Publish(x)
    BY <1>9 DEF Begins, Ends, Events
  <2> QED
    BY <1>a, <2>1, <2>2, Publishing
<1>10. ASSUME NEW c \in Calls, Unregister(c) \/ Notify(c) \/ ReadTitle(c) \/ WriteTitle(c)
       PROVE  FollowersHear'
  BY <1>a, <1>10, SessionsSame DEF Unregister, Notify, ReadTitle, WriteTitle, calls
<1>11. ASSUME NEW s \in Sessions, Gap(s)
       PROVE  FollowersHear'
  <2>1. /\ UNCHANGED <<ask, stage, open, subs, queue, seen, published>>
        /\ \A r \in Sessions \ {s} : lagged'[r] = lagged[r] /\ told'[r] = told[r]
        /\ told[s] \subseteq told'[s]
        /\ \A e \in lagged[s] : Home(e.turn) \in subs[s] => e \in told'[s]
    BY <1>11 DEF Gap, Report, calls, TypeOK
  <2> SUFFICES ASSUME NEW r \in open, NEW e \in published, Home(e.turn) \in subs[r]
               PROVE  HeardOf(r, e)'
    BY <2>1 DEF FollowersHear, Home, Makes
  <2>2. r \in Sessions /\ Home(e.turn)' = Home(e.turn) /\ HeardOf(r, e)
    BY <1>a, <2>1 DEF TypeOK, Home, Makes, FollowersHear
  <2> QED
    BY <2>1, <2>2 DEF HeardOf, Reads
<1>16. ASSUME NEW c \in Calls,
              HydrateFails(c) \/ NewThread(c) \/ AddReference(c) \/ UpdateThread(c)
       PROVE  FollowersHear'
  <2>1. /\ UNCHANGED <<ask, session>>
        /\ \A d \in Calls : stage[d] = "reading" => stage'[d] = "reading"
    BY <1>16 DEF HydrateFails, NewThread, AddReference, UpdateThread, Arrives, Moves,
       TypeOK
  <2> QED
    BY <1>a, <2>1, SessionsSame
<1>12. ASSUME NEW s \in Sessions, Deliver(s)
       PROVE  FollowersHear'
  <2>1. /\ UNCHANGED <<ask, stage, open, subs, lagged, told, published>>
        /\ queue[s] # <<>> /\ queue' = [queue EXCEPT ![s] = Tail(@)]
        /\ \A r \in Sessions : seen[r] \subseteq seen'[r]
        /\ Home(Head(queue[s]).turn) \in subs[s] => Head(queue[s]) \in seen'[s]
    BY <1>12 DEF Deliver, calls, TypeOK
  <2>2. Range(queue[s]) = {Head(queue[s])} \cup Range(Tail(queue[s]))
    BY <2>1, RangeOfTail DEF TypeOK
  <2> SUFFICES ASSUME NEW r \in open, NEW e \in published, Home(e.turn) \in subs[r]
               PROVE  HeardOf(r, e)'
    BY <2>1 DEF FollowersHear, Home, Makes
  <2>3. r \in Sessions /\ Home(e.turn)' = Home(e.turn) /\ HeardOf(r, e)
    BY <1>a, <2>1 DEF TypeOK, Home, Makes, FollowersHear
  <2>4. CASE e \in Range(queue[r]) /\ r = s
    <3>1. queue'[s] = Tail(queue[s])
      BY <2>1 DEF TypeOK
    <3>2. e = Head(queue[s]) \/ e \in Range(queue'[s])
      BY <2>2, <2>4, <3>1
    <3> QED
      BY <2>1, <2>4, <3>2 DEF HeardOf
  <2>5. CASE e \in Range(queue[r]) /\ r # s
    <3>1. queue'[r] = queue[r]
      BY <2>1, <2>3, <2>5 DEF TypeOK
    <3> QED
      BY <2>5, <3>1 DEF HeardOf
  <2>6. CASE e \notin Range(queue[r])
    BY <2>1, <2>3, <2>6 DEF HeardOf, Reads
  <2> QED
    BY <2>4, <2>5, <2>6
<1>13. ASSUME NEW s \in Sessions, HangUp(s)
       PROVE  FollowersHear'
  BY <1>a, <1>13, Leaving DEF HangUp, calls
<1>14. ASSUME NEW s \in Sessions, NEW h \in Calls, Unsubscribe(s, h)
       PROVE  FollowersHear'
  <2>1. /\ UNCHANGED <<ask, stage, open, queue, lagged, told, seen, published>>
        /\ \A r \in open : subs'[r] \subseteq subs[r]
    BY <1>14 DEF Unsubscribe, calls, TypeOK
  <2> QED
    BY <1>a, <2>1 DEF FollowersHear, HeardOf, Reads, Home, Makes
<1>15. CASE Shutdown \/ Arm \/ Look \/ Sleep \/ Wakes \/ TimesOut
  BY <1>a, <1>15, SessionsSame DEF Shutdown, Arm, Look, Sleep, Wakes, TimesOut, calls
<1> QED
  BY <1>1, <1>2, <1>3, <1>4, <1>5, <1>6, <1>7, <1>8, <1>9, <1>10, <1>11, <1>12, <1>13,
     <1>14, <1>15, <1>16
  DEF Next

-----------------------------------------------------------------------------
(***************************************************************************)
(* The invariant and what it means                                         *)
(***************************************************************************)
LEMMA InitInv == Init => Inv
<1> SUFFICES ASSUME Init
             PROVE  Inv
  OBVIOUS
<1> USE DEF Init
<1>1. TypeOK
  <2>1. /\ cache \in Seq([id : Ids, body : Bodies, thread : Calls]) /\ Len(cache) <= Capacity
        /\ turns \in Seq(Calls) /\ IsInjective(turns)
    BY BoundsAssumption DEF IsInjective
  <2>2. queue \in [Sessions -> Seq(published)] /\ \A s \in Sessions : Len(queue[s]) <= Buffer
    BY BoundsAssumption
  <2>3. /\ ask \in Scripts /\ stage \in [Calls -> Stages] /\ lock \subseteq Calls
        /\ lost \subseteq Ids
    BY DEF Stages
  <2>4. /\ threads \subseteq Calls
        /\ turn \in [Calls -> {"none", "queued", "running", "completed", "ended"}]
        /\ title \in [Calls -> Calls \cup {Default, Given}]
        /\ copy \in [Calls -> Calls \cup {Default, Given}]
        /\ titling \in [Calls -> {"none", "reading", "making"}]
        /\ active \subseteq Calls
        /\ task \in [Calls -> {"none", "running", "notifying", "gone"}]
    OBVIOUS
  <2>5. /\ open \subseteq Sessions /\ subs \in [Sessions -> SUBSET Calls]
        /\ published \subseteq Events
        /\ lagged \in [Sessions -> SUBSET published] /\ told \in [Sessions -> SUBSET published]
        /\ seen \in [Sessions -> SUBSET published]
    OBVIOUS
  <2>6. /\ barrier \in {"no", "looping", "armed", "going", "waiting", "clear", "late"}
        /\ held \subseteq Calls /\ faults \in 0..MaxFaults
    BY BoundsAssumption
  <2>7. woken \in BOOLEAN
    OBVIOUS
  <2> HIDE DEF Init
  <2> QED
    BY <2>1, <2>2, <2>3, <2>4, <2>5, <2>6, <2>7 DEF TypeOK
<1>2. StagesOK
  BY DEF StagesOK, StageOK
<1>3. CreateInv
  BY DEF CreateInv, LockOK, Locking, WindowOK, ThreadsOK, Created
<1>4. BarrierInv
  BY DEF BarrierInv, ClearMeansEnded
<1>5. EventsInv
  BY DEF EventsInv, FollowersHear
<1>6. TurnsInv
  BY DEF TurnsInv
<1>7. TitlesInv
  BY ScriptsAssumption DEF TitlesInv, TitleOfFirstTurn, Fits, HasTitle
<1> QED
  BY <1>1, <1>2, <1>3, <1>4, <1>5, <1>6, <1>7 DEF Inv

LEMMA InvStep == Inv /\ [Next]_vars => Inv'
<1>1. CASE Next
  BY <1>1, TypesStep, StagesStep, LockStep, WindowStep, ThreadsStep, BarrierStep,
     ClaimedStep, FollowersStep, TurnsStep, TitlesStep DEF Inv, CreateInv, EventsInv
<1>2. ASSUME Inv, UNCHANGED vars
      PROVE  Inv'
  <2>1. /\ UNCHANGED <<ask, stage, lock, cache, lost, threads, turn, turns, title, copy, active>>
        /\ UNCHANGED <<titling, open, subs, queue, lagged, told, seen, published, barrier, woken>>
        /\ UNCHANGED <<task, held, faults>>
    BY <1>2 DEF vars, calls, store, manager, session, closing
  <2>2. TypeOK'
    BY <1>2, <2>1 DEF Inv, TypeOK
  <2>3. StagesOK' /\ CreateInv'
    BY <1>2, <2>1 DEF Inv, StagesOK, StageOK, CreateInv, LockOK, WindowOK, ThreadsOK,
       Created, Record
  <2>4. BarrierInv' /\ TurnsInv'
    BY <1>2, <2>1 DEF Inv, BarrierInv, ClearMeansEnded, TurnsInv, Home, Makes
  <2>5. EventsInv'
    BY SMTT(60), <1>2, <2>1 DEF Inv, EventsInv, FollowersHear, HeardOf, Reads, Home, Makes
  <2>6. TitlesInv'
    BY <1>2, <2>1 DEF Inv, TitlesInv, SnapshotFits, TitleOfFirstTurn, Fits, HasTitle,
       FirstCompleted, Before, Home, Makes
  <2> QED
    BY <2>2, <2>3, <2>4, <2>5, <2>6 DEF Inv
<1> QED
  BY <1>1, <1>2

LEMMA InvHolds == Spec => []Inv
  BY InitInv, InvStep, PTL DEF Spec

\* A create-and-start that is retried, over any transport and at any time, makes
\* one Thread, and one that fails leaves none, unless its request id is lost
\* (create_and_prepare_thread under the mutex of create_requests).
THEOREM CreateAndStartIsIdempotent == Spec => []CreatesOnceOrNot
<1>1. Inv => CreatesOnceOrNot
  BY CreateOutcome DEF Inv, CreatesOnceOrNot
<1> QED
  BY <1>1, InvHolds, PTL

\* A Turn that is queued has a task or a call that will launch it
\* (PreparedTurn, launched behind the response whether it was sent or not).
THEOREM PreparedTurnsAreLaunched == Spec => []PreparedTurnRuns
<1>1. Inv => PreparedTurnRuns
  BY DEF Inv, StagesOK, StageOK, PreparedTurnRuns
<1> QED
  BY <1>1, InvHolds, PTL

\* A client that follows a Thread has every event of it, or is told of the gap
\* (subscribe before the snapshot is read, broadcast channel, server/event_gap).
THEOREM FollowersMissNothing == Spec => []NothingMissed
<1>1. ASSUME Inv, NEW s \in open, ~Serving(s), NEW e \in published, Home(e.turn) \in subs[s]
      PROVE  e \in seen[s] \cup Range(queue[s]) \cup lagged[s] \cup told[s]
  <2>1. HeardOf(s, e)
    BY <1>1 DEF Inv, EventsInv, FollowersHear
  <2>2. ~Reads(s, Home(e.turn))
    BY <1>1 DEF Reads, Serving, Over
  <2> QED
    BY <2>1, <2>2 DEF HeardOf
<1>2. Inv => NothingMissed
  BY <1>1 DEF NothingMissed
<1> QED
  BY <1>2, InvHolds, PTL

\* The barrier of shutdown loses no notification, and all clear means that every
\* Turn it cancelled has ended (cancel_all_and_wait).
THEOREM BarrierIsSound == Spec => []BarrierHolds
<1>1. Inv => BarrierHolds
  BY DEF Inv, BarrierInv, BarrierHolds, BarrierIsWoken, ClearMeansEnded
<1> QED
  BY <1>1, InvHolds, PTL

\* A title is made from the first Turn of its Thread that completed, and a title
\* that was given stays (generate_first_completed_turn_title,
\* update_thread_title_if_default; update_thread with an old snapshot).
THEOREM TitlesAreOfFirstTurns == Spec => []TitleOfFirstTurn
<1>1. Inv => TitleOfFirstTurn
  BY DEF Inv, TitlesInv
<1> QED
  BY <1>1, InvHolds, PTL
================================================================================
