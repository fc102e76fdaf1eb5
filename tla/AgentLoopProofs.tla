---------------------------- MODULE AgentLoopProofs ----------------------------
(***************************************************************************)
(* Theorems about AgentLoop: whatever the model answers and whenever a     *)
(* Turn is cancelled or fails, no tool works that the Turn does not        *)
(* permit, each call of a stored answer is answered once and in order, and *)
(* what a cancelled Turn started is on record.                             *)
(***************************************************************************)
EXTENDS AgentLoop, FiniteSetTheorems, WellFoundedInduction, TLAPS

-----------------------------------------------------------------------------
(***************************************************************************)
(* The invariant in parts                                                  *)
(***************************************************************************)
\* The calls the model makes, those an external backend reports, their ids.
ModelCalls    == UNION {ToSet(a.calls) : a \in Answers}
CallSet == ModelCalls \cup {[NoCall EXCEPT !.id = c.id] : c \in ModelCalls}
Ids     == {c.id : c \in CallSet}

Messages ==
  [turn : Nat, role : {"user", "assistant", "tool"}, text : BOOLEAN, calls : Seq(Ids),
   answers : Ids \cup {NoId}, access : {"none", "read_only", "read_write"}, image : BOOLEAN]

DataOK ==
  /\ history \in Seq(Messages)
  /\ \A k \in DOMAIN history : history[k].turn <= turn
  /\ todo \in Seq(CallSet)
  /\ sent \in [from : {sent.from}, to : 0..Len(history)]
  /\ DOMAIN ended = TurnIds

\* A finish reason "tool_calls" comes with the calls of an answer.
StreamOK ==
  /\ stream \in [state : {"closed", "open", "failed", "answered"}, adapter : {stream.adapter},
                 answer : Answers \cup {Nothing}, frames : {stream.frames}, at : {stream.at},
                 text : {stream.text}, functions : {stream.functions},
                 completed : {stream.completed}, content : {stream.content},
                 finish : {stream.finish}]
  /\ stream.text \in BOOLEAN /\ stream.content.text \in BOOLEAN
  /\ stream.finish = "tool_calls" => stream.content.calls \in Seq(ModelCalls)
  /\ stream.state = "open" /\ stream.finish = "tool_calls" => stream.content.calls # <<>>
  /\ pc = "persist" => stream.state = "answered" /\ Valid

\* A Turn at work has its number; calls are gathered one id at a time, from
\* none; a request has no call at work yet; only a backend is interrupted.
PlacesOK ==
  /\ pc # "idle" => turn \in TurnIds
  /\ pc = "idle" => todo = <<>>
  /\ pc = "backend" => IsInjective(IdsOf(todo))
  /\ pc \in {"idle", "model", "persist", "backend", "activity", "report"} => ran = {}
  /\ verdict = "interrupted" => pc \in {"activity", "report"}

\* A call on its way to its tool was permitted, and nothing behind the request
\* refers to the Project.
PermittedOK ==
  /\ pc \in {"approval", "execute", "entered", "running"} =>
       Call.tool \in DOMAIN Tools /\ ~Forbidden(Call.tool)
  /\ pc \in {"execute", "entered", "running"} /\ NeedsApproval(Call.tool) => Call.id \in approved
  /\ pc = "approval" /\ verdict = "approved" => Call.id \in approved
  /\ pc \in {"model", "persist", "call", "approval", "execute", "entered", "running"} =>
       \A k \in sent.to + 1..Len(history) : history[k].access = "none"
  /\ NothingRunsUnallowed

\* The answer whose calls the Turn is working on: todo is what it still lacks.
Working == {"call", "approval", "execute", "entered", "running", "activity"}

AtWork(k) ==
  /\ pc \in Working
  /\ history[k].turn = turn /\ Behind(k) = ResultsOf(k)
  /\ LET n == Cardinality(ResultsOf(k))
     IN /\ Len(history[k].calls) = n + Len(todo)
        /\ \A i \in 1..Len(todo) : history[k].calls[n + i] = todo[i].id

Whole(k) == Cardinality(ResultsOf(k)) >= Len(history[k].calls)
CutOff(k) == Behind(k) = ResultsOf(k) /\ ended[history[k].turn] \in {"cancelled", "failed"}

Asking == {k \in DOMAIN history : history[k].turn # 0 /\ history[k].role # "tool"}

AnswersOK ==
  /\ \A k \in Asking :
       /\ IsInjective(history[k].calls) /\ InOrder(ResultsOf(k), history[k].calls)
       /\ Whole(k) \/ CutOff(k) \/ AtWork(k)
  /\ pc \in Working => \E k \in Asking : AtWork(k)

\* What a tool has worked on in this step is on record, but for the last call.
RecordsOK == \A c \in ran : (pc = "running" /\ c = Call) \/ Recorded(c.id)

Inv == TypeOK /\ DataOK /\ StreamOK /\ PlacesOK /\ PermittedOK /\ AnswersOK /\ RecordsOK

-----------------------------------------------------------------------------
(***************************************************************************)
(* Lemmas about sequences, answers and tools                               *)
(***************************************************************************)
\* Induction is by a least counterexample.
LEMMA LeastOf ==
  ASSUME NEW S, S \subseteq Nat, S # {}
  PROVE  \E x \in S : \A y \in S : x <= y
<1>1. PICK x \in S : \A y \in S : <<y, x>> \notin OpToRel(<, Nat)
  BY NatLessThanWellFounded, WFMin
<1>2. \A y \in S : ~(y < x)
  BY <1>1 DEF OpToRel
<1>3. \A y \in S : x <= y
  <2> SUFFICES ASSUME NEW y \in S PROVE x <= y
    OBVIOUS
  <2>1. ~(y < x) /\ x \in Nat /\ y \in Nat
    BY <1>2
  <2> QED
    BY <2>1
<1> QED
  BY <1>3

LEMMA Appended ==
  ASSUME NEW S, NEW q \in Seq(S), NEW m \in S
  PROVE  /\ Len(q) \in Nat /\ DOMAIN q = 1..Len(q)
         /\ Append(q, m) \in Seq(S)
         /\ Len(Append(q, m)) = Len(q) + 1
         /\ DOMAIN Append(q, m) = 1..(Len(q) + 1)
         /\ Append(q, m)[Len(q) + 1] = m
         /\ \A i \in 1..Len(q) : Append(q, m)[i] = q[i]
  OBVIOUS

LEMMA AppendedTwo ==
  ASSUME NEW S, NEW q \in Seq(S), NEW m1 \in S, NEW m2 \in S
  PROVE  /\ Len(q) \in Nat
         /\ q \o <<m1, m2>> \in Seq(S)
         /\ Len(q \o <<m1, m2>>) = Len(q) + 2
         /\ (q \o <<m1, m2>>)[Len(q) + 1] = m1
         /\ (q \o <<m1, m2>>)[Len(q) + 2] = m2
         /\ \A i \in 1..Len(q) : (q \o <<m1, m2>>)[i] = q[i]
  OBVIOUS

LEMMA Shortened ==
  ASSUME NEW S, NEW q \in Seq(S), q # <<>>
  PROVE  /\ Len(q) \in Nat \ {0} /\ Head(q) = q[1] /\ Head(q) \in S
         /\ Tail(q) \in Seq(S) /\ Len(Tail(q)) = Len(q) - 1
         /\ \A i \in 1..Len(Tail(q)) : Tail(q)[i] = q[i + 1]
  OBVIOUS

LEMMA IdsTyped ==
  ASSUME NEW calls \in Seq(CallSet)
  PROVE  /\ IdsOf(calls) \in Seq(Ids) /\ Len(IdsOf(calls)) = Len(calls)
         /\ DOMAIN IdsOf(calls) = 1..Len(calls)
         /\ \A k \in 1..Len(calls) : IdsOf(calls)[k] = calls[k].id
  BY DEF IdsOf, Ids

LEMMA AnswersTyped ==
  \A a \in Answers \cup {Nothing} : a.calls \in Seq(ModelCalls) /\ a.text \in BOOLEAN
<1>1. ASSUME NEW a \in Answers
      PROVE  a.calls \in Seq(ModelCalls) /\ a.text \in BOOLEAN
  <2>1. a.calls \in Seq(ToSet(a.calls))
    BY AnswersAssumption
  <2>2. ToSet(a.calls) \subseteq ModelCalls
    BY DEF ModelCalls
  <2>3. a.text \in BOOLEAN
    BY AnswersAssumption
  <2> QED
    BY <2>1, <2>2, <2>3
<1>2. Nothing.calls = <<>> /\ <<>> \in Seq(ModelCalls) /\ Nothing.text = FALSE
  BY DEF Nothing
<1> QED
  BY <1>1, <1>2

LEMMA CallsTyped == Seq(ModelCalls) \subseteq Seq(CallSet)
BY DEF CallSet

ToolRecords ==
  [risk : {"read_only", "filesystem_write", "command_execution", "process_control",
           "external_action"},
   writes : BOOLEAN, watches : BOOLEAN, shows : BOOLEAN]

LEMMA ToolsTyped ==
  /\ \A x \in DOMAIN Tools : Tools[x] \in ToolRecords /\ Tools[x].shows \in BOOLEAN
  /\ "start_process" \in DOMAIN Tools /\ ~Tools["start_process"].watches
<1>1. /\ ReadFile \in ToolRecords /\ ListDirectory \in ToolRecords /\ WriteFile \in ToolRecords
      /\ Shell \in ToolRecords /\ StartProcess \in ToolRecords /\ ListProcesses \in ToolRecords
      /\ ReadProcessOutput \in ToolRecords /\ StopProcess \in ToolRecords
      /\ GenerateImage \in ToolRecords /\ ~StartProcess.watches
  BY DEF Tool, ReadFile, ListDirectory, WriteFile, Shell, StartProcess, ListProcesses,
         ReadProcessOutput, StopProcess, GenerateImage, ToolRecords
<1>2. ViewImage \in ToolRecords
  <2>1. Tool("read_only", FALSE, FALSE) \in ToolRecords
    BY DEF Tool, ToolRecords
  <2> QED
    BY <2>1 DEF ViewImage, ToolRecords
<1>3. \A x \in DOMAIN Tools : Tools[x] \in ToolRecords
  BY <1>1, <1>2 DEF Tools
<1>4. "start_process" \in DOMAIN Tools /\ Tools["start_process"] = StartProcess
  BY DEF Tools
<1> QED
  BY <1>1, <1>3, <1>4 DEF ToolRecords

LEMMA ReplyTyped ==
  ASSUME NEW t \in Nat, NEW text \in BOOLEAN, NEW ids \in Seq(Ids)
  PROVE  /\ Reply(t, text, ids) \in Messages /\ Reply(t, text, ids).turn = t
         /\ Reply(t, text, ids).role = "assistant" /\ Reply(t, text, ids).calls = ids
         /\ Reply(t, text, ids).access = "none"
  BY DEF Reply, Message, Messages

LEMMA FinalReplyTyped ==
  ASSUME NEW t \in Nat
  PROVE  /\ TextReply(t) \in Messages /\ TextReply(t).turn = t
         /\ TextReply(t).role = "assistant" /\ TextReply(t).calls = <<>>
         /\ TextReply(t).access = "none"
<1>1. PICK ids \in Seq(Ids), text \in BOOLEAN : ids = <<>> /\ text = TRUE
  <2>1. <<>> \in Seq(Ids) /\ TRUE \in BOOLEAN
    OBVIOUS
  <2> QED
    BY <2>1, Zenon
<1>2. /\ Reply(t, text, ids) \in Messages /\ Reply(t, text, ids).turn = t
      /\ Reply(t, text, ids).role = "assistant" /\ Reply(t, text, ids).calls = ids
      /\ Reply(t, text, ids).access = "none"
  BY ReplyTyped
<1>3. TextReply(t) = Reply(t, text, ids)
  BY <1>1, Zenon DEF TextReply
<1> QED
  BY <1>1, <1>2, <1>3, Zenon

LEMMA ResultTyped ==
  ASSUME NEW t \in Nat, NEW id \in Ids, NEW img \in BOOLEAN
  PROVE  /\ Result(t, id, img) \in Messages /\ Result(t, id, img).turn = t
         /\ Result(t, id, img).role = "tool" /\ Result(t, id, img).answers = id
         /\ Result(t, id, img).access = "none"
<1>1. <<>> \in Seq(Ids)
  OBVIOUS
<1> QED
  BY <1>1 DEF Result, Message, Messages

LEMMA QuestionTyped ==
  ASSUME NEW t \in Nat, NEW access \in {"none", "read_only", "read_write"}
  PROVE  /\ Question(t, access) \in Messages /\ Question(t, access).turn = t
         /\ Question(t, access).role = "user" /\ Question(t, access).calls = <<>>
<1>1. <<>> \in Seq(Ids)
  OBVIOUS
<1> QED
  BY <1>1 DEF Question, Message, Messages

\* The first n sequences of q one behind the other: w[n], where the i-th of
\* them ends at position at[i].
Joined(q, n, w, at) ==
  /\ at[0] = 0
  /\ \A i \in 1..n :
       /\ w[i] = (IF i = 1 THEN q[i] ELSE w[i - 1] \o q[i])
       /\ at[i] = at[i - 1] + Len(q[i]) /\ Len(w[i]) = at[i]
       /\ \A j \in 1..i : \A o \in 1..Len(q[j]) :
            at[j - 1] + o \in 1..at[i] /\ w[i][at[j - 1] + o] = q[j][o]

LEMMA Concatenated ==
  ASSUME NEW S, NEW a \in Seq(S), NEW b \in Seq(S)
  PROVE  /\ a \o b \in Seq(S) /\ Len(a \o b) = Len(a) + Len(b)
         /\ \A i \in 1..Len(a) : (a \o b)[i] = a[i]
         /\ \A i \in 1..Len(b) : (a \o b)[Len(a) + i] = b[i]
  OBVIOUS

LEMMA JoinedFor ==
  ASSUME NEW S, NEW q \in Seq(Seq(S))
  PROVE  \A n \in 0..Len(q) :
           \E w \in [1..n -> Seq(S)], at \in [0..n -> Nat] : Joined(q, n, w, at)
<1> DEFINE Can(n) == \E w \in [1..n -> Seq(S)], at \in [0..n -> Nat] : Joined(q, n, w, at)
           bad == {n \in 0..Len(q) : ~Can(n)}
<1>1. Can(0)
  <2>1. [i \in 1..0 |-> <<>>] \in [1..0 -> Seq(S)] /\ [i \in 0..0 |-> 0] \in [0..0 -> Nat]
    OBVIOUS
  <2>2. Joined(q, 0, [i \in 1..0 |-> <<>>], [i \in 0..0 |-> 0])
    BY DEF Joined
  <2> QED
    BY <2>1, <2>2
<1>2. ASSUME NEW n \in 1..Len(q), Can(n - 1)
      PROVE  Can(n)
  <2>1. PICK w \in [1..(n - 1) -> Seq(S)], at \in [0..(n - 1) -> Nat] : Joined(q, n - 1, w, at)
    BY <1>2
  <2>2. n \in Nat \ {0} /\ n - 1 \in Nat /\ q[n] \in Seq(S) /\ Len(q[n]) \in Nat
    OBVIOUS
  <2> DEFINE last == IF n = 1 THEN q[n] ELSE w[n - 1] \o q[n]
             v == [i \in 1..n |-> IF i = n THEN last ELSE w[i]]
             to == [i \in 0..n |-> IF i = n THEN at[n - 1] + Len(q[n]) ELSE at[i]]
  <2>3. /\ at[n - 1] \in Nat
        /\ n = 1 => at[n - 1] = 0
        /\ n # 1 => w[n - 1] \in Seq(S) /\ Len(w[n - 1]) = at[n - 1]
    <3>1. n - 1 \in 0..n - 1 /\ (n # 1 => n - 1 \in 1..n - 1)
      BY <2>2
    <3>2. at[n - 1] \in Nat /\ (n # 1 => w[n - 1] \in Seq(S))
      BY <3>1
    <3>3. n = 1 => at[n - 1] = at[0]
      BY <2>2
    <3> QED
      BY <2>1, <3>1, <3>2, <3>3 DEF Joined
  <2>4. /\ last \in Seq(S) /\ Len(last) = at[n - 1] + Len(q[n])
        /\ \A o \in 1..Len(q[n]) : last[at[n - 1] + o] = q[n][o]
        /\ n # 1 => \A p \in 1..at[n - 1] : last[p] = w[n - 1][p]
    <3>1. CASE n = 1
      BY <2>2, <2>3, <3>1
    <3>2. CASE n # 1
      <4>1. PICK a \in Seq(S) : a = w[n - 1]
        BY SMTT(60), <2>3, <3>2
      <4>2. PICK b \in Seq(S) : b = q[n]
        BY SMTT(60), <2>2
      <4>3. last = a \o b /\ Len(a) = at[n - 1] /\ Len(b) = Len(q[n])
        BY <2>3, <3>2, <4>1, <4>2
      <4> HIDE DEF last
      <4>4. /\ a \o b \in Seq(S) /\ Len(a \o b) = Len(a) + Len(b)
            /\ \A p \in 1..Len(a) : (a \o b)[p] = a[p]
            /\ \A o \in 1..Len(b) : (a \o b)[Len(a) + o] = b[o]
        BY Concatenated
      <4> QED
        BY <4>1, <4>2, <4>3, <4>4
    <3> QED
      BY <3>1, <3>2
  <2> HIDE DEF last
  <2>7. v \in [1..n -> Seq(S)] /\ to \in [0..n -> Nat]
    <3>1. /\ \A i \in 1..n : i = n \/ i \in 1..n - 1
          /\ \A i \in 0..n : i = n \/ i \in 0..n - 1
      BY <2>2
    <3>2. \A i \in 1..n - 1 : w[i] \in Seq(S)
      OBVIOUS
    <3>3. \A i \in 0..n - 1 : at[i] \in Nat
      OBVIOUS
    <3>4. at[n - 1] + Len(q[n]) \in Nat
      BY SMTT(60), <2>2, <2>3
    <3> QED
      BY <2>4, <3>1, <3>2, <3>3, <3>4
  <2>8. /\ v[n] = last /\ to[n] = at[n - 1] + Len(q[n])
        /\ \A i \in 1..n - 1 : v[i] = w[i]
        /\ \A i \in 0..n - 1 : to[i] = at[i]
    BY <2>2
  <2> HIDE DEF v, to
  <2>9. to[0] = 0
    BY <2>1, <2>2, <2>8 DEF Joined
  <2>10. ASSUME NEW i \in 1..n - 1
         PROVE  /\ v[i] = (IF i = 1 THEN q[i] ELSE v[i - 1] \o q[i])
                /\ to[i] = to[i - 1] + Len(q[i]) /\ Len(v[i]) = to[i]
                /\ \A j \in 1..i : \A o \in 1..Len(q[j]) :
                     to[j - 1] + o \in 1..to[i] /\ v[i][to[j - 1] + o] = q[j][o]
    <3>1. /\ i \in 1..n - 1 /\ i - 1 \in 0..n - 1 /\ i \in 0..n - 1
          /\ i # 1 => i - 1 \in 1..n - 1
          /\ \A j \in 1..i : j - 1 \in 0..n - 1
      BY SMTT(60), <2>2
    <3>2. /\ v[i] = w[i] /\ to[i] = at[i] /\ to[i - 1] = at[i - 1]
          /\ i # 1 => v[i - 1] = w[i - 1]
          /\ \A j \in 1..i : to[j - 1] = at[j - 1]
      BY <2>8, <3>1
    <3>3. /\ w[i] = (IF i = 1 THEN q[i] ELSE w[i - 1] \o q[i])
          /\ at[i] = at[i - 1] + Len(q[i]) /\ Len(w[i]) = at[i]
          /\ \A j \in 1..i : \A o \in 1..Len(q[j]) :
               at[j - 1] + o \in 1..at[i] /\ w[i][at[j - 1] + o] = q[j][o]
      BY <2>1 DEF Joined
    <3> QED
      BY <3>2, <3>3
  <2>11. /\ v[n] = (IF n = 1 THEN q[n] ELSE v[n - 1] \o q[n])
         /\ to[n] = to[n - 1] + Len(q[n]) /\ Len(v[n]) = to[n]
    <3>1. n - 1 \in 0..n - 1 /\ (n # 1 => n - 1 \in 1..n - 1)
      BY <2>2
    <3> QED
      BY <2>4, <2>8, <3>1 DEF last
  <2>12. ASSUME NEW j \in 1..n, NEW o \in 1..Len(q[j])
         PROVE  to[j - 1] + o \in 1..to[n] /\ v[n][to[j - 1] + o] = q[j][o]
    <3>1. j - 1 \in 0..n - 1 /\ to[j - 1] = at[j - 1] /\ at[j - 1] \in Nat /\ o \in Nat \ {0}
      BY SMTT(60), <2>2, <2>8
    <3>2. CASE j = n
      <4>1. at[n - 1] + o \in 1..at[n - 1] + Len(q[n])
        BY SMTT(60), <2>2, <2>3, <3>1, <3>2
      <4> QED
        BY SMTT(60), <2>4, <2>8, <3>1, <3>2, <4>1
    <3>3. CASE j # n
      <4>1. j \in 1..n - 1 /\ n # 1 /\ n - 1 \in 1..n - 1
        BY <2>2, <3>3
      <4>2. at[j - 1] + o \in 1..at[n - 1] /\ w[n - 1][at[j - 1] + o] = q[j][o]
        BY <2>1, <4>1 DEF Joined
      <4>3. at[j - 1] + o \in 1..to[n]
        <5>1. /\ at[n - 1] \in Nat /\ Len(q[n]) \in Nat /\ to[n] = at[n - 1] + Len(q[n])
              /\ at[j - 1] + o \in 1..at[n - 1]
          BY <2>2, <2>3, <2>8, <4>2
        <5> QED
          BY SMTT(60), <5>1
      <4> QED
        BY ZenonT(60), <2>4, <2>8, <3>1, <4>1, <4>2, <4>3
    <3> QED
      BY <3>2, <3>3
  <2>13. \A i \in 1..n : i \in 1..n - 1 \/ i = n
    BY <2>2
  <2>14. Joined(q, n, v, to)
    <3> SUFFICES ASSUME NEW i \in 1..n
                 PROVE  /\ v[i] = (IF i = 1 THEN q[i] ELSE v[i - 1] \o q[i])
                        /\ to[i] = to[i - 1] + Len(q[i]) /\ Len(v[i]) = to[i]
                        /\ \A j \in 1..i : \A o \in 1..Len(q[j]) :
                             to[j - 1] + o \in 1..to[i] /\ v[i][to[j - 1] + o] = q[j][o]
      BY <2>9 DEF Joined
    <3>1. CASE i \in 1..n - 1
      BY <2>10, <3>1
    <3>2. CASE i = n
      BY <2>11, <2>12, <3>2
    <3> QED
      BY <2>13, <3>1, <3>2
  <2> QED
    BY <2>7, <2>14
<1>3. bad = {}
  <2> SUFFICES ASSUME bad # {} PROVE FALSE
    BY SMTT(60)
  <2> HIDE DEF Can
  <2>1. bad \subseteq Nat
    OBVIOUS
  <2>2. PICK n \in bad : \A m \in bad : n <= m
    BY <2>1, LeastOf
  <2>3. n \in 1..Len(q) /\ n - 1 \in 0..Len(q) /\ ~(n <= n - 1)
    BY <1>1, <2>2
  <2>4. Can(n - 1)
    BY <2>2, <2>3
  <2> QED
    BY <1>2, <2>2, <2>3, <2>4
<1> QED
  BY <1>3

\* FlattenSeq puts the n sequences behind each other: the j-th ends at at[j].
LaidOut(q, n, flat, at) ==
  /\ at[0] = 0 /\ DOMAIN flat = 1..at[n]
  /\ \A i, j \in 0..n : i <= j => at[i] <= at[j]
  /\ \A j \in 1..n :
       /\ at[j] = at[j - 1] + Len(q[j])
       /\ \A o \in 1..Len(q[j]) :
            at[j - 1] + o \in DOMAIN flat /\ flat[at[j - 1] + o] = q[j][o]
  /\ \A p \in DOMAIN flat :
       \E j \in 1..n : \E o \in 1..Len(q[j]) : p = at[j - 1] + o

LEMMA NoElements ==
  ASSUME NEW S, NEW q \in Seq(S), Len(q) = 0
  PROVE  q = <<>>
  OBVIOUS

LEMMA Flattened ==
  ASSUME NEW S, NEW q \in Seq(Seq(S))
  PROVE  /\ FlattenSeq(q) \in Seq(S)
         /\ \E at \in [0..Len(q) -> Nat] : LaidOut(q, Len(q), FlattenSeq(q), at)
<1>0. PICK n : n = Len(q)
  OBVIOUS
<1>1. n \in Nat /\ n \in 0..n /\ \A j \in 1..n : q[j] \in Seq(S) /\ Len(q[j]) \in Nat
  BY <1>0
<1>2. PICK w \in [1..n -> Seq(S)], at \in [0..n -> Nat] : Joined(q, n, w, at)
  BY <1>0, <1>1, JoinedFor
<1>3. FlattenSeq(q) = IF n = 0 THEN q ELSE w[n]
  <2>1. CASE n = 0
    BY <1>0, <2>1 DEF FlattenSeq
  <2>2. CASE n # 0
    <3> DEFINE f == CHOOSE f : f = [i \in 1..n |-> IF i = 1 THEN q[i] ELSE f[i - 1] \o q[i]]
    <3>1. FlattenSeq(q) = f[n]
      BY <1>0, <2>2 DEF FlattenSeq
    <3>2. w = [i \in 1..n |-> IF i = 1 THEN q[i] ELSE w[i - 1] \o q[i]]
      BY ZenonT(60), <1>2 DEF Joined
    <3>3. f = [i \in 1..n |-> IF i = 1 THEN q[i] ELSE f[i - 1] \o q[i]]
      BY ZenonT(60), <3>2
    <3> HIDE DEF f
    <3>5. \A i \in 1..n : f[i] = (IF i = 1 THEN q[i] ELSE f[i - 1] \o q[i])
      BY <3>3
    <3>6. \A i \in 1..n : w[i] = (IF i = 1 THEN q[i] ELSE w[i - 1] \o q[i])
      BY <1>2 DEF Joined
    <3> DEFINE differs == {i \in 1..n : f[i] # w[i]}
    <3>4. ASSUME differs # {} PROVE FALSE
      <4>0. differs \subseteq Nat
        OBVIOUS
      <4>1. PICK i \in differs : \A j \in differs : i <= j
        <5> HIDE DEF differs
        <5> QED
          BY <3>4, <4>0, LeastOf
      <4>2. CASE i = 1
        BY <3>5, <3>6, <4>1, <4>2
      <4>3. CASE i # 1
        <5>1. i - 1 \in 1..n /\ ~(i <= i - 1)
          BY <1>1, <4>1, <4>3
        <5>2. f[i - 1] = w[i - 1]
          BY <4>1, <5>1
        <5>3. f[i] = f[i - 1] \o q[i] /\ w[i] = w[i - 1] \o q[i]
          BY ZenonT(60), <3>5, <3>6, <4>1, <4>3
        <5> QED
          BY ZenonT(60), <4>1, <5>2, <5>3
      <4> QED
        BY <4>2, <4>3
    <3>7. \A i \in 1..n : f[i] = w[i]
      BY <3>4
    <3>8. n \in 1..n
      BY <1>1, <2>2
    <3> QED
      BY <2>2, <3>1, <3>7, <3>8
  <2> QED
    BY <2>1, <2>2
<1>4. DOMAIN FlattenSeq(q) = 1..at[n] /\ at[0] = 0
  <2>1. CASE n = 0
    <3>1. at[0] = 0
      BY <1>2 DEF Joined
    <3>2. FlattenSeq(q) = q
      BY <1>3, <2>1
    <3>3. DOMAIN q = 1..n
      BY <1>0
    <3> QED
      BY <2>1, <3>1, <3>2, <3>3
  <2>2. CASE n # 0
    <3>1. n \in 1..n
      BY <1>1, <2>2
    <3>2. w[n] \in Seq(S) /\ Len(w[n]) = at[n] /\ at[0] = 0
      BY <1>2, <3>1 DEF Joined
    <3> QED
      BY <1>3, <2>2, <3>2
  <2> QED
    BY <2>1, <2>2
<1>5. ASSUME NEW j \in 1..n
      PROVE  /\ at[j] = at[j - 1] + Len(q[j])
             /\ \A o \in 1..Len(q[j]) :
                  /\ at[j - 1] + o \in DOMAIN FlattenSeq(q)
                  /\ FlattenSeq(q)[at[j - 1] + o] = q[j][o]
  <2>1. n \in 1..n /\ n # 0
    BY <1>1
  <2>2. /\ at[j] = at[j - 1] + Len(q[j])
        /\ \A o \in 1..Len(q[j]) : at[j - 1] + o \in 1..at[n] /\ w[n][at[j - 1] + o] = q[j][o]
    BY <1>2, <2>1 DEF Joined
  <2> QED
    BY <1>3, <1>4, <2>1, <2>2
<1>6. ASSUME NEW i \in 0..n, NEW j \in 0..n, i <= j
      PROVE  at[i] <= at[j]
  <2> DEFINE below == {k \in i..n : ~(at[i] <= at[k])}
  <2>1. ASSUME below # {} PROVE FALSE
    <3>1. below \subseteq Nat
      OBVIOUS
    <3>2. PICK k \in below : \A x \in below : k <= x
      BY <2>1, <3>1, LeastOf
    <3>3. k # i /\ k \in 1..n /\ k - 1 \in i..n /\ ~(k <= k - 1)
      <4>1. k # i
        BY <3>2
      <4> QED
        BY <1>1, <3>2, <4>1
    <3>4. at[i] <= at[k - 1]
      BY <3>2, <3>3
    <3>5. at[k] = at[k - 1] + Len(q[k]) /\ Len(q[k]) \in Nat
      BY SMTT(60), <1>1, <1>5, <3>3
    <3>6. at[i] \in Nat /\ at[k - 1] \in Nat
      BY <3>3
    <3> QED
      BY SMTT(60), <3>2, <3>4, <3>5, <3>6
  <2> QED
    BY <1>6, <2>1
<1>7. ASSUME NEW p \in DOMAIN FlattenSeq(q)
      PROVE  \E j \in 1..n : \E o \in 1..Len(q[j]) : p = at[j - 1] + o
  <2> DEFINE reach == {j \in 0..n : p <= at[j]}
  <2>1. p \in 1..at[n] /\ at[n] \in Nat /\ n \in reach
    BY <1>1, <1>4
  <2>2. PICK j \in reach : \A x \in reach : j <= x
    <3>1. reach \subseteq Nat
      OBVIOUS
    <3> HIDE DEF reach
    <3> QED
      BY <2>1, <3>1, LeastOf
  <2>3. j # 0 /\ j \in 1..n /\ j - 1 \in 0..n /\ ~(j <= j - 1)
    <3>1. j # 0
      BY <1>4, <2>1, <2>2
    <3> QED
      BY <1>1, <2>2, <3>1
  <2>4. ~(p <= at[j - 1]) /\ p <= at[j] /\ at[j - 1] \in Nat /\ at[j] \in Nat
    BY <2>2, <2>3
  <2>5. at[j] = at[j - 1] + Len(q[j])
    BY <1>5, <2>3
  <2>6. p - at[j - 1] \in 1..Len(q[j]) /\ p = at[j - 1] + (p - at[j - 1])
    <3>1. p \in Nat /\ at[j - 1] \in Nat /\ Len(q[j]) \in Nat /\ p <= at[j - 1] + Len(q[j])
      BY SMTT(60), <1>1, <2>1, <2>3, <2>4, <2>5
    <3> QED
      BY SMTT(60), <2>4, <3>1
  <2> QED
    BY <2>3, <2>6
<1>8. LaidOut(q, n, FlattenSeq(q), at)
  BY <1>4, <1>5, <1>6, <1>7 DEF LaidOut
<1>9. FlattenSeq(q) \in Seq(S)
  <2>1. CASE n = 0
    <3>1. q = <<>>
      BY <1>0, <2>1, NoElements
    <3>2. <<>> \in Seq(S)
      OBVIOUS
    <3> QED
      BY <1>3, <2>1, <3>1, <3>2, Zenon
  <2>2. CASE n # 0
    <3>1. n \in 1..n
      BY <1>1, <2>2
    <3> QED
      BY <1>2, <1>3, <2>2, <3>1
  <2> QED
    BY <2>1, <2>2
<1> QED
  BY <1>0, <1>8, <1>9

-----------------------------------------------------------------------------
(***************************************************************************)
(* Lemmas about the history                                                *)
(***************************************************************************)
LEMMA ResultsFinite ==
  ASSUME history \in Seq(Messages), NEW k \in DOMAIN history
  PROVE  /\ ResultsOf(k) \subseteq Behind(k) /\ Behind(k) \subseteq k + 1..Len(history)
         /\ IsFiniteSet(ResultsOf(k)) /\ Cardinality(ResultsOf(k)) \in Nat
<1>1. k \in Nat /\ Len(history) \in Nat
  OBVIOUS
<1>2. ResultsOf(k) \subseteq Behind(k) /\ Behind(k) \subseteq k + 1..Len(history)
  BY DEF ResultsOf, Behind
<1>3. IsFiniteSet(k + 1..Len(history))
  BY <1>1, FS_Interval
<1> QED
  BY <1>2, <1>3, FS_Subset, FS_CardinalityType

\* A new message stands behind those of its Turn, and is a result of the last
\* of another role.
LEMMA MessageAdded ==
  ASSUME history \in Seq(Messages), NEW m \in Messages, history' = Append(history, m),
         NEW n, n = Len(history) + 1
  PROVE  /\ n \notin DOMAIN history /\ DOMAIN history' = DOMAIN history \cup {n}
         /\ history'[n] = m /\ Behind(n)' = {} /\ ResultsOf(n)' = {}
         /\ \A k \in DOMAIN history :
              /\ history'[k] = history[k]
              /\ Behind(k)' = IF history[k].turn = m.turn THEN Behind(k) \cup {n} ELSE Behind(k)
              /\ ResultsOf(k)' = IF /\ history[k].turn = m.turn /\ m.role = "tool"
                                    /\ Behind(k) = ResultsOf(k)
                                 THEN ResultsOf(k) \cup {n} ELSE ResultsOf(k)
<1>1. /\ Len(history) \in Nat /\ DOMAIN history = 1..Len(history) /\ Len(history') = n
      /\ DOMAIN history' = 1..n /\ history'[n] = m
      /\ \A i \in 1..Len(history) : history'[i] = history[i]
  BY Appended
<1>2. n \notin DOMAIN history /\ DOMAIN history' = DOMAIN history \cup {n}
  BY <1>1
<1>3. Behind(n)' = {}
  BY <1>1 DEF Behind
<1>4. ResultsOf(n)' = {}
  BY <1>3 DEF ResultsOf
<1>5. ASSUME NEW k \in DOMAIN history
      PROVE  /\ Behind(k)' = IF history[k].turn = m.turn THEN Behind(k) \cup {n} ELSE Behind(k)
             /\ ResultsOf(k)' = IF /\ history[k].turn = m.turn /\ m.role = "tool"
                                   /\ Behind(k) = ResultsOf(k)
                                THEN ResultsOf(k) \cup {n} ELSE ResultsOf(k)
  <2>1. k \in 1..Len(history) /\ k + 1..n = (k + 1..Len(history)) \cup {n}
    BY <1>1
  <2>2. Behind(k) \subseteq k + 1..Len(history) /\ \A i \in Behind(k) : i < n /\ history'[i] = history[i]
    BY <1>1, <2>1 DEF Behind
  <2>3. CASE history[k].turn # m.turn
    <3>1. Behind(k)' = Behind(k)
      BY <1>1, <2>1, <2>3 DEF Behind
    <3> QED
      BY <2>2, <2>3, <3>1 DEF ResultsOf
  <2>4. CASE history[k].turn = m.turn
    <3>1. Behind(k)' = Behind(k) \cup {n}
      BY <1>1, <2>1, <2>4 DEF Behind
    <3>2. CASE m.role # "tool"
      <4>1. \A j \in Behind(k) : ~(n <= j)
        BY <1>1, <2>1, <2>2
      <4>2. {i \in Behind(k)' : history'[i].role # "tool"}
              = {i \in Behind(k) : history[i].role # "tool"} \cup {n}
        BY <1>1, <2>2, <3>1, <3>2
      <4> DEFINE others == {i \in Behind(k) : history[i].role # "tool"}
      <4>3. ResultsOf(k) = {j \in Behind(k) : \A i \in others : j < i}
        BY DEF ResultsOf
      <4>4. ResultsOf(k)' = {j \in Behind(k) \cup {n} : \A i \in others \cup {n} : j < i}
        BY <3>1, <4>2 DEF ResultsOf
      <4>5. ~(n < n) /\ \A j \in Behind(k) : j < n
        BY <1>1, <2>2
      <4> HIDE DEF others
      <4>6. ResultsOf(k)' = ResultsOf(k)
        BY <4>3, <4>4, <4>5
      <4> QED
        BY <2>4, <3>1, <3>2, <4>6
    <3>3. CASE m.role = "tool"
      <4>1. {i \in Behind(k)' : history'[i].role # "tool"}
              = {i \in Behind(k) : history[i].role # "tool"}
        BY <1>1, <2>2, <3>1, <3>3
      <4>2. CASE \A i \in Behind(k) : history[i].role = "tool"
        <5>1. Behind(k) = ResultsOf(k)
          BY <4>2 DEF ResultsOf
        <5>2. ResultsOf(k)' = Behind(k)'
          BY <4>1, <4>2 DEF ResultsOf
        <5> QED
          BY <2>4, <3>1, <3>3, <5>1, <5>2
      <4>3. CASE \E i \in Behind(k) : history[i].role # "tool"
        <5>1. PICK i \in Behind(k) : history[i].role # "tool"
          BY <4>3
        <5>2. i \notin ResultsOf(k) /\ n \notin ResultsOf(k)'
          <6>1. ~(i < i) /\ ~(n < i)
            BY <2>1, <2>2, <5>1, <1>1
          <6>2. i \in {j \in Behind(k) : history[j].role # "tool"}
            BY <5>1
          <6>3. i \notin ResultsOf(k)
            BY <6>1, <6>2 DEF ResultsOf
          <6>4. n \notin ResultsOf(k)'
            BY <4>1, <6>1, <6>2 DEF ResultsOf
          <6> QED
            BY <6>3, <6>4
        <5>3. ResultsOf(k)' = ResultsOf(k)
          BY <3>1, <4>1, <5>2 DEF ResultsOf
        <5> QED
          BY <2>4, <3>1, <5>1, <5>2, <5>3
      <4> QED
        BY <4>2, <4>3
    <3> QED
      BY <3>2, <3>3
  <2> QED
    BY <2>3, <2>4
<1> QED
  BY <1>1, <1>2, <1>3, <1>4, <1>5

LEMMA OrderKept ==
  ASSUME history \in Seq(Messages), NEW m \in Messages, history' = Append(history, m),
         NEW k \in DOMAIN history, InOrder(ResultsOf(k), history[k].calls),
         ResultsOf(k)' = ResultsOf(k)
  PROVE  InOrder(ResultsOf(k), history[k].calls)'
<1>1. \A j \in ResultsOf(k) \cup {k} : history'[j] = history[j]
  <2>1. ResultsOf(k) \cup {k} \subseteq DOMAIN history
    BY ResultsFinite
  <2> QED
    BY <2>1, Appended
<1> QED
  BY ZenonT(60), <1>1 DEF InOrder

-----------------------------------------------------------------------------
(***************************************************************************)
(* The answers stay in order                                               *)
(***************************************************************************)
\* A step that adds no message and works on the same calls.
LEMMA AnswersSame ==
  ASSUME AnswersOK, UNCHANGED <<history, turn, ended>>, pc' \in Working <=> pc \in Working,
         todo' = todo \/ pc \notin Working
  PROVE  AnswersOK'
<1>1. Asking' = Asking
  BY DEF Asking
<1>2. \A k \in Asking : Behind(k)' = Behind(k) /\ ResultsOf(k)' = ResultsOf(k)
  BY DEF Behind, ResultsOf
<1>3. \A k \in Asking :
        /\ IsInjective(history[k].calls)' /\ InOrder(ResultsOf(k), history[k].calls)'
        /\ (Whole(k) => Whole(k)') /\ (CutOff(k) => CutOff(k)')
  BY <1>2 DEF AnswersOK, InOrder, Whole, CutOff
<1>4. \A k \in Asking : AtWork(k) => AtWork(k)'
  BY <1>2 DEF AtWork
<1> QED
  BY <1>1, <1>3, <1>4 DEF AnswersOK

\* The Turn ends where it stands.
LEMMA AnswersCutOff ==
  ASSUME DataOK, AnswersOK, turn \in TurnIds, NEW status \in {"cancelled", "failed"}, End(status),
         UNCHANGED <<history, turn>>
  PROVE  AnswersOK'
<1>1. Asking' = Asking /\ pc' \notin Working
  BY DEF Asking, End, Working
<1>2. \A k \in Asking : Behind(k)' = Behind(k) /\ ResultsOf(k)' = ResultsOf(k)
  BY DEF Behind, ResultsOf
<1>3. \A k \in Asking :
        /\ IsInjective(history[k].calls)' /\ InOrder(ResultsOf(k), history[k].calls)'
        /\ Whole(k) => Whole(k)'
  BY <1>2 DEF AnswersOK, InOrder, Whole
<1>4. /\ ended'[turn] = status
      /\ \A t \in TurnIds : t # turn => ended'[t] = ended[t]
  BY DEF End, DataOK
<1>5. \A t : t \notin TurnIds => ended'[t] = ended[t]
  BY DEF End, DataOK
<1>6. \A k \in Asking : CutOff(k) \/ AtWork(k) => CutOff(k)'
  BY <1>2, <1>4, <1>5 DEF CutOff, AtWork
<1> QED
  BY <1>1, <1>3, <1>6 DEF AnswersOK

\* A question or an answer is added, and the calls of an answer are taken up.
LEMMA AnswersAdded ==
  ASSUME history \in Seq(Messages), AnswersOK, pc \notin Working,
         NEW m \in Messages, m.role # "tool", IsInjective(m.calls), history' = Append(history, m),
         \A k \in Asking : IF history[k].turn = m.turn THEN Whole(k)
                           ELSE ended'[history[k].turn] = ended[history[k].turn],
         \/ m.calls = <<>> /\ pc' \notin Working
         \/ /\ pc' \in Working /\ m.turn = turn' /\ m.turn # 0 /\ Len(todo') = Len(m.calls)
            /\ \A i \in 1..Len(todo') : m.calls[i] = todo'[i].id
  PROVE  AnswersOK'
<1>0. PICK n : n = Len(history) + 1
  OBVIOUS
<1>1. /\ n \notin DOMAIN history /\ DOMAIN history' = DOMAIN history \cup {n}
      /\ history'[n] = m /\ Behind(n)' = {} /\ ResultsOf(n)' = {}
      /\ \A k \in DOMAIN history :
           /\ history'[k] = history[k] /\ ResultsOf(k)' = ResultsOf(k)
           /\ history[k].turn # m.turn => Behind(k)' = Behind(k)
  BY <1>0, MessageAdded
<1>2. Asking' \subseteq Asking \cup {n}
  BY <1>1 DEF Asking
<1>3. Asking \subseteq DOMAIN history
  BY DEF Asking
<1>4. ASSUME NEW k \in Asking
      PROVE  /\ IsInjective(history[k].calls)' /\ InOrder(ResultsOf(k), history[k].calls)'
             /\ Whole(k)' \/ CutOff(k)'
  <2>1. k \in DOMAIN history /\ history'[k] = history[k] /\ ResultsOf(k)' = ResultsOf(k)
    BY <1>1, <1>3
  <2>2. IsInjective(history[k].calls)' /\ InOrder(ResultsOf(k), history[k].calls)'
    BY <2>1, OrderKept DEF AnswersOK
  <2>3. Whole(k) => Whole(k)'
    BY <2>1 DEF Whole
  <2>4. ~Whole(k) => CutOff(k) /\ history[k].turn # m.turn
    BY DEF AnswersOK, AtWork
  <2>5. ~Whole(k) => CutOff(k)'
    BY <1>1, <2>1, <2>4 DEF CutOff
  <2> QED
    BY <2>2, <2>3, <2>5
<1>5. IsInjective(history[n].calls)' /\ InOrder(ResultsOf(n), history[n].calls)'
  BY <1>1 DEF InOrder
<1>6. Cardinality(ResultsOf(n)') = 0
  BY <1>1, FS_EmptySet
<1>7. m.calls \in Seq(Ids) /\ Len(m.calls) \in Nat
  BY DEF Messages
<1>8. CASE m.calls = <<>> /\ pc' \notin Working
  <2>1. Whole(n)'
    BY <1>1, <1>6, <1>8 DEF Whole
  <2> QED
    BY <1>2, <1>4, <1>5, <1>8, <2>1 DEF AnswersOK
<1>9. CASE /\ pc' \in Working /\ m.turn = turn' /\ m.turn # 0 /\ Len(todo') = Len(m.calls)
           /\ \A i \in 1..Len(todo') : m.calls[i] = todo'[i].id
  <2>1. AtWork(n)'
    <3>1. /\ Len(m.calls) = 0 + Len(todo')
          /\ \A i \in 1..Len(todo') : m.calls[0 + i] = todo'[i].id
      BY <1>7, <1>9
    <3> QED
      BY <1>1, <1>6, <1>9, <3>1 DEF AtWork
  <2>2. n \in Asking'
    BY <1>1, <1>9 DEF Asking
  <2> QED
    BY <1>2, <1>4, <1>5, <2>1, <2>2 DEF AnswersOK
<1> QED
  BY <1>8, <1>9

\* The next call of the answer at work gets its result.
LEMMA AnswersGiven ==
  ASSUME DataOK, AnswersOK, pc \in Working, todo # <<>>, ended[turn] = "no",
         NEW m \in Messages, m.turn = turn, m.role = "tool", m.answers = Call.id,
         history' = Append(history, m), todo' = Tail(todo), UNCHANGED <<turn, ended>>,
         pc' \in Working <=> Len(todo) # 1
  PROVE  AnswersOK'
<1>0. history \in Seq(Messages) /\ todo \in Seq(CallSet)
  BY DEF DataOK
<1> PICK n : n = Len(history) + 1
  OBVIOUS
<1>1. /\ n \notin DOMAIN history /\ DOMAIN history' = DOMAIN history \cup {n}
      /\ history'[n] = m
      /\ \A k \in DOMAIN history :
           /\ history'[k] = history[k]
           /\ Behind(k)' = IF history[k].turn = turn THEN Behind(k) \cup {n} ELSE Behind(k)
           /\ ResultsOf(k)' = IF history[k].turn = turn /\ Behind(k) = ResultsOf(k)
                              THEN ResultsOf(k) \cup {n} ELSE ResultsOf(k)
  BY <1>0, MessageAdded
<1>2. Asking' = Asking /\ Asking \subseteq DOMAIN history
  BY <1>1 DEF Asking
<1>3. PICK w \in Asking : AtWork(w)
  BY DEF AnswersOK
<1>4. ASSUME NEW k \in Asking, k # w
      PROVE  /\ ResultsOf(k)' = ResultsOf(k)
             /\ history[k].turn = turn => Whole(k)
  <2>1. CASE history[k].turn # turn
    BY <1>1, <1>2, <2>1
  <2>2. CASE history[k].turn = turn
    <3>1. k \in DOMAIN history /\ w \in DOMAIN history /\ history[w].turn = turn
      BY <1>2, <1>3 DEF AtWork
    <3>2. k \in Nat /\ w \in Nat /\ DOMAIN history = 1..Len(history) /\ Len(history) \in Nat
      BY <1>0, <3>1
    <3>3. k \notin Behind(w)
      <4>1. Behind(w) = ResultsOf(w) /\ \A i \in ResultsOf(w) : i \in Behind(w)
        BY <1>3 DEF AtWork
      <4>2. ASSUME k \in Behind(w)
            PROVE  FALSE
        <5>1. k \in ResultsOf(w) /\ history[k].role # "tool"
          BY <4>1, <4>2 DEF Asking
        <5>2. k < k
          BY <4>2, <5>1 DEF ResultsOf
        <5> QED
          BY <3>2, <5>2
      <4> QED
        BY <4>2
    <3>4. k < w
      BY <1>4, <2>2, <3>1, <3>2, <3>3 DEF Behind
    <3>5. w \in Behind(k) /\ w \notin ResultsOf(k)
      <4>1. w \in Behind(k)
        BY <2>2, <3>1, <3>2, <3>4 DEF Behind
      <4>2. w \notin ResultsOf(k)
        <5>1. history[w].role # "tool" /\ ~(w < w)
          BY <3>2 DEF Asking
        <5> QED
          BY <4>1, <5>1 DEF ResultsOf
      <4> QED
        BY <4>1, <4>2
    <3>6. Behind(k) # ResultsOf(k)
      BY <3>5
    <3>7. Whole(k)
      BY <3>6 DEF AnswersOK, CutOff, AtWork
    <3> QED
      BY <1>1, <3>1, <3>6, <3>7
  <2> QED
    BY <2>1, <2>2
<1>5. ASSUME NEW k \in Asking, k # w
      PROVE  /\ IsInjective(history[k].calls)' /\ InOrder(ResultsOf(k), history[k].calls)'
             /\ Whole(k)' \/ CutOff(k)'
  <2>1. k \in DOMAIN history /\ history'[k] = history[k] /\ ResultsOf(k)' = ResultsOf(k)
    BY <1>1, <1>2, <1>4, <1>5
  <2>2. IsInjective(history[k].calls)' /\ InOrder(ResultsOf(k), history[k].calls)'
    BY <1>0, <2>1, OrderKept DEF AnswersOK
  <2>3. Whole(k) => Whole(k)'
    BY <2>1 DEF Whole
  <2>4. ~Whole(k) => CutOff(k) /\ history[k].turn # turn
    BY <1>4, <1>5 DEF AnswersOK, AtWork
  <2>5. ~Whole(k) => CutOff(k)'
    BY <1>1, <2>1, <2>4 DEF CutOff
  <2> QED
    BY <2>2, <2>3, <2>5
<1> DEFINE c == Cardinality(ResultsOf(w))
           calls == history[w].calls
<1>6. /\ w \in DOMAIN history /\ history[w].turn = turn /\ Behind(w) = ResultsOf(w)
      /\ Len(calls) = c + Len(todo) /\ \A i \in 1..Len(todo) : calls[c + i] = todo[i].id
  BY <1>2, <1>3 DEF AtWork
<1>7. /\ ResultsOf(w)' = ResultsOf(w) \cup {n} /\ Behind(w)' = Behind(w) \cup {n}
      /\ history'[w] = history[w]
  BY <1>1, <1>6
<1>8. /\ IsFiniteSet(ResultsOf(w)) /\ c \in Nat /\ ResultsOf(w) \subseteq w + 1..Len(history)
      /\ n \notin ResultsOf(w) /\ \A j \in ResultsOf(w) : j \in Nat /\ j < n
  <2>1. ResultsOf(w) \subseteq w + 1..Len(history) /\ IsFiniteSet(ResultsOf(w)) /\ c \in Nat
    BY <1>0, <1>6, ResultsFinite
  <2>2. w \in Nat /\ Len(history) \in Nat
    BY <1>0, <1>6
  <2> QED
    BY <2>1, <2>2
<1>9. Cardinality(ResultsOf(w)') = c + 1
  BY ZenonT(60), <1>7, <1>8, FS_AddElement
<1>10. /\ Len(todo) \in Nat \ {0} /\ Call = todo[1] /\ todo' \in Seq(CallSet)
       /\ Len(todo') = Len(todo) - 1 /\ \A i \in 1..Len(todo') : todo'[i] = todo[i + 1]
  BY <1>0, Shortened DEF Call
<1>11. calls \in Seq(Ids) /\ DOMAIN calls = 1..Len(calls)
  <2>1. history[w] \in Messages
    BY <1>0, <1>6
  <2> QED
    BY <2>1 DEF Messages
<1>12. InOrder(ResultsOf(w), history[w].calls)'
  <2>1. ASSUME NEW j \in ResultsOf(w) \cup {n}
        PROVE  LET a == Cardinality({i \in ResultsOf(w) \cup {n} : i <= j})
               IN a \in DOMAIN calls /\ history'[j].answers = calls[a]
    <3>1. CASE j = n
      <4>1. {i \in ResultsOf(w) \cup {n} : i <= j} = ResultsOf(w) \cup {n}
        BY <1>0, <1>8, <3>1
      <4>2. calls[c + 1] = Call.id /\ c + 1 \in 1..Len(calls)
        BY SMTT(60), <1>6, <1>8, <1>10
      <4> QED
        BY ZenonT(60), <1>1, <1>7, <1>9, <1>11, <3>1, <4>1, <4>2
    <3>2. CASE j \in ResultsOf(w)
      <4>1. {i \in ResultsOf(w) \cup {n} : i <= j} = {i \in ResultsOf(w) : i <= j}
        <5>1. ~(n <= j)
          BY <1>0, <1>8, <3>2
        <5> QED
          BY <5>1
      <4>2. history'[j] = history[j]
        <5>1. j \in DOMAIN history
          BY <1>0, <1>6, <1>8, <3>2
        <5> QED
          BY <1>1, <5>1
      <4>3. InOrder(ResultsOf(w), calls)
        BY DEF AnswersOK
      <4> QED
        BY <3>2, <4>1, <4>2, <4>3 DEF InOrder
    <3> QED
      BY <3>1, <3>2
  <2> QED
    BY <1>7, <2>1 DEF InOrder
<1>13. IsInjective(history[w].calls)'
  BY <1>7 DEF AnswersOK
<1>14. CASE Len(todo) = 1
  <2>1. Whole(w)'
    BY <1>6, <1>7, <1>8, <1>9, <1>14 DEF Whole
  <2> QED
    BY <1>2, <1>5, <1>12, <1>13, <1>14, <2>1 DEF AnswersOK
<1>15. CASE Len(todo) # 1
  <2>1. Len(calls) = (c + 1) + Len(todo')
    BY <1>6, <1>8, <1>10
  <2>2. \A i \in 1..Len(todo') : calls[(c + 1) + i] = todo'[i].id
    <3> SUFFICES ASSUME NEW i \in 1..Len(todo')
                 PROVE  calls[(c + 1) + i] = todo'[i].id
      OBVIOUS
    <3>1. i + 1 \in 1..Len(todo) /\ c + (i + 1) = (c + 1) + i
      BY <1>8, <1>10
    <3> QED
      BY SMTT(60), <1>6, <1>10, <3>1
  <2>3. AtWork(w)'
    BY <1>6, <1>7, <1>9, <1>15, <2>1, <2>2 DEF AtWork
  <2> QED
    BY <1>2, <1>5, <1>12, <1>13, <2>3 DEF AnswersOK
<1> QED
  BY <1>14, <1>15

\* Messages of image/generate, which belong to no Turn, change nothing.
LEMMA MessagesBeside ==
  ASSUME history \in Seq(Messages), NEW m1 \in Messages, NEW m2 \in Messages,
         m1.turn = 0, m2.turn = 0, history' = history \o <<m1, m2>>
  PROVE  /\ Asking' = Asking /\ Asking \subseteq 1..Len(history)
         /\ \A k \in Asking :
              history'[k] = history[k] /\ Behind(k)' = Behind(k) /\ ResultsOf(k)' = ResultsOf(k)
<1>1. /\ Len(history) \in Nat /\ DOMAIN history = 1..Len(history)
      /\ DOMAIN history' = 1..Len(history) + 2 /\ Len(history') = Len(history) + 2
      /\ history'[Len(history) + 1] = m1 /\ history'[Len(history) + 2] = m2
      /\ \A i \in 1..Len(history) : history'[i] = history[i]
  BY AppendedTwo
<1>2. Asking' = Asking /\ Asking \subseteq 1..Len(history)
  BY <1>1 DEF Asking
<1>3. ASSUME NEW k \in Asking
      PROVE  history'[k] = history[k] /\ Behind(k)' = Behind(k) /\ ResultsOf(k)' = ResultsOf(k)
  <2>1. k \in 1..Len(history) /\ history'[k] = history[k] /\ history[k].turn # 0
    BY <1>1, <1>2 DEF Asking
  <2>2. \A i \in k + 1..Len(history) + 2 :
          \/ i \in k + 1..Len(history) /\ history'[i] = history[i]
          \/ history'[i].turn = 0
    BY <1>1, <2>1
  <2>3. Behind(k)' = Behind(k)
    <3>1. Behind(k)' \subseteq Behind(k)
      BY <1>1, <2>1, <2>2 DEF Behind
    <3>2. Behind(k) \subseteq Behind(k)'
      BY <1>1, <2>1 DEF Behind
    <3> QED
      BY <3>1, <3>2
  <2>4. \A i \in Behind(k) : i \in 1..Len(history) /\ history'[i] = history[i]
    BY <1>1, <2>1 DEF Behind
  <2> QED
    BY <2>1, <2>3, <2>4 DEF ResultsOf
<1> QED
  BY <1>2, <1>3

LEMMA AnswersBeside ==
  ASSUME history \in Seq(Messages), AnswersOK, UNCHANGED <<turn, ended, pc, todo>>,
         NEW m1 \in Messages, NEW m2 \in Messages, m1.turn = 0, m2.turn = 0,
         history' = history \o <<m1, m2>>
  PROVE  AnswersOK'
<1>1. /\ Len(history) \in Nat /\ DOMAIN history = 1..Len(history)
      /\ DOMAIN history' = 1..Len(history) + 2 /\ Len(history') = Len(history) + 2
      /\ history'[Len(history) + 1] = m1 /\ history'[Len(history) + 2] = m2
      /\ \A i \in 1..Len(history) : history'[i] = history[i]
  BY AppendedTwo
<1>2. Asking' = Asking /\ Asking \subseteq 1..Len(history)
  BY MessagesBeside
<1>3. \A k \in Asking :
        history'[k] = history[k] /\ Behind(k)' = Behind(k) /\ ResultsOf(k)' = ResultsOf(k)
  BY MessagesBeside
<1>4. ASSUME NEW k \in Asking
      PROVE  /\ IsInjective(history[k].calls)' /\ InOrder(ResultsOf(k), history[k].calls)'
             /\ (Whole(k) => Whole(k)') /\ (CutOff(k) => CutOff(k)') /\ (AtWork(k) => AtWork(k)')
  <2>1. \A j \in ResultsOf(k) : history'[j] = history[j]
    <3>1. ResultsOf(k) \subseteq 1..Len(history)
      <4>1. k \in Nat /\ ResultsOf(k) \subseteq k + 1..Len(history)
        BY SMTT(60), <1>1, <1>2, ResultsFinite
      <4> QED
        BY <1>1, <4>1
    <3> QED
      BY <1>1, <3>1
  <2>2. InOrder(ResultsOf(k), history[k].calls)'
    BY ZenonT(60), <1>3, <2>1 DEF InOrder, AnswersOK
  <2> QED
    BY <1>3, <2>2 DEF AnswersOK, Whole, CutOff, AtWork
<1> QED
  BY <1>2, <1>4 DEF AnswersOK

-----------------------------------------------------------------------------
(***************************************************************************)
(* What is on record, and what a Turn may touch                            *)
(***************************************************************************)
LEMMA RecordKept ==
  ASSUME history \in Seq(Messages), NEW m \in Messages, history' = Append(history, m),
         m.turn # turn \/ m.role = "tool", turn' = turn
  PROVE  /\ \A id : Recorded(id) => Recorded(id)'
         /\ m.turn = turn /\ m.role = "tool" => Recorded(m.answers)'
<1>1. /\ Len(history) \in Nat /\ DOMAIN history = 1..Len(history) /\ Len(history') = Len(history) + 1
      /\ DOMAIN history' = 1..Len(history) + 1 /\ history'[Len(history) + 1] = m
      /\ \A i \in 1..Len(history) : history'[i] = history[i]
  BY Appended
<1>2. ASSUME NEW id, Recorded(id)
      PROVE  Recorded(id)'
  <2>1. PICK j \in DOMAIN history :
          /\ history[j].turn = turn /\ history[j].role = "tool" /\ history[j].answers = id
          /\ \A k \in j + 1..Len(history) : history[k].turn = turn => history[k].role = "tool"
    BY <1>2 DEF Recorded
  <2>2. \A k \in j + 1..Len(history') : history'[k].turn = turn => history'[k].role = "tool"
    <3> SUFFICES ASSUME NEW k \in j + 1..Len(history'), history'[k].turn = turn
                 PROVE  history'[k].role = "tool"
      OBVIOUS
    <3>1. (k \in j + 1..Len(history) /\ k \in 1..Len(history)) \/ k = Len(history) + 1
      BY <1>1, <2>1
    <3> QED
      BY <1>1, <2>1, <3>1
  <2>3. j \in DOMAIN history' /\ history'[j] = history[j]
    BY <1>1, <2>1
  <2> QED
    BY <2>1, <2>2, <2>3 DEF Recorded
<1>3. ASSUME m.turn = turn, m.role = "tool"
      PROVE  Recorded(m.answers)'
  <2>1. \A k \in (Len(history) + 1) + 1..Len(history') : FALSE
    BY <1>1
  <2>2. Len(history) + 1 \in DOMAIN history'
    BY <1>1
  <2> QED
    BY <1>1, <1>3, <2>1, <2>2 DEF Recorded
<1> QED
  BY <1>2, <1>3

LEMMA MaxOf ==
  ASSUME NEW n \in Nat, NEW S, S \subseteq 1..n, S # {}
  PROVE  Max(S) \in S /\ \A x \in S : x <= Max(S)
<1> DEFINE T == {n - x : x \in S}
<1>1. T \subseteq Nat /\ T # {}
  <2>1. \A x \in S : n - x \in Nat
    OBVIOUS
  <2>2. PICK x \in S : TRUE
    OBVIOUS
  <2>3. n - x \in T
    BY <2>2
  <2> QED
    BY <2>1, <2>3
<1>2. PICK y \in T : \A z \in T : y <= z
  <2> HIDE DEF T
  <2> QED
    BY <1>1, LeastOf
<1>3. \A z \in T : ~(z < y)
  <2> SUFFICES ASSUME NEW z \in T PROVE ~(z < y)
    OBVIOUS
  <2>1. y \in Nat /\ z \in Nat /\ y <= z
    BY <1>1, <1>2
  <2> QED
    BY <2>1
<1>4. PICK x \in S : y = n - x
  BY <1>2
<1>5. \A z \in S : x >= z
  <2>1. \A z \in S : ~(n - z < n - x)
    BY <1>3, <1>4
  <2> QED
    BY <2>1
<1> QED
  BY <1>5 DEF Max

\* The last reference to the Project is what Access tells.
LEMMA LastReference ==
  ASSUME NEW h \in Seq(Messages), Access(h) = "read_write"
  PROVE  \E k \in DOMAIN h : /\ h[k].access = "read_write"
                             /\ \A j \in k + 1..Len(h) : h[j].access = "none"
<1> DEFINE at == {k \in DOMAIN h : h[k].access # "none"}
<1>1. at # {} /\ h[Max(at)].access = "read_write"
  BY DEF Access
<1>2. Len(h) \in Nat /\ DOMAIN h = 1..Len(h) /\ at \subseteq 1..Len(h)
  OBVIOUS
<1>3. Max(at) \in at /\ \A x \in at : x <= Max(at)
  <2> HIDE DEF at
  <2> QED
    BY <1>1, <1>2, MaxOf
<1>4. ASSUME NEW j \in Max(at) + 1..Len(h)
      PROVE  h[j].access = "none"
  <2>1. Max(at) \in 1..Len(h)
    BY <1>2, <1>3
  <2>2. j \in 1..Len(h) /\ ~(j <= Max(at))
    BY <1>2, <2>1
  <2> QED
    BY <1>2, <1>3, <2>2
<1> QED
  BY <1>1, <1>3, <1>4

\* A step that starts no tool and adds no reference.
LEMMA PermissionsKept ==
  ASSUME history \in Seq(Messages), history' \in Seq(Messages),
         Len(history) <= Len(history'),
         \A k \in DOMAIN history : history'[k] = history[k],
         \A k \in Len(history) + 1..Len(history') : history'[k].access = "none",
         mode' = mode, ran' = ran, approved \subseteq approved', NothingRunsUnallowed
  PROVE  NothingRunsUnallowed'
<1>1. /\ Len(history) \in Nat /\ Len(history') \in Nat /\ DOMAIN history = 1..Len(history)
      /\ DOMAIN history' = 1..Len(history')
  OBVIOUS
<1>2. ASSUME NEW k \in DOMAIN history, history[k].access = "read_write",
             \A j \in k + 1..Len(history) : history[j].access = "none"
      PROVE  /\ k \in DOMAIN history' /\ history'[k].access = "read_write"
             /\ \A j \in k + 1..Len(history') : history'[j].access = "none"
  <2>1. \A j \in k + 1..Len(history') :
          \/ j \in k + 1..Len(history) /\ j \in DOMAIN history
          \/ j \in Len(history) + 1..Len(history')
    BY <1>1
  <2> QED
    BY SMTT(60), <1>1, <1>2, <2>1
<1>3. (\E k \in DOMAIN history :
         /\ history[k].access = "read_write"
         /\ \A j \in k + 1..Len(history) : history[j].access = "none")
      => \E k \in DOMAIN history' :
           /\ history'[k].access = "read_write"
           /\ \A j \in k + 1..Len(history') : history'[j].access = "none"
  BY <1>2
<1> QED
  BY <1>3 DEF NothingRunsUnallowed, Outward

LEMMA NothingRan == ran' = {} => NothingRunsUnallowed' /\ RecordsOK'
BY DEF NothingRunsUnallowed, RecordsOK

-----------------------------------------------------------------------------
(***************************************************************************)
(* Steps                                                                   *)
(***************************************************************************)
LEMMA TurnIdsAre == TurnIds = 1..Len(Requests) /\ Len(Requests) \in Nat /\ TurnIds \subseteq Nat
BY LoopAssumption DEF TurnIds

LEMMA ClosedOK ==
  stream' = Closed => /\ stream.state' = "closed"
                      /\ pc' # "persist" => StreamOK'
<1>1. /\ Closed.state = "closed" /\ Closed.finish = "none" /\ Closed.text = FALSE
      /\ Closed.content.text = FALSE /\ Closed.answer \in Answers \cup {Nothing}
      /\ Closed = [state |-> Closed.state, adapter |-> Closed.adapter, answer |-> Closed.answer,
                   frames |-> Closed.frames, at |-> Closed.at, text |-> Closed.text,
                   functions |-> Closed.functions, completed |-> Closed.completed,
                   content |-> Closed.content, finish |-> Closed.finish]
  BY DEF Closed, Nothing
<1> HIDE DEF Closed
<1> SUFFICES ASSUME stream' = Closed, pc' # "persist" PROVE StreamOK'
  BY <1>1
<1>2. stream' = [state |-> "closed", adapter |-> Closed.adapter, answer |-> Closed.answer,
                 frames |-> Closed.frames, at |-> Closed.at, text |-> Closed.text,
                 functions |-> Closed.functions, completed |-> Closed.completed,
                 content |-> Closed.content, finish |-> Closed.finish]
  BY <1>1
<1>3. stream' \in [state : {"closed", "open", "failed", "answered"}, adapter : {stream'.adapter},
                   answer : Answers \cup {Nothing}, frames : {stream'.frames}, at : {stream'.at},
                   text : {stream'.text}, functions : {stream'.functions},
                   completed : {stream'.completed}, content : {stream'.content},
                   finish : {stream'.finish}]
  BY <1>1, <1>2
<1>4. stream'.text \in BOOLEAN /\ stream'.content.text \in BOOLEAN
  <2>1. stream'.text = FALSE /\ stream'.content.text = FALSE
    BY <1>1
  <2> QED
    BY <2>1
<1>5. stream'.finish = "none" /\ stream'.state = "closed"
  BY <1>1
<1> QED
  BY <1>3, <1>4, <1>5 DEF StreamOK

LEMMA StreamSame ==
  StreamOK /\ stream' = stream /\ (pc' = "persist" => pc = "persist") => StreamOK'
BY DEF StreamOK, Valid

LEMMA InitInv == Init => Inv
<1> SUFFICES ASSUME Init PROVE Inv
  OBVIOUS
<1>1. /\ history = <<>> /\ DOMAIN history = {} /\ Len(history) = 0 /\ history \in Seq(Messages)
      /\ todo \in Seq(CallSet)
  BY DEF Init
<1>2. StreamOK
  BY DEF Init, Closed, Nothing, StreamOK
<1>3. TypeOK
  <2>1. 0 \in 0..MaxSteps /\ 0 \in 0..MaxFaults
    BY LoopAssumption
  <2>2. \A t \in TurnIds : ended[t] = "no" /\ t > 0
    BY TurnIdsAre DEF Init
  <2>3. Types
    BY <2>1, <2>2 DEF Init, Types
  <2> QED
    BY <2>2, <2>3 DEF Init, TypeOK, Closed
<1>4. DataOK
  BY <1>1 DEF Init, DataOK, NothingSent
<1>5. PlacesOK /\ PermittedOK /\ RecordsOK
  BY DEF Init, PlacesOK, PermittedOK, NothingRunsUnallowed, RecordsOK
<1>6. AnswersOK
  BY <1>1 DEF Init, AnswersOK, Asking, Working
<1> QED
  BY <1>2, <1>3, <1>4, <1>5, <1>6 DEF Inv

\* The end of a Turn resets all that belongs to it.
LEMMA EndResets ==
  ASSUME Inv, pc # "idle", NEW status \in {"completed", "cancelled", "failed"}, End(status),
         UNCHANGED <<turn, direct>>, faults' \in 0..MaxFaults, ~group'
  PROVE  /\ TypeOK' /\ StreamOK' /\ PlacesOK' /\ PermittedOK' /\ RecordsOK'
         /\ sent' = NothingSent /\ todo' = <<>> /\ pc' \notin Working
         /\ DOMAIN ended' = TurnIds /\ ended'[turn] = status
         /\ \A t : t # turn => ended'[t] = ended[t]
<1>1. turn \in TurnIds /\ DataOK /\ TypeOK
  BY DEF Inv, PlacesOK
<1>2. /\ ended'[turn] = status /\ DOMAIN ended' = TurnIds
      /\ \A t \in TurnIds : t # turn => ended'[t] = ended[t]
  BY <1>1 DEF End, DataOK
<1>3. stream' = Closed /\ stream.state' = "closed" /\ StreamOK'
  BY ClosedOK DEF End, CloseStream
<1>4. TypeOK'
  <2>1. Types'
    <3>1. 0 \in 0..MaxSteps
      BY LoopAssumption
    <3>2. \A t \in TurnIds : ended'[t] \in {"no", "completed", "failed", "cancelled"}
      BY <1>1, <1>2 DEF TypeOK, Types
    <3>3. turn' \in TurnIds \cup {0} /\ direct' \in {"none", "generating", "done"}
      BY <1>1 DEF TypeOK, Types
    <3> QED
      BY <3>1, <3>2, <3>3 DEF Types, End
  <2>2. \A t \in TurnIds : ended'[t] = "no" <=> t > turn \/ (t = turn /\ pc' # "idle")
    BY <1>1, <1>2, TurnIdsAre DEF TypeOK, End
  <2> QED
    BY <1>3, <2>1, <2>2 DEF TypeOK, End
<1>5. PlacesOK' /\ ran' = {}
  BY DEF PlacesOK, End
<1>6. PermittedOK' /\ RecordsOK'
  BY <1>5, NothingRan DEF PermittedOK, End
<1>7. \A t : t # turn => ended'[t] = ended[t]
  BY <1>1 DEF End, DataOK
<1>8. sent' = NothingSent /\ todo' = <<>> /\ pc' \notin Working
  BY DEF End, Working
<1> QED
  BY <1>2, <1>3, <1>4, <1>5, <1>6, <1>7, <1>8

\* However a Turn is cut off, nothing of it is left at work.
LEMMA EndKeeps ==
  ASSUME Inv, pc # "idle", NEW status \in {"cancelled", "failed"}, End(status),
         UNCHANGED <<history, turn, direct>>, faults' \in 0..MaxFaults, ~group'
  PROVE  Inv'
<1>1. turn \in TurnIds /\ DataOK /\ AnswersOK
  BY DEF Inv, PlacesOK
<1>2. /\ TypeOK' /\ StreamOK' /\ PlacesOK' /\ PermittedOK' /\ RecordsOK'
      /\ sent' = NothingSent /\ todo' = <<>> /\ DOMAIN ended' = TurnIds
  BY EndResets
<1>3. DataOK'
  BY <1>1, <1>2 DEF DataOK, NothingSent
<1>4. AnswersOK'
  BY <1>1, AnswersCutOff
<1> QED
  BY <1>2, <1>3, <1>4 DEF Inv

LEMMA CuttingOffKeeps ==
  ASSUME Inv,
         Fail \/ StepLimitReached \/ CancelSeen \/ RefuseAnswer \/ UnknownTool \/ ToolCancelled
           \/ ShellCancelled
  PROVE  Inv'
<1>1. TypeOK /\ faults \in 0..MaxFaults /\ MaxFaults \in Nat
  BY LoopAssumption DEF Inv, TypeOK, Types
<1>2. CASE Fail
  BY <1>1, <1>2, EndKeeps DEF Fail, TypeOK
<1>3. CASE StepLimitReached
  BY <1>1, <1>3, EndKeeps DEF StepLimitReached, TypeOK
<1>4. CASE CancelSeen
  BY <1>1, <1>4, EndKeeps DEF CancelSeen, TypeOK
<1>5. CASE RefuseAnswer
  BY <1>1, <1>5, EndKeeps DEF RefuseAnswer, TypeOK
<1>6. CASE UnknownTool
  BY <1>1, <1>6, EndKeeps DEF UnknownTool, TypeOK
<1>7. CASE ToolCancelled
  BY <1>1, <1>7, EndKeeps DEF ToolCancelled, TypeOK
<1>8. CASE ShellCancelled
  BY <1>1, <1>8, EndKeeps DEF ShellCancelled
<1> QED
  BY <1>2, <1>3, <1>4, <1>5, <1>6, <1>7, <1>8

\* One event of the service.
LEMMA StreamStepKeeps ==
  ASSUME StreamOK, StreamStep, pc' # "persist"
  PROVE  StreamOK' /\ stream.state' # "closed" /\ stream.state = "open"
<1> DEFINE Shape(s) == /\ s \in [state : {s.state}, adapter : {s.adapter}, answer : {s.answer},
                                 frames : {s.frames}, at : {s.at}, text : {s.text},
                                 functions : {s.functions}, completed : {s.completed},
                                 content : {s.content}, finish : {s.finish}]
                       /\ s.state \in {"closed", "open", "failed", "answered"}
                       /\ s.answer \in Answers \cup {Nothing}
                       /\ s.text \in BOOLEAN /\ s.content.text \in BOOLEAN
<1>1. Shape(stream)
  BY DEF StreamOK
<1>2. ASSUME Shape(stream'), stream.finish' = "tool_calls" => stream.content.calls' \in Seq(ModelCalls),
             stream.state' = "open" /\ stream.finish' = "tool_calls" => stream.content.calls' # <<>>
      PROVE  StreamOK'
  BY <1>2 DEF StreamOK
<1>3. ASSUME stream.state = "open", NEW at, NEW text \in BOOLEAN, NEW functions,
             stream' = [stream EXCEPT !.at = at, !.text = text, !.functions = functions]
      PROVE  StreamOK' /\ stream.state' # "closed"
  <2>1. /\ Shape(stream') /\ stream.state' = "open" /\ stream.finish' = stream.finish
        /\ stream.content' = stream.content
    BY <1>1, <1>3
  <2> QED
    BY <1>2, <1>3, <2>1 DEF StreamOK
<1>4. ASSUME NEW state \in {"failed", "answered"}, NEW content, NEW finish,
             stream' = Over(state, content, finish), content.text \in BOOLEAN,
             finish = "tool_calls" => content.calls \in Seq(ModelCalls)
      PROVE  StreamOK' /\ stream.state' # "closed"
  <2>1. /\ Shape(stream') /\ stream.state' = state /\ stream.finish' = finish
        /\ stream.content' = content
    BY <1>4 DEF Over, Closed
  <2> QED
    BY <1>2, <1>4, <2>1
<1>5. ASSUME stream.state = "open", NEW content, NEW finish,
             stream' = [stream EXCEPT !.completed = TRUE, !.content = content, !.finish = finish],
             content.text \in BOOLEAN,
             finish = "tool_calls" => content.calls \in Seq(ModelCalls) /\ content.calls # <<>>
      PROVE  StreamOK' /\ stream.state' # "closed"
  <2>1. /\ Shape(stream') /\ stream.state' = "open" /\ stream.finish' = finish
        /\ stream.content' = content
    BY <1>1, <1>5
  <2> QED
    BY <1>2, <1>5, <2>1
<1>0. \A at, functions :
        /\ [stream EXCEPT !.at = at, !.text = TRUE]
             = [stream EXCEPT !.at = at, !.text = TRUE, !.functions = stream.functions]
        /\ [stream EXCEPT !.at = at, !.functions = functions]
             = [stream EXCEPT !.at = at, !.text = stream.text, !.functions = functions]
  BY ZenonT(60), <1>1
<1>6. /\ stream.answer \in Answers \cup {Nothing} /\ Nothing \in Answers \cup {Nothing}
      /\ stream.text \in BOOLEAN /\ stream.content.text \in BOOLEAN /\ Nothing.text \in BOOLEAN
  BY <1>1 DEF Nothing
<1> HIDE DEF Shape
<1>7. CASE TextDelta \/ ItemAdded \/ ArgumentsDelta
  <2>1. stream.state = "open"
    BY <1>7 DEF TextDelta, ItemAdded, ArgumentsDelta, NextFrame, Streaming
  <2>2. \E at, functions : \E text \in BOOLEAN :
          stream' = [stream EXCEPT !.at = at, !.text = text, !.functions = functions]
    <3>1. CASE TextDelta
      <4>1. stream' = [stream EXCEPT !.at = stream.at + 1, !.text = TRUE, !.functions = stream.functions]
        BY <1>0, <3>1 DEF TextDelta
      <4> QED
        BY ZenonT(60), <4>1
    <3>2. CASE ItemAdded
      <4>1. \E functions : stream' = [stream EXCEPT !.at = stream.at + 1, !.text = stream.text,
                                                    !.functions = functions]
        BY <1>0, <3>2 DEF ItemAdded
      <4>2. PICK text \in BOOLEAN : text = stream.text
        BY <1>6
      <4>3. \E functions : stream' = [stream EXCEPT !.at = stream.at + 1, !.text = text,
                                                    !.functions = functions]
        BY <4>1, <4>2
      <4> QED
        BY ZenonT(60), <4>3
    <3>3. CASE ArgumentsDelta
      <4>1. \E functions : stream' = [stream EXCEPT !.at = stream.at + 1, !.text = stream.text,
                                                    !.functions = functions]
        BY ZenonT(60), <1>0, <3>3 DEF ArgumentsDelta
      <4>2. PICK text \in BOOLEAN : text = stream.text
        BY <1>6
      <4>3. \E functions : stream' = [stream EXCEPT !.at = stream.at + 1, !.text = text,
                                                    !.functions = functions]
        BY <4>1, <4>2
      <4> QED
        BY ZenonT(60), <4>3
    <3> QED
      BY <1>7, <3>1, <3>2, <3>3
  <2> QED
    BY <1>3, <2>1, <2>2
<1>8. CASE ArgumentsDone
  <2>1. stream.state = "open"
    BY <1>8 DEF ArgumentsDone, NextFrame, Streaming
  <2>2. \/ stream' = Over("failed", Nothing, "none")
        \/ \E functions : stream' = [stream EXCEPT !.at = stream.at + 1, !.functions = functions]
    BY <1>8 DEF ArgumentsDone
  <2>3. CASE stream' = Over("failed", Nothing, "none")
    BY SMTT(60), <1>4, <1>6, <2>1, <2>3
  <2>4. CASE \E functions : stream' = [stream EXCEPT !.at = stream.at + 1, !.functions = functions]
    <3>1. \E at, functions : \E text \in BOOLEAN :
            stream' = [stream EXCEPT !.at = at, !.text = text, !.functions = functions]
      <4>1. \E functions : stream' = [stream EXCEPT !.at = stream.at + 1, !.text = stream.text,
                                                    !.functions = functions]
        BY ZenonT(60), <1>0, <2>4
      <4>2. PICK text \in BOOLEAN : text = stream.text
        BY <1>6
      <4>3. \E functions : stream' = [stream EXCEPT !.at = stream.at + 1, !.text = text,
                                                    !.functions = functions]
        BY <4>1, <4>2
      <4> QED
        BY ZenonT(60), <4>3
    <3> QED
      BY <1>3, <2>1, <3>1
  <2> QED
    BY <2>2, <2>3, <2>4
<1>9. ASSUME NEW output, Completed(output) \/ Incomplete(output)
      PROVE  StreamOK' /\ stream.state' # "closed" /\ stream.state = "open"
  <2>1. stream.state = "open"
    BY <1>9 DEF Completed, Incomplete, Streaming
  <2>2. CASE Completed(output)
    <3>1. output.calls \in Seq(ModelCalls) /\ output.text \in BOOLEAN
      BY <1>6, <2>2, AnswersTyped DEF Completed
    <3>2. stream' = [stream EXCEPT !.completed = TRUE, !.content = output,
                                   !.finish = Inferred(output)]
      BY <2>2 DEF Completed
    <3>3. Inferred(output) = "tool_calls" => output.calls # <<>>
      BY DEF Inferred
    <3> QED
      BY <1>5, <2>1, <3>1, <3>2, <3>3
  <2>3. CASE Incomplete(output)
    <3>1. stream' = [stream EXCEPT !.completed = TRUE, !.content = output, !.finish = "length"]
      BY <2>3 DEF Incomplete
    <3>2. output.text \in BOOLEAN
      <4>1. output = stream.answer \/ output = [stream.answer EXCEPT !.calls = <<>>] \/ output = Nothing
        BY <2>3 DEF Incomplete
      <4>2. stream.answer.text \in BOOLEAN
        BY <1>6, AnswersTyped
      <4>3. [stream.answer EXCEPT !.calls = <<>>].text = stream.answer.text
        OBVIOUS
      <4> QED
        BY <1>6, <4>1, <4>2, <4>3
    <3> QED
      BY <1>5, <2>1, <3>1, <3>2
  <2> QED
    BY <1>9, <2>2, <2>3
<1>10. CASE StreamFails
  BY <1>4, <1>6, <1>10 DEF StreamFails
<1>11. CASE EndOfStream
  <2>1. CASE stream' = Over("failed", Nothing, "none")
    BY <1>4, <1>6, <1>11, <2>1 DEF EndOfStream
  <2>2. CASE stream' # Over("failed", Nothing, "none")
    <3>1. stream.state = "open"
      BY <1>11 DEF EndOfStream
    <3>2. CASE stream.content = Nothing
      <4>1. stream' = Over("answered", Accumulated, stream.finish)
        BY <1>11, <2>2, <3>2 DEF EndOfStream
      <4>2. stream.finish # "tool_calls"
        BY <3>1, <3>2 DEF StreamOK, Nothing
      <4>3. Accumulated.text \in BOOLEAN
        BY <1>6 DEF Accumulated
      <4> QED
        BY <1>4, <3>1, <4>1, <4>2, <4>3
    <3>3. CASE stream.content # Nothing
      <4>1. stream' = Over("answered", stream.content, stream.finish)
        BY <1>11, <2>2, <3>3 DEF EndOfStream
      <4>2. stream.finish = "tool_calls" => stream.content.calls \in Seq(ModelCalls)
        BY DEF StreamOK
      <4> QED
        BY <1>4, <1>6, <3>1, <4>1, <4>2
    <3> QED
      BY <3>2, <3>3
  <2> QED
    BY <2>1, <2>2
<1>12. ASSUME NEW finish, ChatReply(finish)
       PROVE  StreamOK' /\ stream.state' # "closed" /\ stream.state = "open"
  <2>1. stream.state = "open" /\ \E f : stream' = Over("answered", stream.answer, f)
    BY <1>12 DEF ChatReply
  <2>2. stream.answer.calls \in Seq(ModelCalls) /\ stream.answer.text \in BOOLEAN
    BY <1>6, AnswersTyped
  <2> QED
    BY <1>4, <2>1, <2>2
<1> QED
  BY <1>7, <1>8, <1>9, <1>10, <1>11, <1>12 DEF StreamStep

\* The loop waits, asks or starts a tool, and the history stays as it is.
LEMMA QuietKeeps ==
  ASSUME Inv, Cancel \/ DirectBegins \/ AskApproval \/ AllowCall
                \/ (\E decision \in {"approved", "denied"} : Respond(decision))
                \/ ApprovalGranted \/ ToolEnters
                \/ ToolStarts
  PROVE  Inv'
<1>0. /\ DataOK /\ AnswersOK /\ TypeOK /\ StreamOK /\ PlacesOK /\ PermittedOK /\ RecordsOK
      /\ history \in Seq(Messages)
  BY DEF Inv, DataOK
<1>1. /\ UNCHANGED <<stream, history, turn, ended, todo, sent, mode, provider, step, faults>>
      /\ pc' \in Working <=> pc \in Working
      /\ pc' # "idle" <=> pc # "idle"
      /\ pc' = "persist" => pc = "persist"
      /\ pc' = "backend" => pc = "backend"
  BY DEF Cancel, DirectBegins, AskApproval, AllowCall, Respond, ApprovalGranted,
     ToolEnters, ToolStarts, Working, loop
<1>2. AnswersOK'
  BY <1>0, <1>1, AnswersSame
<1>3. DataOK' /\ StreamOK'
  BY <1>0, <1>1, StreamSame DEF DataOK
<1>4. TypeOK'
  <2>1. Types'
    <3>1. Types
      BY <1>0 DEF TypeOK
    <3>2. /\ cancelled' \in {cancelled, TRUE} /\ direct' \in {direct, "generating"}
          /\ verdict' \in {verdict, "waiting", "approved", "denied", "none"}
          /\ pc' \in {pc, "approval", "execute", "entered", "running"}
      BY DEF Cancel, DirectBegins, AskApproval, AllowCall, Respond, ApprovalGranted,
         ToolEnters, ToolStarts
    <3>3. cancelled' \in BOOLEAN
      BY <3>1, <3>2 DEF Types
    <3>4. \A t \in TurnIds : ended'[t] \in {"no", "completed", "failed", "cancelled"}
      BY <1>1, <3>1 DEF Types
    <3> QED
      BY <1>1, <3>1, <3>2, <3>3, <3>4 DEF Types
  <2>2. /\ pc' \in {"model", "persist"} <=> pc \in {"model", "persist"}
        /\ pc' = "idle" <=> pc = "idle"
        /\ pc' \in {"call", "approval", "execute", "entered", "running", "activity"}
             => pc \in {"call", "approval", "execute", "entered", "running", "activity"}
    BY DEF Cancel, DirectBegins, AskApproval, AllowCall, Respond, ApprovalGranted,
       ToolEnters, ToolStarts
  <2>3. group' => pc' = "running" /\ Call'.tool = "shell"
    BY <1>0 DEF TypeOK, Call, Cancel, DirectBegins, AskApproval, AllowCall, Respond,
                ApprovalGranted, ToolEnters, ToolStarts
  <2> QED
    BY <1>0, <1>1, <2>1, <2>2, <2>3 DEF TypeOK
<1>5. PlacesOK'
  <2>1. ran' = {} \/ (ran' = ran /\ pc' = pc) \/ pc' \in {"approval", "execute", "entered", "running"}
    BY DEF Cancel, DirectBegins, AskApproval, AllowCall, Respond, ApprovalGranted,
       ToolEnters, ToolStarts
  <2>2. verdict' = "interrupted" => pc' \in {"activity", "report"}
    BY <1>0 DEF PlacesOK, Cancel, DirectBegins, AskApproval, AllowCall, Respond,
       ApprovalGranted, ToolEnters, ToolStarts
  <2> QED
    BY <1>0, <1>1, <2>1, <2>2 DEF PlacesOK
<1>6. CASE ToolStarts
  <2>1. /\ pc = "entered" /\ pc' = "running" /\ ran' = ran \cup {Call} /\ Call' = Call
        /\ approved' = approved /\ Selectable(Call, Granted)
    BY <1>6 DEF ToolStarts, Call
  <2>2. /\ Call.tool \in DOMAIN Tools /\ ~Forbidden(Call.tool)
        /\ NeedsApproval(Call.tool) => Call.id \in approved
    BY <1>0, <2>1 DEF PermittedOK
  <2>3. ASSUME Call.project, Tools[Call.tool].writes
        PROVE  \E k \in DOMAIN history : /\ history[k].access = "read_write"
                                         /\ \A j \in k + 1..Len(history) : history[j].access = "none"
    <3> DEFINE h == SubSeq(history, 1, sent.to)
    <3>1. sent.to \in 0..Len(history) /\ Len(history) \in Nat /\ DOMAIN history = 1..Len(history)
      BY <1>0 DEF DataOK
    <3>2. /\ h \in Seq(Messages) /\ Len(h) = sent.to /\ DOMAIN h = 1..sent.to
          /\ \A i \in 1..sent.to : h[i] = history[i]
      BY <1>0, <3>1
    <3>3. Access(h) = "read_write"
      BY <2>1, <2>3 DEF Selectable, Granted
    <3> HIDE DEF h
    <3>4. PICK k \in DOMAIN h : /\ h[k].access = "read_write"
                                /\ \A j \in k + 1..Len(h) : h[j].access = "none"
      BY <3>2, <3>3, LastReference
    <3>5. \A j \in sent.to + 1..Len(history) : history[j].access = "none"
      BY <1>0, <2>1 DEF PermittedOK
    <3>6. k \in DOMAIN history /\ history[k].access = "read_write"
      BY <3>1, <3>2, <3>4
    <3>7. ASSUME NEW j \in k + 1..Len(history)
          PROVE  history[j].access = "none"
      <4>1. CASE j \in sent.to + 1..Len(history)
        BY <3>5, <4>1
      <4>2. CASE j \notin sent.to + 1..Len(history)
        <5>1. j \in k + 1..Len(h) /\ j \in 1..sent.to
          BY <3>1, <3>2, <3>4, <3>7, <4>2
        <5> QED
          BY <3>2, <3>4, <5>1
      <4> QED
        BY <4>1, <4>2
    <3> QED
      BY <3>6, <3>7
  <2>4. NothingRunsUnallowed'
    <3>1. NothingRunsUnallowed
      BY <1>0 DEF PermittedOK
    <3> QED
      BY <1>1, <2>1, <2>2, <2>3, <3>1 DEF NothingRunsUnallowed, Forbidden, NeedsApproval
  <2>5. PermittedOK'
    BY <1>0, <1>1, <2>1, <2>2, <2>4 DEF PermittedOK, Forbidden, NeedsApproval
  <2>6. RecordsOK'
    BY <1>0, <1>1, <2>1 DEF RecordsOK, Recorded
  <2> QED
    BY <1>2, <1>3, <1>4, <1>5, <2>5, <2>6 DEF Inv
<1>7. CASE ~ToolStarts
  <2>1. /\ ran' = ran /\ Call' = Call /\ approved \subseteq approved'
        /\ (pc' = "running" <=> pc = "running")
    BY <1>7 DEF Cancel, DirectBegins, AskApproval, AllowCall, Respond, ApprovalGranted,
                ToolEnters, Call
  <2>2. NothingRunsUnallowed'
    BY <1>0, <1>1, <2>1 DEF PermittedOK, NothingRunsUnallowed
  <2>3. RecordsOK'
    BY <1>0, <1>1, <2>1 DEF RecordsOK, Recorded
  <2>4. PermittedOK'
    <3>1. /\ pc' \in {"approval", "execute", "entered", "running"} =>
               Call.tool \in DOMAIN Tools /\ ~Forbidden(Call.tool)
          /\ pc' \in {"execute", "entered", "running"} /\ NeedsApproval(Call.tool) => Call.id \in approved'
          /\ pc' = "approval" /\ verdict' = "approved" => Call.id \in approved'
      BY <1>0, <1>7 DEF PermittedOK, Cancel, DirectBegins, AskApproval, AllowCall,
         Respond, ApprovalGranted, ToolEnters
    <3>2. pc' \in {"model", "persist", "call", "approval", "execute", "entered", "running"} =>
            pc \in {"model", "persist", "call", "approval", "execute", "entered", "running"}
      BY <1>7 DEF Cancel, DirectBegins, AskApproval, AllowCall, Respond, ApprovalGranted,
                  ToolEnters
    <3> QED
      BY <1>0, <1>1, <2>1, <2>2, <3>1, <3>2 DEF PermittedOK, Forbidden, NeedsApproval
  <2> QED
    BY <1>2, <1>3, <1>4, <1>5, <2>3, <2>4 DEF Inv
<1> QED
  BY <1>6, <1>7

\* The request of a step and its answer.
LEMMA RequestKeeps ==
  ASSUME Inv, StartStep \/ Receive \/ TakeAnswer
  PROVE  Inv'
<1>0. /\ DataOK /\ AnswersOK /\ TypeOK /\ StreamOK /\ PlacesOK /\ PermittedOK /\ RecordsOK
      /\ history \in Seq(Messages) /\ Len(history) \in Nat
  BY DEF Inv, DataOK
<1>1. /\ UNCHANGED <<history, turn, ended, todo, mode, provider, cancelled, verdict, direct, group,
                     faults>>
      /\ pc \notin Working /\ pc' \notin Working /\ pc \notin {"idle", "persist", "backend"}
      /\ pc' \in {"model", "persist"}
  BY DEF StartStep, Receive, TakeAnswer, Working, loop
<1>2. AnswersOK'
  BY <1>0, <1>1, AnswersSame
<1>3. StreamOK' /\ stream.state' # "closed"
  <2>1. CASE StartStep
    <3>1. PICK answer, frames :
            /\ answer \in Answers
            /\ stream' = [Closed EXCEPT !.state = "open", !.adapter = provider, !.answer = answer,
                                        !.frames = frames]
      BY <2>1 DEF StartStep, OpenStream
    <3> QED
      BY ZenonT(60), <1>1, <2>1, <3>1 DEF StreamOK, Closed, Nothing, StartStep
  <2>2. CASE Receive
    BY <1>0, <2>2, StreamStepKeeps DEF Receive
  <2>3. CASE TakeAnswer
    BY <1>0, <2>3 DEF TakeAnswer, StreamOK, Valid
  <2> QED
    BY <2>1, <2>2, <2>3
<1>4. CASE StartStep
  <2>1. /\ pc = "step" /\ pc' = "model" /\ ran' = {} /\ sent' = Context(history) /\ step < MaxSteps
        /\ step' = step + 1
    BY <1>4 DEF StartStep
  <2>2. DataOK'
    <3>1. sent' \in [from : {sent'.from}, to : 0..Len(history)] /\ sent'.to = Len(history)
      BY <1>0, <2>1 DEF Context
    <3> QED
      BY <1>0, <1>1, <3>1 DEF DataOK
  <2>3. sent'.to = Len(history)
    BY <2>1 DEF Context
  <2>4. TypeOK'
    <3>1. step' \in 0..MaxSteps
      BY <1>0, <2>1, LoopAssumption DEF TypeOK, Types
    <3>2. Types'
      BY <1>0, <1>1, <2>1, <3>1 DEF TypeOK, Types
    <3> QED
      BY <1>0, <1>1, <1>3, <2>1, <3>2 DEF TypeOK
  <2>5. PlacesOK'
    BY <1>0, <1>1, <2>1 DEF PlacesOK
  <2>6. PermittedOK' /\ RecordsOK'
    <3>1. \A k \in sent'.to + 1..Len(history) : FALSE
      BY <1>0, <2>3
    <3> QED
      BY <1>1, <2>1, <3>1, NothingRan DEF PermittedOK
  <2> QED
    BY <1>2, <1>3, <2>2, <2>4, <2>5, <2>6 DEF Inv
<1>5. CASE Receive \/ TakeAnswer
  <2>1. UNCHANGED <<sent, ran, approved, step>> /\ pc = "model"
    BY <1>5 DEF Receive, TakeAnswer, loop
  <2>2. DataOK' /\ PlacesOK'
    BY <1>0, <1>1, <2>1 DEF DataOK, PlacesOK
  <2>3. TypeOK'
    <3>1. Types'
      BY <1>0, <1>1, <2>1 DEF TypeOK, Types
    <3> QED
      BY <1>0, <1>1, <1>3, <2>1, <3>1 DEF TypeOK
  <2>4. PermittedOK' /\ RecordsOK'
    <3>1. ran' = {}
      BY <1>0, <2>1 DEF PlacesOK
    <3> QED
      BY <1>0, <1>1, <2>1, <3>1, NothingRan DEF PermittedOK
  <2> QED
    BY <1>2, <1>3, <2>2, <2>3, <2>4 DEF Inv
<1> QED
  BY <1>4, <1>5

\* What a new message leaves true of the data and of what tools may do.
LEMMA MessageKeeps ==
  ASSUME DataOK, TypeOK, PermittedOK, NEW m \in Messages, history' = Append(history, m),
         m.turn <= turn', turn <= turn', turn \in Nat, turn' \in Nat, todo' \in Seq(CallSet),
         DOMAIN ended' = TurnIds
  PROVE  /\ sent' = sent => DataOK'
         /\ sent' = NothingSent => DataOK'
         /\ m.access = "none" /\ mode' = mode /\ ran' = ran /\ approved' = approved
              => NothingRunsUnallowed'
         /\ m.access = "none" /\ sent' = sent
              /\ (\A k \in sent.to + 1..Len(history) : history[k].access = "none")
              => \A k \in sent'.to + 1..Len(history') : history'[k].access = "none"
<1>0. history \in Seq(Messages)
  BY DEF DataOK
<1>1. /\ Len(history) \in Nat /\ DOMAIN history = 1..Len(history)
      /\ history' \in Seq(Messages) /\ Len(history') = Len(history) + 1
      /\ DOMAIN history' = 1..Len(history) + 1 /\ history'[Len(history) + 1] = m
      /\ \A i \in 1..Len(history) : history'[i] = history[i]
  BY <1>0, Appended
<1>2. \A k \in DOMAIN history' : history'[k].turn <= turn'
  <2> SUFFICES ASSUME NEW k \in DOMAIN history' PROVE history'[k].turn <= turn'
    OBVIOUS
  <2>1. CASE k = Len(history) + 1
    BY <1>1, <2>1
  <2>2. CASE k # Len(history) + 1
    <3>1. k \in DOMAIN history /\ history'[k] = history[k] /\ history[k] \in Messages
      BY <1>0, <1>1, <2>2
    <3>2. history[k].turn <= turn /\ history[k].turn \in Nat
      BY <3>1 DEF DataOK, Messages
    <3> QED
      BY <3>1, <3>2
  <2> QED
    BY <2>1, <2>2
<1>3. sent' = sent => DataOK'
  BY <1>1, <1>2 DEF DataOK
<1>4. sent' = NothingSent => DataOK'
  BY SMTT(60), <1>1, <1>2 DEF DataOK, NothingSent
<1>5. m.access = "none" /\ mode' = mode /\ ran' = ran /\ approved' = approved
        => NothingRunsUnallowed'
  BY <1>0, <1>1, PermissionsKept DEF PermittedOK
<1>6. ASSUME m.access = "none", sent' = sent,
             \A k \in sent.to + 1..Len(history) : history[k].access = "none",
             NEW k \in sent'.to + 1..Len(history')
      PROVE  history'[k].access = "none"
  <2>1. sent.to \in 0..Len(history)
    BY DEF DataOK
  <2>2. CASE k = Len(history) + 1
    BY <1>1, <1>6, <2>2
  <2>3. CASE k # Len(history) + 1
    <3>1. k \in sent.to + 1..Len(history) /\ k \in 1..Len(history)
      BY SMTT(60), <1>1, <1>6, <2>1, <2>3
    <3> QED
      BY <1>1, <1>6, <3>1
  <2> QED
    BY <2>2, <2>3
<1> QED
  BY <1>3, <1>4, <1>5, <1>6

\* The next call gets its result, whatever became of it.
LEMMA ResultKeeps ==
  ASSUME Inv, pc \in Working, NEW img \in BOOLEAN,
         history' = Append(history, Result(turn, Call.id, img)), todo' = Tail(todo),
         UNCHANGED <<stream, turn, provider, mode, step, sent, cancelled, direct, ended, approved,
                     ran, faults>>,
         ~group', verdict' \in {verdict, "none"},
         pc' = IF Len(todo) = 1 THEN IF pc = "activity" THEN "report" ELSE "step"
               ELSE IF pc = "activity" THEN "activity" ELSE "call"
  PROVE  Inv'
<1>0. /\ DataOK /\ AnswersOK /\ TypeOK /\ StreamOK /\ PlacesOK /\ PermittedOK /\ RecordsOK
      /\ history \in Seq(Messages) /\ todo \in Seq(CallSet)
  BY DEF Inv, DataOK
<1>1. turn \in TurnIds /\ turn \in Nat /\ ended[turn] = "no" /\ todo # <<>>
  BY <1>0, TurnIdsAre DEF PlacesOK, TypeOK, Working
<1>2. /\ Len(todo) \in Nat \ {0} /\ Call \in CallSet /\ Call.id \in Ids
      /\ todo' \in Seq(CallSet) /\ Len(todo') = Len(todo) - 1
  BY <1>0, <1>1, Shortened DEF Call, Ids
<1> DEFINE m == Result(turn, Call.id, img)
<1>3. /\ m \in Messages /\ m.turn = turn /\ m.role = "tool" /\ m.answers = Call.id
      /\ m.access = "none"
  BY <1>1, <1>2, ResultTyped
<1> HIDE DEF m
<1>4. history' = Append(history, m)
  BY DEF m
<1>5. DataOK' /\ NothingRunsUnallowed'
  BY SMTT(60), <1>0, <1>1, <1>2, <1>3, <1>4, MessageKeeps DEF DataOK
<1>6. TypeOK'
  <2>1. Types'
    <3>1. verdict' \in {"none", "waiting", "approved", "denied", "text", "error", "interrupted"}
      BY <1>0 DEF TypeOK, Types
    <3> QED
      BY <1>0, <3>1 DEF TypeOK, Types
  <2>2. pc' \in {"call", "activity"} => todo' # <<>>
    BY SMTT(60), <1>2
  <2> QED
    BY <1>0, <1>1, <2>1, <2>2 DEF TypeOK, Working
<1>7. StreamOK' /\ PlacesOK'
  BY <1>0, <1>1, StreamSame DEF PlacesOK, Working
<1>8. PermittedOK'
  <2>1. pc' = "call" => \A k \in sent.to + 1..Len(history) : history[k].access = "none"
    BY <1>0 DEF PermittedOK, Working
  <2>2. pc' = "call" => \A k \in sent'.to + 1..Len(history') : history'[k].access = "none"
    BY SMTT(60), <1>0, <1>1, <1>2, <1>3, <1>4, <2>1, MessageKeeps DEF DataOK
  <2> QED
    BY <1>5, <2>2 DEF PermittedOK
<1>9. AnswersOK'
  <2>1. pc' \in Working <=> Len(todo) # 1
    BY DEF Working
  <2> QED
    BY <1>0, <1>1, <1>3, <1>4, <2>1, AnswersGiven
<1>10. RecordsOK'
  BY <1>0, <1>3, <1>4, RecordKept DEF RecordsOK
<1> QED
  BY <1>5, <1>6, <1>7, <1>8, <1>9, <1>10 DEF Inv

LEMMA ResultsKeep ==
  ASSUME Inv, ForbidCall \/ ApprovalDenied \/ ToolRefuses \/ ToolReturns \/ ShellExits
                \/ ActivityResult
  PROVE  Inv'
<1>0. TypeOK /\ PermittedOK
  BY DEF Inv
<1>1. CASE ForbidCall
  <2>1. ~group'
    BY <1>0, <1>1 DEF ForbidCall, TypeOK
  <2> QED
    BY <1>1, <2>1, ResultKeeps DEF ForbidCall, Answer, loop, Working
<1>2. CASE ApprovalDenied
  <2>1. ~group'
    BY <1>0, <1>2 DEF ApprovalDenied, TypeOK
  <2> QED
    BY <1>2, <2>1, ResultKeeps DEF ApprovalDenied, Answer, loop, Working
<1>3. CASE ToolRefuses
  <2>1. ~group'
    BY <1>0, <1>3 DEF ToolRefuses, TypeOK
  <2> QED
    BY <1>3, <2>1, ResultKeeps DEF ToolRefuses, Answer, loop, Working
<1>4. CASE ToolReturns
  <2>1. ~group'
    BY <1>0, <1>4 DEF ToolReturns, TypeOK
  <2>2. PICK img \in {FALSE, Tools[Call.tool].shows} : Answer(img)
    BY <1>4 DEF ToolReturns
  <2>3. img \in BOOLEAN
    BY <1>0, <1>4, <2>2, ToolsTyped DEF PermittedOK, ToolReturns
  <2> QED
    BY <1>4, <2>1, <2>2, <2>3, ResultKeeps DEF ToolReturns, Answer, loop, Working
<1>5. CASE ShellExits
  BY <1>5, ResultKeeps DEF ShellExits, Answer, loop, Working
<1>6. CASE ActivityResult
  <2>1. ~group'
    BY <1>0, <1>6 DEF ActivityResult, TypeOK
  <2> QED
    BY <1>6, <2>1, ResultKeeps DEF ActivityResult, loop, Working
<1> QED
  BY <1>1, <1>2, <1>3, <1>4, <1>5, <1>6

\* A Turn that is not at work on calls has all those of its answers answered.
LEMMA NoWorkMeansWhole ==
  ASSUME Inv, pc # "idle", pc \notin Working
  PROVE  \A k \in Asking : history[k].turn = turn => Whole(k)
<1>1. ended[turn] = "no"
  BY DEF Inv, PlacesOK, TypeOK
<1> QED
  BY <1>1 DEF Inv, AnswersOK, CutOff, AtWork

LEMMA BeginTurnKeeps ==
  ASSUME Inv, NEW r \in Request, BeginTurn(r)
  PROVE  Inv'
<1>0. /\ DataOK /\ AnswersOK /\ TypeOK /\ StreamOK /\ PlacesOK /\ PermittedOK /\ RecordsOK
      /\ history \in Seq(Messages)
  BY DEF Inv, DataOK
<1>1. /\ pc = "idle" /\ turn + 1 \in TurnIds /\ turn' = turn + 1 /\ turn \in Nat
      /\ pc' \in {"backend", "step"}
      /\ UNCHANGED <<stream, todo, cancelled, verdict, step, sent, group, direct, ended, approved,
                     ran, faults>>
  BY <1>0, TurnIdsAre DEF BeginTurn, TypeOK, Types
<1> DEFINE m == Question(turn + 1, r.access)
<1>2. m \in Messages /\ m.turn = turn' /\ m.role = "user" /\ m.calls = <<>>
  <2>1. r.access \in {"none", "read_only", "read_write"} /\ turn + 1 \in Nat
    BY <1>1 DEF Request
  <2> QED
    BY <1>1, <2>1, QuestionTyped
<1>3. history' = Append(history, m)
  BY DEF BeginTurn
<1> HIDE DEF m
<1>4. DataOK'
  BY SMTT(60), <1>0, <1>1, <1>2, <1>3, MessageKeeps DEF DataOK
<1>5. TypeOK'
  <2>1. Types'
    <3>1. provider' \in Providers /\ mode' \in Modes
      BY DEF BeginTurn, Request
    <3> QED
      BY <1>0, <1>1, <3>1 DEF TypeOK, Types
  <2>2. \A t \in TurnIds : (t > turn \/ (t = turn /\ pc # "idle"))
                             <=> (t > turn' \/ (t = turn' /\ pc' # "idle"))
    BY <1>1, TurnIdsAre
  <2> QED
    BY <1>0, <1>1, <2>1, <2>2 DEF TypeOK
<1>6. PlacesOK'
  <2>1. todo = <<>> /\ ran = {}
    BY <1>0, <1>1 DEF PlacesOK
  <2>2. IsInjective(IdsOf(todo))
    BY <2>1 DEF IdsOf, IsInjective
  <2> QED
    BY <1>0, <1>1, <2>1, <2>2 DEF PlacesOK
<1>7. StreamOK'
  BY <1>0, <1>1, StreamSame
<1>8. PermittedOK' /\ RecordsOK'
  <2>1. ran' = {}
    BY <1>0, <1>1 DEF PlacesOK
  <2> QED
    BY <1>1, <2>1, NothingRan DEF PermittedOK
<1>9. AnswersOK'
  <2>1. pc \notin Working /\ pc' \notin Working
    BY <1>1 DEF Working
  <2>2. \A k \in Asking : history[k].turn # m.turn
    BY <1>0, <1>1, <1>2 DEF DataOK, Asking
  <2>3. IsInjective(m.calls)
    BY <1>2 DEF IsInjective
  <2> QED
    BY <1>0, <1>1, <1>2, <1>3, <2>1, <2>2, <2>3, AnswersAdded
<1> QED
  BY <1>4, <1>5, <1>6, <1>7, <1>8, <1>9 DEF Inv

\* A Turn ends with an answer that calls nothing.
LEMMA CompletionKeeps ==
  ASSUME Inv, pc # "idle", pc \notin Working, NEW status \in {"completed", "cancelled"},
         End(status), UNCHANGED <<turn, direct, faults>>,
         ~group', NEW m \in Messages, m.turn = turn, m.role # "tool", m.calls = <<>>,
         history' = Append(history, m)
  PROVE  Inv'
<1>0. /\ DataOK /\ AnswersOK /\ TypeOK /\ PermittedOK /\ history \in Seq(Messages)
      /\ turn \in Nat /\ faults \in 0..MaxFaults
  BY TurnIdsAre DEF Inv, DataOK, PlacesOK, TypeOK, Types
<1>1. /\ TypeOK' /\ StreamOK' /\ PlacesOK' /\ PermittedOK' /\ RecordsOK'
      /\ sent' = NothingSent /\ todo' = <<>> /\ pc' \notin Working
      /\ DOMAIN ended' = TurnIds
      /\ \A t : t # turn => ended'[t] = ended[t]
  BY <1>0, EndResets
<1>2. DataOK'
  <2>1. <<>> \in Seq(CallSet)
    OBVIOUS
  <2> QED
    BY <1>0, <1>1, <2>1, MessageKeeps
<1>3. AnswersOK'
  <2>1. \A k \in Asking : IF history[k].turn = m.turn THEN Whole(k)
                          ELSE ended'[history[k].turn] = ended[history[k].turn]
    BY <1>1, NoWorkMeansWhole
  <2>2. IsInjective(m.calls)
    BY DEF IsInjective
  <2> QED
    BY <1>0, <1>1, <2>1, <2>2, AnswersAdded
<1> QED
  BY <1>1, <1>2, <1>3 DEF Inv

\* The answer of the model is stored: with calls to work on, or as the last.
LEMMA PersistAnswerKeeps ==
  ASSUME Inv, PersistAnswer
  PROVE  Inv'
<1>0. /\ DataOK /\ AnswersOK /\ TypeOK /\ StreamOK /\ PlacesOK /\ PermittedOK /\ RecordsOK
      /\ history \in Seq(Messages)
  BY DEF Inv, DataOK
<1> DEFINE calls == stream.content.calls
           m == Reply(turn, stream.content.text, IdsOf(calls))
<1>1. /\ pc = "persist" /\ pc \notin Working /\ turn \in TurnIds /\ turn \in Nat /\ turn # 0
      /\ UNCHANGED <<turn, group, direct, faults>>
      /\ ~group /\ ran = {}
  BY <1>0, TurnIdsAre DEF PersistAnswer, Working, PlacesOK, TypeOK
<1>2. calls \in Seq(CallSet) /\ IsInjective(IdsOf(calls))
  <2>1. Valid
    BY <1>0, <1>1 DEF StreamOK
  <2>2. CASE calls = <<>>
    BY <2>1, <2>2 DEF Valid
  <2>3. CASE calls # <<>>
    BY <1>0, <2>1, <2>3, CallsTyped DEF Valid, StreamOK
  <2> QED
    BY <2>2, <2>3
<1>3. /\ m \in Messages /\ m.turn = turn /\ m.role = "assistant" /\ m.calls = IdsOf(calls)
      /\ m.access = "none"
  <2>1. stream.content.text \in BOOLEAN /\ IdsOf(calls) \in Seq(Ids)
    BY <1>0, <1>2, IdsTyped DEF StreamOK
  <2> QED
    BY <1>1, <2>1, ReplyTyped
<1>4. history' = Append(history, m)
  BY DEF PersistAnswer
<1>5. /\ Len(m.calls) = Len(calls)
      /\ \A i \in 1..Len(calls) : m.calls[i] = calls[i].id
  BY <1>2, <1>3, IdsTyped
<1> HIDE DEF m
<1>6. \A k \in Asking : history[k].turn = turn => Whole(k)
  BY <1>1, NoWorkMeansWhole
<1>7. CASE calls = <<>>
  <2>1. m.calls = <<>> /\ ~group'
    BY <1>1, <1>3, <1>7 DEF IdsOf
  <2>2. PICK status \in {"completed", "cancelled"} : End(status)
    BY <1>7 DEF PersistAnswer
  <2> QED
    BY <1>1, <1>3, <1>4, <2>1, <2>2, CompletionKeeps
<1>8. CASE calls # <<>>
  <2>1. /\ pc' = "call" /\ pc' \in Working /\ todo' = calls /\ stream' = Closed
        /\ UNCHANGED <<provider, mode, step, sent, cancelled, verdict, ended, approved, ran>>
    BY <1>8 DEF PersistAnswer, CloseStream, Working
  <2>2. StreamOK' /\ stream.state' = "closed"
    BY <2>1, ClosedOK
  <2>3. TypeOK'
    <3>1. Types'
      BY <1>0, <1>1, <2>1 DEF TypeOK, Types
    <3> QED
      BY <1>0, <1>1, <1>8, <2>1, <2>2, <3>1 DEF TypeOK
  <2>4. DataOK'
    BY SMTT(60), <1>0, <1>1, <1>2, <1>3, <1>4, <2>1, MessageKeeps DEF DataOK
  <2>5. PlacesOK'
    BY <1>0, <1>1, <2>1 DEF PlacesOK
  <2>6. PermittedOK' /\ RecordsOK'
    <3>1. \A k \in sent.to + 1..Len(history) : history[k].access = "none"
      BY <1>0, <1>1 DEF PermittedOK
    <3>2. \A k \in sent'.to + 1..Len(history') : history'[k].access = "none"
      BY <1>0, <1>1, <1>2, <1>3, <1>4, <2>1, <3>1, MessageKeeps DEF DataOK
    <3> QED
      BY <1>1, <2>1, <3>2, NothingRan DEF PermittedOK
  <2>7. AnswersOK'
    <3>1. \A k \in Asking : IF history[k].turn = m.turn THEN Whole(k)
                            ELSE ended'[history[k].turn] = ended[history[k].turn]
      BY <1>3, <1>6, <2>1
    <3> QED
      BY <1>0, <1>1, <1>2, <1>3, <1>4, <1>5, <2>1, <3>1, AnswersAdded
  <2> QED
    BY <2>2, <2>3, <2>4, <2>5, <2>6, <2>7 DEF Inv
<1> QED
  BY <1>7, <1>8

-----------------------------------------------------------------------------
\* An external backend works, returns, and its Turn ends.
LEMMA BackendUsesKeeps ==
  ASSUME Inv, NEW a \in Answers, NEW c \in ToSet(a.calls), BackendUses(c.id)
  PROVE  Inv'
<1>0. /\ DataOK /\ AnswersOK /\ TypeOK /\ StreamOK /\ PlacesOK /\ PermittedOK /\ RecordsOK
      /\ todo \in Seq(CallSet)
  BY DEF Inv, DataOK
<1> DEFINE x == [NoCall EXCEPT !.id = c.id]
<1>1. x \in CallSet /\ x.id = c.id
  BY DEF CallSet, ModelCalls, NoCall
<1>2. /\ UNCHANGED <<stream, history, turn, provider, mode, step, sent, pc, cancelled, verdict,
                     group, direct, ended, approved, ran, faults>>
      /\ todo' = Append(todo, x) /\ pc = "backend" /\ pc \notin Working
      /\ \A k \in DOMAIN todo : todo[k].id # x.id
  BY <1>1 DEF BackendUses, loop, Working
<1> HIDE DEF x
<1>3. /\ Len(todo) \in Nat /\ DOMAIN todo = 1..Len(todo)
      /\ todo' \in Seq(CallSet) /\ Len(todo') = Len(todo) + 1
      /\ todo'[Len(todo) + 1] = x
      /\ \A i \in 1..Len(todo) : todo'[i] = todo[i]
  BY <1>0, <1>1, <1>2, Appended
<1>4. IsInjective(IdsOf(todo'))
  <2>1. /\ DOMAIN IdsOf(todo') = 1..Len(todo) + 1
        /\ \A i \in 1..Len(todo) : IdsOf(todo')[i] = IdsOf(todo)[i] /\ IdsOf(todo)[i] = todo[i].id
        /\ IdsOf(todo')[Len(todo) + 1] = x.id
    BY <1>0, <1>3, IdsTyped
  <2>2. \A i, j \in 1..Len(todo) : IdsOf(todo)[i] = IdsOf(todo)[j] => i = j
    BY <1>0, <1>2, IdsTyped DEF PlacesOK, IsInjective
  <2> SUFFICES ASSUME NEW i \in 1..Len(todo) + 1, NEW j \in 1..Len(todo) + 1,
                      IdsOf(todo')[i] = IdsOf(todo')[j]
               PROVE  i = j
    BY <2>1 DEF IsInjective
  <2>3. CASE i = Len(todo) + 1 \/ j = Len(todo) + 1
    BY <1>2, <1>3, <2>1, <2>3
  <2>4. CASE i # Len(todo) + 1 /\ j # Len(todo) + 1
    <3>1. i \in 1..Len(todo) /\ j \in 1..Len(todo)
      BY <1>3, <2>4
    <3> QED
      BY <2>1, <2>2, <3>1
  <2> QED
    BY <2>3, <2>4
<1>5. StreamOK' /\ AnswersOK'
  BY <1>0, <1>2, StreamSame, AnswersSame
<1>6. DataOK' /\ PlacesOK'
  BY <1>0, <1>2, <1>3, <1>4 DEF DataOK, PlacesOK
<1>7. TypeOK'
  BY <1>0, <1>2 DEF TypeOK, Types
<1>8. PermittedOK' /\ RecordsOK'
  BY <1>0, <1>2, NothingRan DEF PlacesOK, PermittedOK
<1> QED
  BY <1>5, <1>6, <1>7, <1>8 DEF Inv

LEMMA BackendReturnsKeeps ==
  ASSUME Inv, NEW outcome \in {"text", "error", "interrupted"}, BackendReturns(outcome)
  PROVE  Inv'
<1>0. /\ DataOK /\ AnswersOK /\ TypeOK /\ StreamOK /\ PlacesOK /\ PermittedOK /\ RecordsOK
      /\ history \in Seq(Messages) /\ todo \in Seq(CallSet)
  BY DEF Inv, DataOK
<1>1. /\ pc = "backend" /\ pc \notin Working /\ turn \in TurnIds /\ turn \in Nat /\ turn # 0
      /\ UNCHANGED <<stream, turn, provider, mode, step, sent, todo, cancelled, group, direct,
                     ended, approved, ran, faults>>
      /\ ~group /\ ran = {} /\ verdict' = outcome /\ IsInjective(IdsOf(todo))
  BY <1>0, TurnIdsAre DEF BackendReturns, Working, PlacesOK, TypeOK, loop
<1>2. Types'
  <2>1. pc' \in {"report", "activity"}
    BY DEF BackendReturns
  <2> QED
    BY <1>0, <1>1, <2>1 DEF TypeOK, Types
<1>3. CASE todo = <<>>
  <2>1. pc' = "report" /\ history' = history /\ pc' \notin Working
    BY <1>3 DEF BackendReturns, Working
  <2>2. AnswersOK' /\ StreamOK'
    BY <1>0, <1>1, <2>1, AnswersSame, StreamSame
  <2>3. TypeOK' /\ DataOK' /\ PlacesOK'
    BY <1>0, <1>1, <1>2, <2>1 DEF TypeOK, DataOK, PlacesOK
  <2>4. PermittedOK' /\ RecordsOK'
    BY <1>1, <2>1, NothingRan DEF PermittedOK
  <2> QED
    BY <2>2, <2>3, <2>4 DEF Inv
<1>4. CASE todo # <<>>
  <2>0. PICK text \in BOOLEAN : text = FALSE
    BY Zenon
  <2> DEFINE m == Reply(turn, text, IdsOf(todo))
  <2>1. /\ m \in Messages /\ m.turn = turn /\ m.role = "assistant" /\ m.calls = IdsOf(todo)
    BY <1>0, <1>1, IdsTyped, ReplyTyped
  <2>2. history' = Append(history, m) /\ pc' = "activity" /\ pc' \in Working
    BY <1>4, <2>0, ZenonT(60) DEF BackendReturns, Working
  <2>3. /\ Len(m.calls) = Len(todo)
        /\ \A i \in 1..Len(todo) : m.calls[i] = todo[i].id
    BY <1>0, <2>1, IdsTyped
  <2> HIDE DEF m
  <2>4. AnswersOK'
    <3>1. \A k \in Asking : IF history[k].turn = m.turn THEN Whole(k)
                            ELSE ended'[history[k].turn] = ended[history[k].turn]
      BY <1>1, <2>1, NoWorkMeansWhole
    <3> QED
      BY <1>0, <1>1, <2>1, <2>2, <2>3, <3>1, AnswersAdded
  <2>5. StreamOK'
    BY <1>0, <1>1, <2>2, StreamSame
  <2>6. DataOK'
    BY SMTT(60), <1>0, <1>1, <2>1, <2>2, MessageKeeps DEF DataOK
  <2>7. TypeOK' /\ PlacesOK'
    BY <1>0, <1>1, <1>2, <1>4, <2>2 DEF TypeOK, PlacesOK
  <2>8. PermittedOK' /\ RecordsOK'
    BY <1>1, <2>2, NothingRan DEF PermittedOK
  <2> QED
    BY <2>4, <2>5, <2>6, <2>7, <2>8 DEF Inv
<1> QED
  BY <1>3, <1>4

LEMMA BackendReportKeeps ==
  ASSUME Inv, BackendReport
  PROVE  Inv'
<1>1. /\ pc = "report" /\ pc # "idle" /\ pc \notin Working /\ UNCHANGED <<turn, group, direct, faults>>
      /\ turn \in Nat /\ faults \in 0..MaxFaults /\ ~group'
  BY TurnIdsAre DEF BackendReport, Working, Inv, TypeOK, Types, PlacesOK
<1>2. CASE verdict = "text" /\ ~cancelled
  <2> DEFINE m == TextReply(turn)
  <2>1. m \in Messages /\ m.turn = turn /\ m.role = "assistant" /\ m.calls = <<>>
    BY <1>1, FinalReplyTyped
  <2>2. history' = Append(history, m) /\ End("completed")
    BY <1>2 DEF BackendReport
  <2> HIDE DEF m
  <2> QED
    BY <1>1, <2>1, <2>2, CompletionKeeps
<1>3. CASE ~(verdict = "text" /\ ~cancelled)
  <2>1. PICK status \in {"cancelled", "failed"} : End(status) /\ history' = history
    BY <1>3 DEF BackendReport
  <2> QED
    BY <1>1, <2>1, EndKeeps
<1> QED
  BY <1>2, <1>3

\* An image/generate call stores its messages beside whatever the Turn does.
LEMMA DirectCommitsKeeps ==
  ASSUME Inv, DirectCommits
  PROVE  Inv'
<1>0. /\ DataOK /\ AnswersOK /\ TypeOK /\ StreamOK /\ PlacesOK /\ PermittedOK /\ RecordsOK
      /\ history \in Seq(Messages)
  BY DEF Inv, DataOK
<1>1. /\ UNCHANGED <<stream, turn, provider, mode, step, sent, pc, todo, cancelled, verdict, group,
                     ended, approved, ran, faults>>
      /\ direct' = "done" /\ Call' = Call
  BY DEF DirectCommits, loop, Call
<1> DEFINE m1 == Message(0, "user")
           m2 == TextReply(0)
<1>2. /\ m1 \in Messages /\ m1.turn = 0 /\ m1.access = "none"
      /\ m2 \in Messages /\ m2.turn = 0 /\ m2.access = "none"
  <2>1. <<>> \in Seq(Ids)
    OBVIOUS
  <2>2. m1 \in Messages /\ m1.turn = 0 /\ m1.access = "none"
    BY <2>1 DEF Message, Messages
  <2>3. m2 \in Messages /\ m2.turn = 0 /\ m2.access = "none"
    BY FinalReplyTyped
  <2> QED
    BY <2>2, <2>3
<1>3. history' = history \o <<m1, m2>>
  BY DEF DirectCommits
<1> HIDE DEF m1, m2
<1> PICK n : n = Len(history)
  OBVIOUS
<1>4. /\ n \in Nat /\ DOMAIN history = 1..n
      /\ history' \in Seq(Messages) /\ Len(history') = n + 2 /\ DOMAIN history' = 1..n + 2
      /\ history'[n + 1] = m1 /\ history'[n + 2] = m2
      /\ \A i \in 1..n : history'[i] = history[i]
  BY <1>0, <1>2, <1>3, AppendedTwo
<1>5. \A k \in n + 1..n + 2 : history'[k].turn = 0 /\ history'[k].access = "none"
  <2>1. n + 1..n + 2 = {n + 1, n + 2}
    BY <1>4
  <2> QED
    BY <1>2, <1>4, <2>1
<1>6. \A k \in 1..n + 2 : k \in 1..n \/ k \in n + 1..n + 2
  BY <1>4
<1>7. AnswersOK' /\ StreamOK'
  BY <1>0, <1>1, <1>2, <1>3, AnswersBeside, StreamSame
<1>8. DataOK'
  <2>1. \A k \in DOMAIN history' : history'[k].turn <= turn'
    <3>1. turn \in Nat
      BY <1>0, TurnIdsAre DEF TypeOK, Types
    <3>2. \A k \in 1..n : history[k].turn <= turn
      BY <1>0, <1>4 DEF DataOK
    <3> QED
      BY <1>1, <1>4, <1>5, <1>6, <3>1, <3>2
  <2>2. sent'.to \in 0..Len(history')
    BY <1>0, <1>1, <1>4 DEF DataOK
  <2> QED
    BY <1>0, <1>1, <1>4, <2>1, <2>2 DEF DataOK
<1>9. TypeOK' /\ PlacesOK'
  <2>1. Types'
    BY <1>0, <1>1 DEF TypeOK, Types
  <2> QED
    BY <1>0, <1>1, <2>1 DEF TypeOK, PlacesOK
<1>10. PermittedOK'
  <2>1. NothingRunsUnallowed'
    BY <1>0, <1>1, <1>4, <1>5, PermissionsKept DEF PermittedOK
  <2>2. ASSUME \A k \in sent.to + 1..n : history[k].access = "none",
               NEW k \in sent'.to + 1..Len(history')
        PROVE  history'[k].access = "none"
    <3>1. sent.to \in 0..n /\ sent'.to = sent.to
      BY <1>0, <1>1, <1>4 DEF DataOK
    <3>2. k \in n + 1..n + 2 \/ (k \in sent.to + 1..n /\ k \in 1..n)
      BY <1>4, <3>1
    <3> QED
      BY <1>4, <1>5, <2>2, <3>2
  <2>3. Forbidden(Call.tool)' = Forbidden(Call.tool)
        /\ NeedsApproval(Call.tool)' = NeedsApproval(Call.tool)
    BY <1>1 DEF Forbidden, NeedsApproval
  <2> QED
    BY <1>0, <1>1, <2>1, <2>2, <2>3 DEF PermittedOK
<1>11. RecordsOK'
  <2>1. pc # "idle" \/ ran = {}
    BY <1>0 DEF PlacesOK
  <2>2. turn # 0 \/ ran = {}
    BY <1>0, <2>1, TurnIdsAre DEF PlacesOK
  <2>3. ASSUME turn # 0, NEW id, Recorded(id)
        PROVE  Recorded(id)'
    <3>1. PICK j \in DOMAIN history :
            /\ history[j].turn = turn /\ history[j].role = "tool" /\ history[j].answers = id
            /\ \A k \in j + 1..Len(history) : history[k].turn = turn => history[k].role = "tool"
      BY <2>3 DEF Recorded
    <3>2. j \in DOMAIN history' /\ history'[j] = history[j]
      BY <1>4
    <3>3. ASSUME NEW k \in j + 1..Len(history'), history'[k].turn = turn
          PROVE  history'[k].role = "tool"
      <4>1. k \notin n + 1..n + 2
        BY <1>5, <2>3, <3>3
      <4>2. k \in j + 1..n /\ k \in 1..n
        BY <1>4, <4>1
      <4> QED
        BY <1>4, <3>1, <3>3, <4>2
    <3> QED
      BY <1>1, <3>1, <3>2, <3>3 DEF Recorded
  <2> QED
    BY <1>0, <1>1, <2>2, <2>3 DEF RecordsOK
<1> QED
  BY <1>7, <1>8, <1>9, <1>10, <1>11 DEF Inv

LEMMA NextKeeps == Inv /\ [Next]_vars => Inv'
<1> SUFFICES ASSUME Inv, [Next]_vars PROVE Inv'
  OBVIOUS
<1>1. CASE Next
  <2>1. ASSUME NEW r \in Request, BeginTurn(r) PROVE Inv'
    BY <2>1, BeginTurnKeeps
  <2>2. ASSUME NEW decision \in {"approved", "denied"}, Respond(decision) PROVE Inv'
    BY <2>2, QuietKeeps
  <2>3. ASSUME NEW a \in Answers, NEW c \in ToSet(a.calls), BackendUses(c.id) PROVE Inv'
    BY <2>3, BackendUsesKeeps
  <2>4. ASSUME NEW outcome \in {"text", "error", "interrupted"}, BackendReturns(outcome) PROVE Inv'
    BY <2>4, BackendReturnsKeeps
  <2>5. CASE \/ Fail \/ StepLimitReached \/ CancelSeen \/ RefuseAnswer \/ UnknownTool
             \/ ToolCancelled \/ ShellCancelled
    BY <2>5, CuttingOffKeeps
  <2>6. CASE Cancel \/ DirectBegins \/ AskApproval \/ AllowCall \/ ApprovalGranted \/ ToolEnters
                \/ ToolStarts
    BY <2>6, QuietKeeps
  <2>7. CASE StartStep \/ Receive \/ TakeAnswer
    BY <2>7, RequestKeeps
  <2>8. CASE \/ ForbidCall \/ ApprovalDenied \/ ToolRefuses \/ ToolReturns \/ ShellExits
             \/ ActivityResult
    BY <2>8, ResultsKeep
  <2> QED
    BY <1>1, <2>1, <2>2, <2>3, <2>4, <2>5, <2>6, <2>7, <2>8, PersistAnswerKeeps,
       BackendReportKeeps, DirectCommitsKeeps DEF Next
<1>2. CASE UNCHANGED vars
  <2>1. /\ UNCHANGED <<stream, history, turn, provider, mode, step, sent, pc, todo, cancelled,
                       verdict, group, direct, ended, approved, ran, faults>>
        /\ Call' = Call
    BY <1>2 DEF vars, loop, Call
  <2>2. AnswersOK' /\ StreamOK'
    BY <2>1, AnswersSame, StreamSame DEF Inv
  <2>3. TypeOK' /\ DataOK' /\ PlacesOK'
    BY <2>1 DEF Inv, TypeOK, Types, DataOK, PlacesOK
  <2>4. NothingRunsUnallowed'
    BY <2>1 DEF Inv, PermittedOK, NothingRunsUnallowed
  <2>5. PermittedOK' /\ RecordsOK'
    BY <2>1, <2>4 DEF Inv, PermittedOK, Forbidden, NeedsApproval, RecordsOK, Recorded
  <2> QED
    BY <2>2, <2>3, <2>5 DEF Inv
<1> QED
  BY <1>1, <1>2

LEMMA Invariance == Spec => []Inv
<1>1. Init => Inv
  BY InitInv
<1>2. Inv /\ [Next]_vars => Inv'
  BY NextKeeps
<1> QED
  BY <1>1, <1>2, PTL DEF Spec

-----------------------------------------------------------------------------
(***************************************************************************)
(* Theorems                                                                *)
(***************************************************************************)
\* The variables have their types and fit the place of the loop: a request is
\* in flight only while the loop waits for it, no process group of the shell
\* tool outlives its call, and a Turn has an end exactly when it is over
\* (execute_loop, ShellTool::execute).
THEOREM TypesHold == Spec => []TypeOK
<1>1. Inv => TypeOK
  BY DEF Inv
<1> QED
  BY <1>1, Invariance, PTL

\* No tool works that the mode of its Turn forbids, that the user did not
\* approve where the mode asks, or that writes in a Project the Thread did not
\* grant for writing last (execute_tool_call, select_root, collect_references).
THEOREM NoToolIsUnallowed == Spec => []NothingRunsUnallowed
<1>1. Inv => NothingRunsUnallowed
  BY DEF Inv, PermittedOK
<1> QED
  BY <1>1, Invariance, PTL

\* Every call of a stored answer is answered once and in order, except at the
\* end of a Turn that was cut off or is still at work on its calls
\* (execute_loop, persist_external_tool_activity).
THEOREM EveryCallIsAnswered == Spec => []CallsAreAnswered
<1>1. Inv => CallsAreAnswered
  <2> SUFFICES ASSUME Inv, NEW k \in DOMAIN history,
                      history[k].turn # 0, history[k].role # "tool"
               PROVE  /\ IsInjective(history[k].calls) /\ InOrder(ResultsOf(k), history[k].calls)
                      /\ Cardinality(ResultsOf(k)) < Len(history[k].calls) =>
                           /\ Behind(k) = ResultsOf(k)
                           /\ \/ ended[history[k].turn] \in {"cancelled", "failed"}
                              \/ ended[history[k].turn] = "no" /\ todo # <<>>
    BY DEF CallsAreAnswered
  <2>1. k \in Asking
    BY DEF Asking
  <2>2. IsInjective(history[k].calls) /\ InOrder(ResultsOf(k), history[k].calls)
    BY <2>1 DEF Inv, AnswersOK
  <2>3. CASE Whole(k)
    <3>1. Cardinality(ResultsOf(k)) \in Nat /\ Len(history[k].calls) \in Nat
      <4>1. history \in Seq(Messages)
        BY DEF Inv, DataOK
      <4>2. history[k] \in Messages
        BY <4>1
      <4> QED
        BY <4>1, <4>2, ResultsFinite DEF Messages
    <3> QED
      BY <2>2, <2>3, <3>1 DEF Whole
  <2>4. CASE CutOff(k)
    BY <2>2, <2>4 DEF CutOff
  <2>5. CASE AtWork(k)
    <3>1. /\ pc \in Working /\ pc # "idle" /\ history[k].turn = turn
          /\ Behind(k) = ResultsOf(k)
      BY <2>5 DEF AtWork, Working
    <3>2. ended[turn] = "no" /\ todo # <<>>
      BY <3>1 DEF Inv, TypeOK, PlacesOK, Working
    <3> QED
      BY <2>2, <3>1, <3>2
  <2> QED
    BY <2>1, <2>3, <2>4, <2>5 DEF Inv, AnswersOK
<1> QED
  BY <1>1, Invariance, PTL

\* Only the end of a running tool leaves a call of it without a result.
LEMMA EndIsRecorded ==
  ASSUME Inv, Next, pc # "idle", pc' = "idle", ended'[turn] # "failed", NEW c \in ran,
         c.tool = "start_process"
  PROVE  Recorded(c.id)
<1>1. CASE pc # "running"
  BY <1>1 DEF Inv, RecordsOK
<1>2. CASE pc = "running"
  <2>1. Tools["start_process"].watches = FALSE /\ "start_process" # "shell"
    BY ToolsTyped
  <2>2. Call.tool # "start_process"
    <3>1. ~Fail
      BY <1>2 DEF Fail, End, Inv, PlacesOK, DataOK
    <3>2. ToolCancelled \/ ShellCancelled
      BY <1>2, <3>1 DEF Next, BeginTurn, Cancel, StepLimitReached, StartStep, CancelSeen,
         Receive, TakeAnswer, RefuseAnswer, PersistAnswer, UnknownTool, ForbidCall,
         AskApproval, AllowCall, Respond, ApprovalGranted, ApprovalDenied, ToolEnters,
         ToolRefuses, ToolStarts, ToolReturns, ShellExits, BackendUses, BackendReturns,
         ActivityResult, BackendReport, DirectBegins, DirectCommits, Answer
    <3> QED
      BY <2>1, <3>2 DEF ToolCancelled, ShellCancelled
  <2> QED
    BY <2>2 DEF Inv, RecordsOK
<1> QED
  BY <1>1, <1>2

\* No tool is entered behind the cancellation of its Turn, and only the one
\* entered before may still start to work (ToolRegistry::execute); and a managed
\* process, which outlives its Turn, is on record when the Turn ends, unless it
\* failed (StartProcessTool::execute).
THEOREM ToolsEnd == Spec => ToolsEndWithTurn
<1>1. Inv /\ [Next]_vars => (cancelled /\ pc # "entered" => pc' # "entered" /\ ran' \subseteq ran)
  <2> SUFFICES ASSUME Inv, [Next]_vars, cancelled, pc # "entered"
               PROVE  pc' # "entered" /\ ran' \subseteq ran
    OBVIOUS
  <2>1. ~ToolStarts /\ ~ToolEnters
    BY DEF ToolStarts, ToolEnters
  <2> QED
    BY <2>1 DEF Next, BeginTurn, Cancel, Fail, StepLimitReached, StartStep, CancelSeen,
       Receive, TakeAnswer, RefuseAnswer, PersistAnswer, UnknownTool, ForbidCall,
       AskApproval, AllowCall, Respond, ApprovalGranted, ApprovalDenied, ToolRefuses,
       ToolReturns, ToolCancelled, ShellExits, ShellCancelled, BackendUses,
       BackendReturns, ActivityResult, BackendReport, DirectBegins, DirectCommits, End,
       Answer, vars
<1>2. Inv /\ [Next]_vars =>
        (pc # "idle" /\ pc' = "idle" /\ ended'[turn] # "failed" =>
           \A c \in ran : c.tool = "start_process" => Recorded(c.id))
  BY EndIsRecorded DEF vars
<1> QED
  BY <1>1, <1>2, Invariance, PTL DEF Spec, ToolsEndWithTurn, NoToolAfterCancel,
                                     ManagedStartIsRecorded
==============================================================================
