--------------------------- MODULE AgentStreamProofs ---------------------------
(***************************************************************************)
(* Both ends of a request to the model, in AgentLoop.  An answer the       *)
(* runtime accepts has been shown to the client once, in whichever of its  *)
(* wordings the service sent it and wherever the stream ended; and a       *)
(* request holds its Turn, and calls with their results.                   *)
(***************************************************************************)
EXTENDS AgentLoopProofs

-----------------------------------------------------------------------------
(***************************************************************************)
(* The invariant in parts                                                  *)
(***************************************************************************)
Frames == [kind : {"text", "added", "delta", "done", "closed"}, item : Nat]
Accumulators ==
  [item : Nat, call : ModelCalls \cup {NoCall}, args : {"empty", "part", "whole"}]

\* The service sends text at most once and first, and only of its answer; all
\* else is about a call of its answer.
FramesOK(answer, frames) ==
  /\ frames \in Seq(Frames)
  /\ \A k \in 1..Len(frames) :
       IF frames[k].kind = "text" THEN k = 1 /\ answer.text
       ELSE frames[k].item \in 1..Len(answer.calls)

\* There is one accumulator per call of the answer, which may not know it yet.
FunctionsOK(answer, functions) ==
  /\ functions \in Seq(Accumulators)
  /\ \A k \in 1..Len(functions) :
       /\ functions[k].item \in 1..Len(answer.calls)
       /\ functions[k].call \in {NoCall, answer.calls[functions[k].item]}
       /\ \A j \in 1..Len(functions) : functions[j].item = functions[k].item => j = k

TextOK ==
  /\ stream.text \in BOOLEAN /\ (stream.text => stream.answer.text /\ stream.at # 0)
  /\ shown.texts = IF stream.text THEN 1 ELSE 0

\* What was emitted is of an accumulator that knows its call, which is there
\* still when the stream ends.
EmittedFrom(functions, calls) ==
  /\ calls \in Seq(Ids) /\ IsInjective(calls)
  /\ \A n \in 1..Len(calls) :
       calls[n] # NoId /\ \E k \in 1..Len(functions) : functions[k].call.id = calls[n]

\* The last event brings the whole output or none, unless it cuts it short.
LastOK ==
  stream.completed /\ stream.finish # "length" =>
    stream.content \in {stream.answer, Nothing} /\ stream.finish = Inferred(stream.content)

Reading == stream.state = "open" /\ stream.adapter = "responses"

ReadingOK ==
  /\ stream.answer \in Answers /\ stream.at \in Nat
  /\ FramesOK(stream.answer, stream.frames)
  /\ FunctionsOK(stream.answer, stream.functions)
  /\ TextOK /\ EmittedFrom(stream.functions, shown.calls) /\ LastOK

ShownOK ==
  /\ shown \in [texts : Nat, calls : {shown.calls}]
  /\ Reading => ReadingOK
  /\ AcceptedIsShownOnce

-----------------------------------------------------------------------------
(***************************************************************************)
(* Lemmas: the calls that are emitted when the stream ends                 *)
(***************************************************************************)
LEMMA Induction ==
  ASSUME NEW n \in Nat, NEW S, 0 \in S, \A k \in 1..n : k - 1 \in S => k \in S
  PROVE  0..n \subseteq S
<1> DEFINE bad == (0..n) \ S
<1>1. ASSUME bad # {} PROVE FALSE
  <2>1. bad \subseteq Nat
    OBVIOUS
  <2>2. PICK k \in bad : \A x \in bad : k <= x
    <3> HIDE DEF bad
    <3> QED
      BY <1>1, <2>1, LeastOf
  <2>3. k \in 1..n /\ k - 1 \in 0..n /\ ~(k <= k - 1)
    BY <2>2
  <2> QED
    BY <2>2, <2>3
<1> QED
  BY <1>1

\* An id that is not there yet is put behind the others.
LEMMA EmittedOnce ==
  ASSUME NEW ids \in Seq(Ids), IsInjective(ids), NEW id \in Ids, id \notin ToSet(ids)
  PROVE  /\ Append(ids, id) \in Seq(Ids) /\ IsInjective(Append(ids, id))
         /\ ToSet(Append(ids, id)) = ToSet(ids) \cup {id}
<1>1. /\ Len(ids) \in Nat /\ DOMAIN ids = 1..Len(ids) /\ Append(ids, id) \in Seq(Ids)
      /\ DOMAIN Append(ids, id) = 1..(Len(ids) + 1)
      /\ Append(ids, id)[Len(ids) + 1] = id
      /\ \A i \in 1..Len(ids) : Append(ids, id)[i] = ids[i]
  BY Appended
<1>2. PICK l \in Nat : l = Len(ids)
  BY <1>1
<1>3. \A i \in 1..l : ids[i] # id
  BY <1>1, <1>2 DEF ToSet
<1>4. \A i \in 1..(l + 1) : i = l + 1 \/ i \in 1..l
  OBVIOUS
<1>5. IsInjective(Append(ids, id))
  <2> SUFFICES ASSUME NEW a \in 1..(l + 1), NEW b \in 1..(l + 1),
                      Append(ids, id)[a] = Append(ids, id)[b]
               PROVE  a = b
    BY <1>1, <1>2 DEF IsInjective
  <2> QED
    BY <1>1, <1>2, <1>3, <1>4 DEF IsInjective
<1>6. ToSet(Append(ids, id)) = ToSet(ids) \cup {id}
  <2>1. ToSet(Append(ids, id)) = {Append(ids, id)[i] : i \in 1..(l + 1)}
    BY <1>1, <1>2 DEF ToSet
  <2>2. ToSet(ids) = {ids[i] : i \in 1..l}
    BY <1>1, <1>2 DEF ToSet
  <2>3. 1..(l + 1) = 1..l \cup {l + 1}
    BY <1>4
  <2> QED
    BY <1>1, <1>2, <2>1, <2>2, <2>3
<1> QED
  BY <1>1, <1>5, <1>6

LEMMA EmittedAll ==
  ASSUME NEW calls \in Seq(ModelCalls), shown.calls \in Seq(Ids), IsInjective(shown.calls)
  PROVE  /\ EmittedWith(calls) \in Seq(Ids) /\ IsInjective(EmittedWith(calls))
         /\ ToSet(EmittedWith(calls)) = Emitted \cup {calls[i].id : i \in 1..Len(calls)}
<1> DEFINE n == Len(calls)
           Emits(before, i) == IF calls[i].id \in ToSet(before) THEN before
                               ELSE Append(before, calls[i].id)
           Runs(f, m) == f = [k \in 0..m |-> IF k = 0 THEN shown.calls
                                             ELSE IF calls[k].id \in ToSet(f[k - 1]) THEN f[k - 1]
                                             ELSE Append(f[k - 1], calls[k].id)]
           can == {m \in 0..n : \E f : Runs(f, m)}
<1>0. n \in Nat
  OBVIOUS
<1>1. 0 \in can
  <2>1. Runs([k \in 0..0 |-> shown.calls], 0)
    OBVIOUS
  <2>2. (\E f1 : Runs(f1, 0)) /\ 0 \in 0..n
    <3>1. 0 \in 0..n
      BY <1>0
    <3> HIDE DEF Runs
    <3> QED
      BY <2>1, <3>1, Zenon
  <2> QED
    BY <2>2, Zenon
<1>2. ASSUME NEW m \in 1..n, m - 1 \in can
      PROVE  m \in can
  <2>1. PICK f : Runs(f, m - 1)
    BY SMTT(60), <1>2
  <2> DEFINE g == [k \in 0..m |-> IF k = m THEN Emits(f[m - 1], m) ELSE f[k]]
  <2>2. Runs(g, m)
    <3>1. ASSUME NEW k \in 0..m
          PROVE  g[k] = IF k = 0 THEN shown.calls ELSE Emits(g[k - 1], k)
      <4>1. CASE k = m
        <5>1. m - 1 \in 0..m /\ m - 1 # m /\ m # 0
          BY <1>0
        <5>2. g[m - 1] = f[m - 1] /\ g[m] = Emits(f[m - 1], m)
          <6> HIDE DEF Emits
          <6> QED
            BY <5>1
        <5> HIDE DEF Emits, g
        <5> QED
          BY <4>1, <5>1, <5>2
      <4>2. CASE k # m
        <5>1. k \in 0..m - 1 /\ (k # 0 => k - 1 \in 0..m /\ k - 1 # m)
          BY <1>0, <4>2
        <5>2. f[k] = IF k = 0 THEN shown.calls ELSE Emits(f[k - 1], k)
          BY <2>1, <5>1
        <5>3. g[k] = f[k] /\ (k # 0 => g[k - 1] = f[k - 1])
          <6> HIDE DEF Emits
          <6> QED
            BY <4>2, <5>1
        <5> HIDE DEF Emits, g
        <5> QED
          BY <5>2, <5>3
      <4> QED
        BY <4>1, <4>2
    <3>2. g = [k \in 0..m |-> g[k]]
      OBVIOUS
    <3> HIDE DEF g
    <3> QED
      BY <3>1, <3>2
  <2>3. (\E f1 : Runs(f1, m)) /\ m \in 0..n
    <3>1. m \in 0..n
      BY <1>0
    <3> HIDE DEF Runs, g
    <3> QED
      BY <2>2, <3>1, Zenon
  <2> QED
    BY <2>3, Zenon
<1>3. n \in can
  <2> HIDE DEF can, n
  <2>1. 0..n \subseteq can
    <3>1. PICK reached : reached = can
      OBVIOUS
    <3>2. PICK l \in Nat : l = n
      BY <1>0
    <3>3. 0 \in reached /\ \A m \in 1..l : m - 1 \in reached => m \in reached
      BY <1>1, <1>2, <3>1, <3>2
    <3>4. 0..l \subseteq reached
      BY <3>3, Induction
    <3> QED
      BY <3>1, <3>2, <3>4
  <2> QED
    BY <1>0, <2>1
<1>4. PICK ids : Runs(ids, n) /\ EmittedWith(calls) = ids[n]
  BY <1>3, Zenon DEF EmittedWith
<1>5. /\ ids[0] = shown.calls
      /\ \A k \in 1..n : ids[k] = Emits(ids[k - 1], k)
  <2>1. \A k \in 0..n : ids[k] = IF k = 0 THEN shown.calls ELSE Emits(ids[k - 1], k)
    BY <1>4
  <2>2. 0 \in 0..n /\ \A k \in 1..n : k \in 0..n /\ k # 0
    BY <1>0
  <2> HIDE DEF Emits, n
  <2> QED
    BY <2>1, <2>2
<1> HIDE DEF Runs, can
<1> DEFINE Upto(k) == {calls[i].id : i \in 1..k}
           good == {k \in 0..n : /\ ids[k] \in Seq(Ids) /\ IsInjective(ids[k])
                                 /\ ToSet(ids[k]) = Emitted \cup Upto(k)}
<1>6. 0 \in good
  BY <1>0, <1>5 DEF Emitted
<1>7. ASSUME NEW k \in 1..n, k - 1 \in good
      PROVE  k \in good
  <2>1. PICK e \in Seq(Ids) : e = ids[k - 1]
    BY <1>7
  <2>2. IsInjective(e) /\ ToSet(e) = Emitted \cup Upto(k - 1)
    BY <1>7, <2>1
  <2>3. PICK id \in Ids : id = calls[k].id
    BY DEF Ids, CallSet
  <2>4. Upto(k) = Upto(k - 1) \cup {id} /\ k \in 0..n
    <3>1. 1..k = 1..(k - 1) \cup {k} /\ k \in 0..n
      BY <1>0
    <3> QED
      BY <2>3, <3>1
  <2>5. CASE id \in ToSet(e)
    BY <1>5, <2>1, <2>2, <2>3, <2>4, <2>5
  <2>6. CASE id \notin ToSet(e)
    <3>1. ids[k] = Append(e, id)
      BY <1>5, <2>1, <2>3, <2>6
    <3>2. /\ Append(e, id) \in Seq(Ids) /\ IsInjective(Append(e, id))
          /\ ToSet(Append(e, id)) = ToSet(e) \cup {id}
      BY <2>2, <2>6, EmittedOnce
    <3> HIDE DEF Upto
    <3> QED
      BY <2>2, <2>4, <3>1, <3>2
  <2> QED
    BY <2>5, <2>6
<1>8. n \in good
  <2> HIDE DEF good, n
  <2>1. PICK S : S = good
    OBVIOUS
  <2>2. 0 \in S /\ \A k \in 1..n : k - 1 \in S => k \in S
    BY <1>6, <1>7, <2>1, Zenon
  <2>3. 0..n \subseteq S
    BY <1>0, <2>2, Induction
  <2> QED
    BY <1>0, <2>1, <2>3
<1> QED
  BY <1>4, <1>8

-----------------------------------------------------------------------------
(***************************************************************************)
(* Lemmas: what the service sends                                          *)
(***************************************************************************)
CallFrames(i) == [kind : {"added", "delta", "done", "closed"}, item : {i}]

LEMMA CallFramesTyped ==
  ASSUME NEW style, NEW i
  PROVE  FramesOfCall(style, i) \in Seq(CallFrames(i))
<1>1. \A kind \in {"added", "delta", "done", "closed"} : Frame(kind, i) \in CallFrames(i)
  BY DEF Frame, CallFrames
<1>2. PICK added \in CallFrames(i), delta \in CallFrames(i), done \in CallFrames(i),
           closed \in CallFrames(i) :
        /\ added = Frame("added", i) /\ delta = Frame("delta", i)
        /\ done = Frame("done", i) /\ closed = Frame("closed", i)
  BY <1>1
<1>3. /\ <<added, delta, delta, closed>> \in Seq(CallFrames(i))
      /\ <<added, done, done>> \in Seq(CallFrames(i))
      /\ <<delta, done>> \in Seq(CallFrames(i)) /\ <<>> \in Seq(CallFrames(i))
  OBVIOUS
<1>4. \/ FramesOfCall(style, i) = <<added, delta, delta, closed>>
      \/ FramesOfCall(style, i) = <<added, done, done>>
      \/ FramesOfCall(style, i) = <<delta, done>>
      \/ FramesOfCall(style, i) = <<>>
  BY <1>2 DEF FramesOfCall
<1> QED
  BY <1>3, <1>4, Zenon

LEMMA FramesTyped ==
  ASSUME NEW style, NEW answer \in Answers
  PROVE  FramesOK(answer, FramesOf(style, answer))
<1> DEFINE q == [i \in DOMAIN answer.calls |-> FramesOfCall(style, i)]
           head == IF answer.text /\ style # "silent" THEN <<Frame("text", 0)>> ELSE <<>>
<1>1. PICK calls \in Seq(ModelCalls), n \in Nat : calls = answer.calls /\ n = Len(calls)
  BY AnswersTyped
<1>2. /\ q \in Seq(Seq(Frames)) /\ Len(q) = n
      /\ \A i \in 1..n : q[i] \in Seq(CallFrames(i))
  <2>1. ASSUME NEW i \in 1..n
        PROVE  FramesOfCall(style, i) \in Seq(CallFrames(i)) /\ FramesOfCall(style, i) \in Seq(Frames)
    <3>1. CallFrames(i) \subseteq Frames
      BY DEF CallFrames, Frames
    <3>2. FramesOfCall(style, i) \in Seq(CallFrames(i))
      BY CallFramesTyped
    <3> QED
      BY <3>1, <3>2
  <2>2. q = [i \in 1..n |-> FramesOfCall(style, i)]
    BY <1>1
  <2>3. q \in [1..n -> Seq(Frames)] /\ \A i \in 1..n : q[i] \in Seq(CallFrames(i))
    BY <2>1, <2>2
  <2> HIDE DEF q
  <2> QED
    BY <2>3
<1> HIDE DEF q
<1>3. PICK flat \in Seq(Frames), at \in [0..n -> Nat] :
        flat = FlattenSeq(q) /\ LaidOut(q, n, flat, at)
  BY <1>2, Flattened
<1>4. \A p \in 1..Len(flat) : flat[p].kind # "text" /\ flat[p].item \in 1..n
  <2> SUFFICES ASSUME NEW p \in 1..Len(flat)
               PROVE  flat[p].kind # "text" /\ flat[p].item \in 1..n
    OBVIOUS
  <2>1. PICK j \in 1..n : \E o \in 1..Len(q[j]) : flat[p] = q[j][o]
    <3>1. p \in DOMAIN flat
      BY <1>3
    <3>2. PICK j \in 1..n : \E o \in 1..Len(q[j]) : p = at[j - 1] + o
      BY <1>3, <3>1 DEF LaidOut
    <3>3. \A o \in 1..Len(q[j]) : flat[at[j - 1] + o] = q[j][o]
      BY <1>3 DEF LaidOut
    <3> QED
      BY <3>2, <3>3
  <2>2. PICK s \in Seq(CallFrames(j)) : s = q[j]
    BY <1>2
  <2>3. flat[p] \in CallFrames(j)
    BY SMTT(60), <2>1, <2>2
  <2> QED
    BY <2>3 DEF CallFrames
<1>5. PICK h \in Seq(Frames) :
        /\ h = head /\ Len(h) \in {0, 1}
        /\ \A k \in 1..Len(h) : h[k].kind = "text" /\ answer.text
  <2>1. PICK f \in Frames : f = Frame("text", 0) /\ f.kind = "text"
    <3>1. Frame("text", 0) \in Frames /\ Frame("text", 0).kind = "text"
      BY DEF Frame, Frames
    <3> QED
      BY <3>1
  <2>2. <<f>> \in Seq(Frames) /\ Len(<<f>>) = 1 /\ <<f>>[1] = f
    OBVIOUS
  <2>3. <<>> \in Seq(Frames) /\ Len(<<>>) = 0
    OBVIOUS
  <2>4. CASE answer.text /\ style # "silent"
    <3>1. head = <<f>>
      BY <2>1, <2>4
    <3>2. PICK h \in Seq(Frames) : h = <<f>>
      BY <2>2
    <3>3. Len(h) = 1 /\ \A k \in 1..Len(h) : h[k].kind = "text" /\ answer.text
      BY <2>1, <2>2, <2>4, <3>2
    <3> HIDE DEF head
    <3> QED
      BY <3>1, <3>2, <3>3
  <2>5. CASE ~(answer.text /\ style # "silent")
    <3>1. head = <<>>
      BY <2>5
    <3>2. PICK h \in Seq(Frames) : h = <<>> /\ Len(h) = 0
      BY <2>3
    <3>3. \A k \in 1..Len(h) : h[k].kind = "text" /\ answer.text
      BY <3>2
    <3> HIDE DEF head
    <3> QED
      BY <3>1, <3>2, <3>3
  <2> QED
    BY <2>4, <2>5
<1>6. FramesOf(style, answer) = h \o flat
  BY <1>3, <1>5, Zenon DEF FramesOf, q
<1>7. /\ h \o flat \in Seq(Frames) /\ Len(h \o flat) = Len(h) + Len(flat)
      /\ \A i \in 1..Len(h) : (h \o flat)[i] = h[i]
      /\ \A i \in 1..Len(flat) : (h \o flat)[Len(h) + i] = flat[i]
  BY Concatenated
<1>8. PICK g \in Seq(Frames), a \in Nat, b \in Nat :
        /\ g = h \o flat /\ a = Len(h) /\ b = Len(flat) /\ Len(g) = a + b
        /\ \A i \in 1..a : g[i] = h[i]
        /\ \A i \in 1..b : g[a + i] = flat[i]
  <2>1. Len(h) \in Nat /\ Len(flat) \in Nat
    OBVIOUS
  <2> QED
    BY <1>7, <2>1, Zenon
<1>9. ASSUME NEW k \in 1..Len(g)
      PROVE  IF g[k].kind = "text" THEN k = 1 /\ answer.text ELSE g[k].item \in 1..n
  <2>1. CASE k <= a
    <3>1. k \in 1..a /\ k = 1
      BY <1>5, <1>8, <2>1
    <3> QED
      BY <1>5, <1>8, <3>1
  <2>2. CASE ~(k <= a)
    <3>1. k - a \in 1..b /\ k = a + (k - a)
      BY <1>8, <2>2
    <3>2. g[k] = flat[k - a]
      BY <1>8, <3>1
    <3> QED
      BY ZenonT(60), <1>4, <1>8, <3>1, <3>2
  <2> QED
    BY <2>1, <2>2
<1> QED
  BY <1>1, <1>6, <1>8, <1>9, Zenon DEF FramesOK

-----------------------------------------------------------------------------
(***************************************************************************)
(* Lemmas: an event changes one accumulator                                *)
(***************************************************************************)
\* All that was known of a call is known still.
Keeps(functions, later) ==
  \A k \in 1..Len(functions) : functions[k].call # NoCall =>
    \E j \in 1..Len(later) : later[j].call = functions[k].call

LEMMA KeyMade ==
  ASSUME NEW answer \in Answers, FunctionsOK(answer, stream.functions),
         NEW item \in 1..Len(answer.calls)
  PROVE  /\ FunctionsOK(answer, ByKey(item)) /\ Keeps(stream.functions, ByKey(item))
         /\ \E k \in 1..Len(ByKey(item)) : FunctionOf(item) = ByKey(item)[k] /\ ByKey(item)[k].item = item
<1>1. PICK q \in Seq(Accumulators) : q = stream.functions
  BY DEF FunctionsOK
<1>2. PICK l \in Nat : l = Len(q)
  OBVIOUS
<1>3. \A k \in 1..l :
        /\ q[k].item \in 1..Len(answer.calls)
        /\ q[k].call \in {NoCall, answer.calls[q[k].item]}
        /\ \A j \in 1..l : q[j].item = q[k].item => j = k
  BY <1>1, <1>2 DEF FunctionsOK
<1>4. PICK b \in Seq(Accumulators) :
        /\ b = ByKey(item) /\ FunctionsOK(answer, b) /\ Keeps(q, b)
        /\ \E k \in 1..Len(b) : b[k].item = item
  <2>1. CASE KnownItem(item)
    <3>1. ByKey(item) = q
      BY <1>1, <2>1 DEF ByKey
    <3>2. \E k \in 1..Len(q) : q[k].item = item
      BY <1>1, <2>1 DEF KnownItem
    <3>3. Keeps(q, q)
      BY DEF Keeps
    <3> QED
      BY <1>1, <3>1, <3>2, <3>3
  <2>2. CASE ~KnownItem(item)
    <3>1. PICK f \in Accumulators :
            /\ f = [item |-> item, call |-> NoCall, args |-> "empty"]
            /\ f.item = item /\ f.call = NoCall
      <4>1. PICK calls \in Seq(ModelCalls) : calls = answer.calls
        BY AnswersTyped
      <4>2. item \in Nat
        BY <4>1
      <4>3. [item |-> item, call |-> NoCall, args |-> "empty"] \in Accumulators
        BY <4>2 DEF Accumulators
      <4> QED
        BY <4>3
    <3>2. PICK b : b = Append(q, f)
      OBVIOUS
    <3>3. ByKey(item) = b
      BY <1>1, <2>2, <3>1, <3>2 DEF ByKey
    <3>4. /\ b \in Seq(Accumulators) /\ Len(b) = l + 1 /\ b[l + 1] = f
          /\ \A k \in 1..l : b[k] = q[k]
      BY <1>2, <3>2, Appended
    <3>5. \A k \in 1..l : q[k].item # item
      BY <1>1, <1>2, <2>2 DEF KnownItem
    <3>6. /\ \A k \in 1..(l + 1) : k = l + 1 \/ k \in 1..l
          /\ \A k \in 1..l : k \in 1..(l + 1) /\ k # l + 1
          /\ l + 1 \in 1..(l + 1)
      OBVIOUS
    <3>7. FunctionsOK(answer, b)
      <4> SUFFICES ASSUME NEW k \in 1..(l + 1)
                   PROVE  /\ b[k].item \in 1..Len(answer.calls)
                          /\ b[k].call \in {NoCall, answer.calls[b[k].item]}
                          /\ \A j \in 1..(l + 1) : b[j].item = b[k].item => j = k
        BY <3>4 DEF FunctionsOK
      <4>1. CASE k \in 1..l
        <5>1. \A j \in 1..(l + 1) : b[j].item = b[k].item => j = k
          BY SMTT(60), <1>3, <3>1, <3>4, <3>5, <3>6, <4>1
        <5> QED
          BY <1>3, <3>4, <4>1, <5>1
      <4>2. CASE k = l + 1
        <5>1. \A j \in 1..(l + 1) : b[j].item = b[k].item => j = k
          BY <3>1, <3>4, <3>5, <3>6, <4>2
        <5> QED
          BY <3>1, <3>4, <4>2, <5>1
      <4> QED
        BY <3>6, <4>1, <4>2
    <3>8. Keeps(q, b)
      BY <1>2, <3>4, <3>6 DEF Keeps
    <3> QED
      BY SMTT(60), <3>1, <3>3, <3>4, <3>6, <3>7, <3>8
  <2> QED
    BY <2>1, <2>2
<1>5. FunctionOf(item) = CHOOSE f \in ToSet(b) : f.item = item
  BY <1>4 DEF FunctionOf
<1>6. PICK k \in 1..Len(b) : FunctionOf(item) = b[k] /\ b[k].item = item
  <2>1. \E f \in ToSet(b) : f.item = item
    BY <1>4 DEF ToSet
  <2>2. FunctionOf(item) \in ToSet(b) /\ FunctionOf(item).item = item
    BY <1>5, <2>1, Zenon
  <2> QED
    BY <2>2 DEF ToSet
<1> QED
  BY <1>1, <1>4, <1>6

LEMMA FunctionChanged ==
  ASSUME NEW answer \in Answers, NEW item \in 1..Len(answer.calls), NEW f \in Accumulators,
         FunctionsOK(answer, stream.functions), f.item = item,
         f.call = FunctionOf(item).call \/ f.call = answer.calls[item]
  PROVE  /\ FunctionsOK(answer, WithFunction(f)) /\ Keeps(stream.functions, WithFunction(f))
         /\ f.call \in {NoCall, answer.calls[item]}
         /\ \E k \in 1..Len(WithFunction(f)) : WithFunction(f)[k] = f
<1>1. PICK b \in Seq(Accumulators), l \in Nat :
        b = ByKey(item) /\ l = Len(b) /\ FunctionsOK(answer, b) /\ Keeps(stream.functions, b)
  <2>1. FunctionsOK(answer, ByKey(item)) /\ Keeps(stream.functions, ByKey(item))
    BY KeyMade
  <2>2. ByKey(item) \in Seq(Accumulators) /\ Len(ByKey(item)) \in Nat
    BY <2>1 DEF FunctionsOK
  <2> QED
    BY <2>1, <2>2
<1>2. PICK n \in 1..l : FunctionOf(item) = b[n] /\ b[n].item = item
  BY SMTT(60), <1>1, KeyMade
<1>3. \A k \in 1..l :
        /\ b[k].item \in 1..Len(answer.calls)
        /\ b[k].call \in {NoCall, answer.calls[b[k].item]}
        /\ \A j \in 1..l : b[j].item = b[k].item => j = k
  BY <1>1 DEF FunctionsOK
<1>4. f.call \in {NoCall, answer.calls[item]} /\ (f.call = b[n].call \/ f.call = answer.calls[item])
  BY <1>2, <1>3
<1>5. PICK g \in Seq(Accumulators) :
        /\ g = WithFunction(f) /\ Len(g) = l /\ g[n] = f
        /\ \A k \in 1..l : k # n => g[k] = b[k]
  <2>1. WithFunction(f) = [k \in 1..l |-> IF b[k].item = item THEN f ELSE b[k]]
    BY <1>1 DEF WithFunction
  <2>2. \A k \in 1..l : b[k].item = item <=> k = n
    BY SMTT(60), <1>2, <1>3
  <2>3. PICK g : g = [k \in 1..l |-> IF b[k].item = item THEN f ELSE b[k]]
    OBVIOUS
  <2>4. g \in [1..l -> Accumulators]
    BY <1>1, <2>3
  <2>5. g \in Seq(Accumulators) /\ Len(g) = l
    BY <2>4
  <2> QED
    BY SMTT(60), <1>2, <2>1, <2>2, <2>3, <2>5
<1>6. FunctionsOK(answer, g)
  <2> SUFFICES ASSUME NEW k \in 1..l
               PROVE  /\ g[k].item \in 1..Len(answer.calls)
                      /\ g[k].call \in {NoCall, answer.calls[g[k].item]}
                      /\ \A j \in 1..l : g[j].item = g[k].item => j = k
    BY <1>5 DEF FunctionsOK
  <2>1. \A j \in 1..l : g[j].item = b[j].item
    BY SMTT(60), <1>2, <1>5
  <2> QED
    BY SMTT(60), <1>2, <1>3, <1>4, <1>5, <2>1
<1>7. Keeps(stream.functions, g)
  <2> SUFFICES ASSUME NEW k \in 1..Len(stream.functions), stream.functions[k].call # NoCall
               PROVE  \E j \in 1..l : g[j].call = stream.functions[k].call
    BY <1>5 DEF Keeps
  <2>1. PICK j \in 1..l : b[j].call = stream.functions[k].call
    BY <1>1 DEF Keeps
  <2>2. CASE j = n
    <3>1. b[n].call = answer.calls[item]
      BY <1>2, <1>3, <2>1, <2>2
    <3> QED
      BY <1>4, <1>5, <2>1, <2>2, <3>1
  <2>3. CASE j # n
    BY <1>5, <2>1, <2>3
  <2> QED
    BY <2>2, <2>3
<1> QED
  BY <1>4, <1>5, <1>6, <1>7

-----------------------------------------------------------------------------
(***************************************************************************)
(* The invariant is inductive                                              *)
(***************************************************************************)
StreamRecord(s) ==
  s \in [state : {s.state}, adapter : {s.adapter}, answer : {s.answer}, frames : {s.frames},
         at : {s.at}, text : {s.text}, functions : {s.functions}, completed : {s.completed},
         content : {s.content}, finish : {s.finish}]

\* The frame at hand is about a call of the answer, or is its text.
LEMMA FrameAtHand ==
  ASSUME ReadingOK, NEW kind, NextFrame(kind)
  PROVE  /\ kind = "text" => stream.at = 0 /\ stream.answer.text
         /\ kind # "text" => Item \in 1..Len(stream.answer.calls)
<1>1. PICK frames \in Seq(Frames), k \in Nat :
        frames = stream.frames /\ k = stream.at + 1 /\ (k = 1 => stream.at = 0)
  BY DEF ReadingOK, FramesOK
<1>2. k \in 1..Len(frames) /\ frames[k].kind = kind /\ Item = frames[k].item
  BY <1>1 DEF NextFrame, Item, ReadingOK
<1>3. IF frames[k].kind = "text" THEN k = 1 /\ stream.answer.text
      ELSE frames[k].item \in 1..Len(stream.answer.calls)
  BY <1>1, <1>2 DEF ReadingOK, FramesOK
<1>4. CASE kind = "text"
  <2>1. k = 1 /\ stream.answer.text
    BY <1>2, <1>3, <1>4
  <2>2. stream.at = 0
    BY <1>1, <2>1
  <2> QED
    BY <1>4, <2>1, <2>2, Zenon
<1>5. CASE kind # "text"
  BY <1>2, <1>3, <1>5
<1> QED
  BY <1>4, <1>5

\* Ids that were emitted are those of accumulators that stay.
LEMMA EmittedKept ==
  ASSUME NEW functions, NEW later, NEW calls, EmittedFrom(functions, calls), Keeps(functions, later)
  PROVE  EmittedFrom(later, calls)
<1> SUFFICES ASSUME NEW n \in 1..Len(calls)
             PROVE  \E j \in 1..Len(later) : later[j].call.id = calls[n]
  BY DEF EmittedFrom
<1>1. PICK k \in 1..Len(functions) : functions[k].call.id = calls[n] /\ calls[n] # NoId
  BY DEF EmittedFrom
<1>2. functions[k].call # NoCall
  BY <1>1 DEF NoCall
<1> QED
  BY <1>1, <1>2 DEF Keeps

\* An event leaves the stream open: a new place, text or accumulators.
LEMMA EventRead ==
  ASSUME StreamOK, ShownOK, Streaming,
         NEW text, NEW functions, NEW texts \in Nat, NEW calls,
         stream' = [stream EXCEPT !.at = stream.at + 1, !.text = text, !.functions = functions],
         shown' = [texts |-> texts, calls |-> calls],
         text \in BOOLEAN, text => stream.answer.text, texts = (IF text THEN 1 ELSE 0),
         FunctionsOK(stream.answer, functions), EmittedFrom(functions, calls)
  PROVE  ShownOK'
<1>1. ReadingOK /\ Reading
  BY DEF ShownOK, Streaming, Reading
<1>2. StreamRecord(stream)
  BY DEF StreamOK, StreamRecord
<1>3. /\ stream.state' = "open" /\ stream.answer' = stream.answer
      /\ stream.frames' = stream.frames /\ stream.at' = stream.at + 1 /\ stream.text' = text
      /\ stream.functions' = functions /\ stream.completed' = stream.completed
      /\ stream.content' = stream.content /\ stream.finish' = stream.finish
  BY <1>1, <1>2 DEF StreamRecord, Reading
<1>4. shown.texts' = texts /\ shown.calls' = calls
  OBVIOUS
<1>5. stream.at' \in Nat /\ stream.at' # 0
  BY <1>1, <1>3 DEF ReadingOK
<1>6. TextOK'
  BY <1>3, <1>4, <1>5 DEF TextOK
<1>7. LastOK'
  BY SMTT(60), <1>1, <1>3 DEF ReadingOK, LastOK
<1>8. FramesOK(stream.answer, stream.frames)' /\ FunctionsOK(stream.answer, stream.functions)'
  BY <1>1, <1>3 DEF ReadingOK, FramesOK, FunctionsOK
<1>9. EmittedFrom(stream.functions, shown.calls)'
  BY <1>3, <1>4 DEF EmittedFrom
<1>10. ReadingOK'
  BY <1>1, <1>3, <1>5, <1>6, <1>7, <1>8, <1>9 DEF ReadingOK
<1>11. shown' \in [texts : Nat, calls : {shown.calls'}]
  BY <1>4
<1>12. AcceptedIsShownOnce'
  BY <1>3 DEF AcceptedIsShownOnce
<1> QED
  BY <1>10, <1>11, <1>12 DEF ShownOK

LEMMA OutcomeKept ==
  ASSUME ShownOK, shown' \in [texts : Nat, calls : {shown.calls'}], stream.state' # "open",
         AcceptedIsShownOnce'
  PROVE  ShownOK'
BY DEF ShownOK, Reading

LEMMA NothingAccepted ==
  ASSUME ShownOK, UNCHANGED shown, stream' = Closed \/ stream' = Over("failed", Nothing, "none")
  PROVE  ShownOK'
<1>1. stream.state' \in {"closed", "failed"}
  <2>1. Closed.state = "closed" /\ Over("failed", Nothing, "none").state = "failed"
    BY DEF Over, Closed
  <2> QED
    BY <2>1, Zenon
<1>2. AcceptedIsShownOnce'
  BY <1>1 DEF AcceptedIsShownOnce
<1>3. shown' \in [texts : Nat, calls : {shown.calls'}]
  BY DEF ShownOK
<1> QED
  BY <1>1, <1>2, <1>3, OutcomeKept

\* The accumulator of the frame at hand, with what the frame tells.
LEMMA AccumulatorTold ==
  ASSUME ReadingOK, Item \in 1..Len(stream.answer.calls),
         NEW call \in {FunctionOf(Item).call, stream.answer.calls[Item]},
         NEW args \in {"empty", "part", "whole"}
  PROVE  \A f : f = [FunctionOf(Item) EXCEPT !.call = call, !.args = args] =>
           /\ f \in Accumulators /\ f.item = Item /\ f.call = call
           /\ FunctionsOK(stream.answer, WithFunction(f))
           /\ Keeps(stream.functions, WithFunction(f))
           /\ f.call \in {NoCall, stream.answer.calls[Item]}
           /\ \E k \in 1..Len(WithFunction(f)) : WithFunction(f)[k] = f
<1>1. stream.answer \in Answers /\ FunctionsOK(stream.answer, stream.functions)
  BY DEF ReadingOK
<1>2. FunctionOf(Item) \in Accumulators /\ FunctionOf(Item).item = Item
  <2>1. PICK k \in 1..Len(ByKey(Item)) :
          FunctionOf(Item) = ByKey(Item)[k] /\ ByKey(Item)[k].item = Item
    BY SMTT(60), <1>1, KeyMade
  <2>2. ByKey(Item) \in Seq(Accumulators)
    BY <1>1, KeyMade DEF FunctionsOK
  <2> QED
    BY <2>1, <2>2
<1>3. stream.answer.calls[Item] \in ModelCalls
  <2>1. PICK calls \in Seq(ModelCalls) : calls = stream.answer.calls
    BY <1>1, AnswersTyped
  <2> QED
    BY <2>1
<1>4. call \in ModelCalls \cup {NoCall}
  BY <1>2, <1>3 DEF Accumulators
<1> SUFFICES ASSUME NEW f, f = [FunctionOf(Item) EXCEPT !.call = call, !.args = args]
             PROVE  /\ f \in Accumulators /\ f.item = Item /\ f.call = call
                    /\ FunctionsOK(stream.answer, WithFunction(f))
                    /\ Keeps(stream.functions, WithFunction(f))
                    /\ f.call \in {NoCall, stream.answer.calls[Item]}
                    /\ \E k \in 1..Len(WithFunction(f)) : WithFunction(f)[k] = f
  OBVIOUS
<1>5. f \in Accumulators /\ f.item = Item /\ f.call = call
  BY <1>2, <1>4 DEF Accumulators
<1>0. PICK answer \in Answers : answer = stream.answer
  BY <1>1
<1>6. PICK item \in 1..Len(answer.calls) : item = Item
  BY <1>0
<1>7. FunctionsOK(answer, stream.functions) /\ f.item = item
      /\ (f.call = FunctionOf(item).call \/ f.call = answer.calls[item])
  BY <1>1, <1>5, <1>0, <1>6
<1>8. /\ FunctionsOK(answer, WithFunction(f)) /\ Keeps(stream.functions, WithFunction(f))
      /\ f.call \in {NoCall, answer.calls[item]}
      /\ \E k \in 1..Len(WithFunction(f)) : WithFunction(f)[k] = f
  <2>1. PICK g \in Accumulators : g = f
    BY <1>5
  <2>2. /\ FunctionsOK(answer, stream.functions) /\ g.item = item
        /\ (g.call = FunctionOf(item).call \/ g.call = answer.calls[item])
    BY <1>7, <2>1
  <2>3. /\ FunctionsOK(answer, WithFunction(g)) /\ Keeps(stream.functions, WithFunction(g))
        /\ g.call \in {NoCall, answer.calls[item]}
        /\ \E k \in 1..Len(WithFunction(g)) : WithFunction(g)[k] = g
    BY SMTT(60), <2>2, FunctionChanged
  <2> QED
    BY <2>1, <2>3
<1> QED
  BY <1>5, <1>0, <1>6, <1>8

LEMMA TextDeltaKeeps ==
  ASSUME StreamOK, ShownOK, TextDelta
  PROVE  ShownOK'
<1>1. /\ ReadingOK /\ Streaming /\ NextFrame("text")
      /\ stream' = [stream EXCEPT !.at = stream.at + 1, !.text = TRUE]
      /\ shown' = [shown EXCEPT !.texts = shown.texts + 1]
      /\ shown \in [texts : Nat, calls : {shown.calls}]
  BY DEF TextDelta, NextFrame, ShownOK, Streaming, Reading
<1>2. stream.at = 0 /\ stream.answer.text
  BY <1>1, FrameAtHand
<1>3. shown.texts = 0
  BY <1>1, <1>2 DEF ReadingOK, TextOK
<1>4. shown' = [texts |-> 1, calls |-> shown.calls]
  BY <1>1, <1>3
<1>5. stream' = [stream EXCEPT !.at = stream.at + 1, !.text = TRUE, !.functions = stream.functions]
  BY <1>1 DEF StreamOK
<1>6. FunctionsOK(stream.answer, stream.functions) /\ EmittedFrom(stream.functions, shown.calls)
  BY <1>1 DEF ReadingOK
<1> QED
  BY <1>1, <1>2, <1>4, <1>5, <1>6, EventRead

LEMMA FunctionEventKeeps ==
  ASSUME StreamOK, ShownOK, ItemAdded \/ ArgumentsDelta
  PROVE  ShownOK'
<1>1. /\ ReadingOK /\ Streaming /\ shown' = shown
      /\ shown \in [texts : Nat, calls : {shown.calls}]
  BY DEF ItemAdded, ArgumentsDelta, NextFrame, ShownOK, Streaming, Reading
<1>2. Item \in 1..Len(stream.answer.calls)
  BY <1>1, FrameAtHand DEF ItemAdded, ArgumentsDelta
<1>3. FunctionOf(Item) \in Accumulators
  <2>1. stream.answer \in Answers /\ FunctionsOK(stream.answer, stream.functions)
    BY <1>1 DEF ReadingOK
  <2>2. PICK k \in 1..Len(ByKey(Item)) :
          FunctionOf(Item) = ByKey(Item)[k] /\ ByKey(Item)[k].item = Item
    BY SMTT(60), <1>2, <2>1, KeyMade
  <2>3. ByKey(Item) \in Seq(Accumulators)
    BY <1>2, <2>1, KeyMade DEF FunctionsOK
  <2> QED
    BY <2>2, <2>3
<1>4. PICK call \in {FunctionOf(Item).call, stream.answer.calls[Item]},
           args \in {"empty", "part", "whole"} :
        stream' = [stream EXCEPT !.at = stream.at + 1, !.functions =
                     WithFunction([FunctionOf(Item) EXCEPT !.call = call, !.args = args])]
  <2>1. CASE ItemAdded
    <3>1. stream' = [stream EXCEPT !.at = stream.at + 1, !.functions = WithFunction(
            [FunctionOf(Item) EXCEPT !.call = stream.answer.calls[Item], !.args = "empty"])]
      BY <2>1 DEF ItemAdded
    <3> QED
      BY <3>1
  <2>2. CASE ArgumentsDelta
    <3>1. PICK args \in {"empty", "part", "whole"} :
            /\ args = Grown(FunctionOf(Item).args)
            /\ stream' = [stream EXCEPT !.at = stream.at + 1, !.functions =
                 WithFunction([FunctionOf(Item) EXCEPT !.args = args])]
      BY <2>2 DEF ArgumentsDelta, Grown
    <3>2. [FunctionOf(Item) EXCEPT !.args = args]
            = [FunctionOf(Item) EXCEPT !.call = FunctionOf(Item).call, !.args = args]
      BY <1>3 DEF Accumulators
    <3> QED
      BY <3>1, <3>2
  <2> QED
    BY <2>1, <2>2
<1> DEFINE f == [FunctionOf(Item) EXCEPT !.call = call, !.args = args]
<1> HIDE DEF f
<1>5. FunctionsOK(stream.answer, WithFunction(f)) /\ Keeps(stream.functions, WithFunction(f))
  <2>1. f = [FunctionOf(Item) EXCEPT !.call = call, !.args = args]
    BY DEF f
  <2> QED
    BY <1>1, <1>2, <2>1, AccumulatorTold
<1>6. EmittedFrom(WithFunction(f), shown.calls)
  <2>1. EmittedFrom(stream.functions, shown.calls)
    BY <1>1 DEF ReadingOK
  <2> QED
    BY <1>5, <2>1, EmittedKept
<1>7. stream' = [stream EXCEPT !.at = stream.at + 1, !.text = stream.text,
                               !.functions = WithFunction(f)]
  BY <1>4 DEF StreamOK, f
<1>8. /\ shown' = [texts |-> shown.texts, calls |-> shown.calls] /\ shown.texts \in Nat
      /\ stream.text \in BOOLEAN /\ (stream.text => stream.answer.text)
      /\ shown.texts = IF stream.text THEN 1 ELSE 0
  BY <1>1 DEF ReadingOK, TextOK
<1> QED
  BY ZenonT(60), <1>1, <1>5, <1>6, <1>7, <1>8, EventRead

LEMMA EmittedMore ==
  ASSUME NEW functions, NEW calls, EmittedFrom(functions, calls), NEW k \in 1..Len(functions),
         functions[k].call \in ModelCalls, functions[k].call.id \notin ToSet(calls)
  PROVE  EmittedFrom(functions, Append(calls, functions[k].call.id))
<1>1. PICK id \in Ids : id = functions[k].call.id
  BY DEF Ids, CallSet
<1>2. id # NoId
  BY <1>1, AnswersAssumption DEF ModelCalls
<1>3. PICK q \in Seq(Ids) : q = calls
  BY DEF EmittedFrom
<1>4. PICK l \in Nat : l = Len(q)
  OBVIOUS
<1>5. /\ Append(q, id) \in Seq(Ids) /\ Len(Append(q, id)) = l + 1 /\ Append(q, id)[l + 1] = id
      /\ \A i \in 1..l : Append(q, id)[i] = q[i]
  BY <1>4, Appended
<1>6. IsInjective(q) /\ id \notin ToSet(q)
  BY <1>1, <1>3 DEF EmittedFrom
<1>7. IsInjective(Append(q, id))
  BY <1>6, EmittedOnce
<1>8. ASSUME NEW n \in 1..(l + 1)
      PROVE  /\ Append(q, id)[n] # NoId
             /\ \E j \in 1..Len(functions) : functions[j].call.id = Append(q, id)[n]
  <2>1. CASE n = l + 1
    BY <1>1, <1>2, <1>5, <2>1
  <2>2. CASE n # l + 1
    <3>1. n \in 1..l
      BY <2>2
    <3> QED
      BY ZenonT(60), <1>3, <1>4, <1>5, <3>1 DEF EmittedFrom
  <2> QED
    BY <2>1, <2>2
<1>9. EmittedFrom(functions, Append(q, id))
  BY SMTT(60), <1>5, <1>7, <1>8 DEF EmittedFrom
<1> QED
  BY <1>1, <1>3, <1>9

LEMMA ArgumentsDoneKeeps ==
  ASSUME StreamOK, ShownOK, ArgumentsDone
  PROVE  ShownOK'
<1>1. /\ ReadingOK /\ Streaming /\ shown \in [texts : Nat, calls : {shown.calls}]
      /\ NextFrame("done") \/ NextFrame("closed")
  BY DEF ArgumentsDone, NextFrame, ShownOK, Streaming, Reading
<1>2. Item \in 1..Len(stream.answer.calls)
  BY <1>1, FrameAtHand
<1>3. FunctionOf(Item) \in Accumulators
  <2>1. stream.answer \in Answers /\ FunctionsOK(stream.answer, stream.functions)
    BY <1>1 DEF ReadingOK
  <2>2. PICK k \in 1..Len(ByKey(Item)) :
          FunctionOf(Item) = ByKey(Item)[k] /\ ByKey(Item)[k].item = Item
    BY SMTT(60), <1>2, <2>1, KeyMade
  <2>3. ByKey(Item) \in Seq(Accumulators)
    BY <1>2, <2>1, KeyMade DEF FunctionsOK
  <2> QED
    BY <2>2, <2>3
<1> DEFINE given == IF stream.frames[stream.at + 1].kind = "done" THEN "whole"
                    ELSE FunctionOf(Item).args
           f == [FunctionOf(Item) EXCEPT !.args = given]
           later == WithFunction(f)
           fails == MayEmit(f.call.id) /\ ~Decodable(later, f.call.id)
           emits == MayEmit(f.call.id) /\ ~fails
<1>4. /\ stream' = IF fails THEN Over("failed", Nothing, "none")
                   ELSE [stream EXCEPT !.at = stream.at + 1, !.functions = later]
      /\ shown' = [shown EXCEPT !.calls = IF emits THEN Append(shown.calls, f.call.id)
                                          ELSE shown.calls]
  BY DEF ArgumentsDone
<1>5. /\ FunctionsOK(stream.answer, later) /\ Keeps(stream.functions, later)
      /\ f.call \in {NoCall, stream.answer.calls[Item]}
      /\ \E k \in 1..Len(later) : later[k] = f
  <2>1. given \in {"empty", "part", "whole"}
    BY <1>3 DEF Accumulators
  <2> HIDE DEF given
  <2>2. f = [FunctionOf(Item) EXCEPT !.call = FunctionOf(Item).call, !.args = given]
    BY <1>3 DEF Accumulators
  <2> HIDE DEF f
  <2> QED
    BY ZenonT(60), <1>1, <1>2, <2>1, <2>2, AccumulatorTold
<1> HIDE DEF f, later
<1>6. CASE fails
  <2>1. ~emits
    BY <1>6
  <2> HIDE DEF emits, fails
  <2>2. shown' = shown
    BY <1>1, <1>4, <2>1
  <2> QED
    BY <1>4, <1>6, <2>2, NothingAccepted
<1>7. CASE ~fails
  <2>1. EmittedFrom(later, shown.calls)
    <3>1. EmittedFrom(stream.functions, shown.calls)
      BY <1>1 DEF ReadingOK
    <3> QED
      BY <1>5, <3>1, EmittedKept
  <2>2. PICK calls : /\ calls = IF emits THEN Append(shown.calls, f.call.id) ELSE shown.calls
                     /\ EmittedFrom(later, calls)
    <3>1. CASE emits
      <4>1. f.call.id # NoId /\ f.call.id \notin ToSet(shown.calls)
        BY <3>1 DEF MayEmit, Emitted
      <4>2. f.call # NoCall
        BY <4>1 DEF NoCall
      <4>3. f.call \in ModelCalls
        <5>1. PICK answer \in Answers : answer = stream.answer
          BY <1>1 DEF ReadingOK
        <5>2. PICK calls \in Seq(ModelCalls) : calls = answer.calls
          BY AnswersTyped
        <5> QED
          BY <1>2, <1>5, <4>2, <5>1, <5>2
      <4>4. PICK k \in 1..Len(later) : later[k] = f
        BY <1>5
      <4>5. EmittedFrom(later, Append(shown.calls, f.call.id))
        BY <2>1, <4>1, <4>3, <4>4, EmittedMore
      <4> QED
        BY <3>1, <4>5
    <3>2. CASE ~emits
      <4> HIDE DEF emits
      <4> QED
        BY <2>1, <3>2
    <3> QED
      BY <3>1, <3>2
  <2>3. stream' = [stream EXCEPT !.at = stream.at + 1, !.text = stream.text, !.functions = later]
    <3> HIDE DEF fails
    <3> QED
      BY <1>4, <1>7 DEF StreamOK
  <2> HIDE DEF emits, fails
  <2>4. shown' = [texts |-> shown.texts, calls |-> calls] /\ shown.texts \in Nat
    BY <1>1, <1>4, <2>2
  <2>5. /\ stream.text \in BOOLEAN /\ (stream.text => stream.answer.text)
        /\ shown.texts = IF stream.text THEN 1 ELSE 0
    BY <1>1 DEF ReadingOK, TextOK
  <2> QED
    BY ZenonT(60), <1>1, <1>5, <2>2, <2>3, <2>4, <2>5, EventRead
<1> QED
  BY <1>6, <1>7

\* The last event: its output is kept, and nothing is shown yet.
LEMMA LastEventKeeps ==
  ASSUME StreamOK, ShownOK, NEW output, Completed(output) \/ Incomplete(output)
  PROVE  ShownOK'
<1>1. ReadingOK /\ Streaming /\ shown' = shown /\ shown \in [texts : Nat, calls : {shown.calls}]
  BY SMTT(60) DEF Completed, Incomplete, ShownOK, Streaming, Reading
<1>2. PICK finish :
        /\ stream' = [stream EXCEPT !.completed = TRUE, !.content = output, !.finish = finish]
        /\ finish # "length" =>
             output \in {stream.answer, Nothing} /\ finish = Inferred(output)
  <2>1. CASE Completed(output)
    BY <2>1 DEF Completed
  <2>2. CASE Incomplete(output)
    BY <2>2 DEF Incomplete
  <2> QED
    BY <2>1, <2>2
<1>3. StreamRecord(stream)
  BY DEF StreamOK, StreamRecord
<1>4. /\ stream.state' = stream.state /\ stream.answer' = stream.answer
      /\ stream.frames' = stream.frames /\ stream.at' = stream.at /\ stream.text' = stream.text
      /\ stream.functions' = stream.functions /\ stream.content' = output
      /\ stream.finish' = finish
  BY <1>2, <1>3 DEF StreamRecord
<1>5. TextOK' /\ LastOK'
  BY SMTT(60), <1>1, <1>2, <1>4 DEF ReadingOK, TextOK, LastOK
<1>6. FramesOK(stream.answer, stream.frames)' /\ FunctionsOK(stream.answer, stream.functions)'
      /\ EmittedFrom(stream.functions, shown.calls)'
  BY <1>1, <1>4 DEF ReadingOK, FramesOK, FunctionsOK, EmittedFrom
<1>7. ReadingOK'
  BY <1>1, <1>4, <1>5, <1>6 DEF ReadingOK
<1>8. AcceptedIsShownOnce'
  BY <1>1, <1>4 DEF AcceptedIsShownOnce, Streaming
<1> QED
  BY <1>1, <1>7, <1>8 DEF ShownOK

-----------------------------------------------------------------------------
(***************************************************************************)
(* Lemmas: the end of the stream                                           *)
(***************************************************************************)
\* Without calls to fall back on nothing was emitted.
LEMMA NoneNamed ==
  ASSUME ReadingOK, Accumulated.calls = <<>>
  PROVE  Emitted = {}
<1>1. /\ stream.functions \in Seq(Accumulators) /\ EmittedFrom(stream.functions, shown.calls)
  BY DEF ReadingOK, FunctionsOK
<1>2. Named = {}
  <2>1. IsFiniteSet(Named)
    <3>1. IsFiniteSet(1..Len(stream.functions))
      BY <1>1, FS_Interval
    <3>2. Named \subseteq 1..Len(stream.functions)
      BY <1>1 DEF Named
    <3> QED
      BY <3>1, <3>2, FS_Subset
  <2>2. PICK n \in Nat : n = Cardinality(Named)
    BY <2>1, FS_CardinalityType
  <2>3. [k \in 1..n |-> NthNamed(k).call] = <<>>
    BY <2>2 DEF Accumulated
  <2>4. DOMAIN [k \in 1..n |-> NthNamed(k).call] = 1..n
    OBVIOUS
  <2>5. 1..n = {}
    BY <2>3, <2>4
  <2>6. n = 0
    <3>1. n # 0 => 1 \in 1..n
      OBVIOUS
    <3> QED
      BY <2>5, <3>1
  <2> QED
    BY <2>1, <2>2, <2>6, FS_EmptySet
<1>3. \A k \in 1..Len(stream.functions) : stream.functions[k].call.id = NoId
  BY <1>1, <1>2 DEF Named, NoCall
<1>4. DOMAIN shown.calls = {}
  <2>1. shown.calls \in Seq(Ids) /\ 1..Len(shown.calls) = {}
    BY SMTT(60), <1>1, <1>3 DEF EmittedFrom
  <2>2. PICK q \in Seq(Ids) : q = shown.calls
    BY <2>1
  <2>3. DOMAIN q = 1..Len(q)
    OBVIOUS
  <2> QED
    BY <2>1, <2>2, <2>3
<1> QED
  BY <1>4 DEF Emitted, ToSet

\* What was emitted is of the answer.
LEMMA EmittedOfAnswer ==
  ASSUME ReadingOK
  PROVE  Emitted \subseteq {stream.answer.calls[i].id : i \in 1..Len(stream.answer.calls)}
<1>1. FunctionsOK(stream.answer, stream.functions) /\ EmittedFrom(stream.functions, shown.calls)
  BY DEF ReadingOK
<1> SUFFICES ASSUME NEW n \in 1..Len(shown.calls)
             PROVE  \E i \in 1..Len(stream.answer.calls) :
                      shown.calls[n] = stream.answer.calls[i].id
  <2>1. PICK q \in Seq(Ids) : q = shown.calls
    BY <1>1 DEF EmittedFrom
  <2>2. Emitted = {q[n] : n \in 1..Len(q)}
    BY <2>1 DEF Emitted, ToSet
  <2> QED
    BY SMTT(60), <2>1, <2>2
<1>2. PICK k \in 1..Len(stream.functions) :
        stream.functions[k].call.id = shown.calls[n] /\ shown.calls[n] # NoId
  BY <1>1 DEF EmittedFrom
<1>3. stream.functions[k].call # NoCall
  BY <1>2 DEF NoCall
<1>4. /\ stream.functions[k].item \in 1..Len(stream.answer.calls)
      /\ stream.functions[k].call = stream.answer.calls[stream.functions[k].item]
  BY SMTT(60), <1>1, <1>3 DEF FunctionsOK
<1> QED
  BY SMTT(60), <1>2, <1>4

LEMMA IdsOfCalls ==
  ASSUME NEW calls \in Seq(ModelCalls)
  PROVE  ToSet(IdsOf(calls)) = {calls[i].id : i \in 1..Len(calls)}
BY DEF ToSet, IdsOf

\* The content the stream ends with, shown as far as it is still owed.
LEMMA OwedIsShown ==
  ASSUME StreamOK, ReadingOK, stream.state = "open", stream.completed,
         shown \in [texts : Nat, calls : {shown.calls}],
         NEW content, content = (IF stream.content = Nothing THEN Accumulated ELSE stream.content),
         NEW calls, calls = content.calls,
         (stream.finish = "tool_calls") <=> (calls # <<>>)
  PROVE  /\ content.text => Owed(content).texts = 1
         /\ Owed(content).texts \in Nat /\ IsInjective(Owed(content).calls)
         /\ ToSet(IdsOf(calls)) \subseteq ToSet(Owed(content).calls)
         /\ stream.finish # "length" =>
              /\ ToSet(Owed(content).calls) = ToSet(IdsOf(calls))
              /\ Owed(content).texts = 1 => content.text
<1>1. calls \in Seq(ModelCalls)
  <2>1. CASE calls = <<>>
    <3>1. <<>> \in Seq(ModelCalls)
      OBVIOUS
    <3> QED
      BY <2>1, <3>1, Zenon
  <2>2. CASE calls # <<>>
    <3>1. stream.finish = "tool_calls"
      BY <2>2
    <3>2. stream.content.calls \in Seq(ModelCalls) /\ stream.content.calls # <<>>
      BY <3>1 DEF StreamOK
    <3>3. stream.content # Nothing
      BY <3>2 DEF Nothing
    <3> QED
      BY <3>2, <3>3
  <2> QED
    BY <2>1, <2>2
<1>2. shown.calls \in Seq(Ids) /\ IsInjective(shown.calls)
  BY DEF ReadingOK, EmittedFrom
<1>3. /\ Owed(content).calls = EmittedWith(calls)
      /\ Owed(content).texts = shown.texts + IF content.text /\ ~stream.text THEN 1 ELSE 0
  BY DEF Owed
<1>4. /\ IsInjective(EmittedWith(calls))
      /\ ToSet(EmittedWith(calls)) = Emitted \cup ToSet(IdsOf(calls))
  BY SMTT(60), <1>1, <1>2, EmittedAll, IdsOfCalls
<1>5. /\ stream.text \in BOOLEAN /\ (stream.text => stream.answer.text)
      /\ shown.texts = IF stream.text THEN 1 ELSE 0
  BY DEF ReadingOK, TextOK
<1>6. Owed(content).texts \in Nat /\ (content.text => Owed(content).texts = 1)
  BY <1>3, <1>5
<1>7. ASSUME stream.finish # "length"
      PROVE  Emitted \subseteq ToSet(IdsOf(calls)) /\ (Owed(content).texts = 1 => content.text)
  <2>1. stream.content \in {stream.answer, Nothing} /\ stream.finish = Inferred(stream.content)
    BY <1>7 DEF ReadingOK, LastOK
  <2>2. CASE stream.content = Nothing
    <3>1. stream.finish = "stop"
      BY <2>1, <2>2 DEF Inferred, Nothing
    <3>2. Accumulated.calls = <<>> /\ content = Accumulated
      BY <2>2, <3>1
    <3>3. Emitted = {}
      BY <3>2, NoneNamed
    <3>4. content.text = stream.text
      BY <3>2 DEF Accumulated
    <3>5. Owed(content).texts = 1 => content.text
      BY <1>3, <1>5, <3>4
    <3> QED
      BY <3>3, <3>5
  <2>3. CASE stream.content # Nothing
    <3>1. content = stream.answer
      BY <2>1, <2>3
    <3>2. Emitted \subseteq ToSet(IdsOf(calls))
      <4>1. Emitted \subseteq {calls[i].id : i \in 1..Len(calls)}
        BY SMTT(60), <3>1, EmittedOfAnswer
      <4> QED
        BY <1>1, <4>1, IdsOfCalls
    <3>3. Owed(content).texts = 1 => content.text
      BY <1>3, <1>5, <3>1
    <3> QED
      BY <3>2, <3>3
  <2> QED
    BY <2>2, <2>3
<1> QED
  BY <1>3, <1>4, <1>6, <1>7

LEMMA EndOfStreamKeeps ==
  ASSUME StreamOK, ShownOK, EndOfStream
  PROVE  ShownOK'
<1>1. /\ ReadingOK /\ stream.state = "open" /\ shown \in [texts : Nat, calls : {shown.calls}]
  BY DEF EndOfStream, ShownOK, Reading
<1>2. CASE stream' = Over("failed", Nothing, "none") /\ UNCHANGED shown
  BY <1>2, NothingAccepted
<1>3. CASE ~(stream' = Over("failed", Nothing, "none") /\ UNCHANGED shown)
  <2>1. PICK content :
          /\ content = IF stream.content = Nothing THEN Accumulated ELSE stream.content
          /\ stream' = Over("answered", content, stream.finish) /\ shown' = Owed(content)
          /\ stream.completed
    BY <1>3 DEF EndOfStream
  <2>2. /\ stream.state' = "answered" /\ stream.content' = content
        /\ stream.finish' = stream.finish
    BY <2>1 DEF Over, Closed
  <2>3. shown' = [texts |-> shown.texts', calls |-> shown.calls'] /\ shown.texts' \in Nat
    BY <1>1, <2>1 DEF Owed
  <2>4. ASSUME Valid'
        PROVE  /\ stream.content.text' => shown.texts' = 1
               /\ IsInjective(shown.calls')
               /\ ToSet(IdsOf(stream.content.calls')) \subseteq ToSet(shown.calls')
               /\ stream.finish' # "length" =>
                    /\ ToSet(shown.calls') = ToSet(IdsOf(stream.content.calls'))
                    /\ shown.texts' = 1 => stream.content.text'
    <3>1. (stream.finish = "tool_calls") <=> (content.calls # <<>>)
      BY <2>2, <2>4 DEF Valid
    <3>2. PICK calls : calls = content.calls
      OBVIOUS
    <3>3. /\ content.text => Owed(content).texts = 1
          /\ IsInjective(Owed(content).calls)
          /\ ToSet(IdsOf(calls)) \subseteq ToSet(Owed(content).calls)
          /\ stream.finish # "length" =>
               /\ ToSet(Owed(content).calls) = ToSet(IdsOf(calls))
               /\ Owed(content).texts = 1 => content.text
      BY <1>1, <2>1, <3>1, <3>2, OwedIsShown
    <3> QED
      BY <2>1, <2>2, <3>2, <3>3
  <2>5. AcceptedIsShownOnce'
    BY <2>4 DEF AcceptedIsShownOnce, Emitted
  <2>6. shown' \in [texts : Nat, calls : {shown.calls'}]
    BY <2>3
  <2> QED
    BY <2>2, <2>5, <2>6, OutcomeKept
<1> QED
  BY <1>2, <1>3

LEMMA ChatReplyKeeps ==
  ASSUME ShownOK, NEW finish, ChatReply(finish)
  PROVE  ShownOK'
<1>1. PICK content, reason :
        stream' = Over("answered", content, reason) /\ shown' = ShownWhole(content)
  BY DEF ChatReply
<1>2. stream.state' = "answered" /\ stream.content' = content
  BY <1>1 DEF Over, Closed
<1>3. /\ shown.texts' = (IF content.text THEN 1 ELSE 0) /\ shown.calls' = IdsOf(content.calls)
      /\ shown' \in [texts : Nat, calls : {shown.calls'}]
  BY <1>1 DEF ShownWhole
<1>4. AcceptedIsShownOnce'
  <2>1. Valid' => IsInjective(IdsOf(content.calls))
    BY <1>2 DEF Valid
  <2>2. Emitted' = ToSet(IdsOf(content.calls))
    BY <1>3 DEF Emitted
  <2>3. shown.texts' = 1 <=> content.text
    BY <1>3
  <2> QED
    BY <1>2, <1>3, <2>1, <2>2, <2>3 DEF AcceptedIsShownOnce
<1> QED
  BY <1>2, <1>3, <1>4, OutcomeKept

LEMMA StreamKeepsShown ==
  ASSUME StreamOK, ShownOK, StreamStep
  PROVE  ShownOK'
<1>1. ASSUME NEW output, Completed(output) \/ Incomplete(output) PROVE ShownOK'
  BY <1>1, LastEventKeeps
<1>2. CASE StreamFails
  BY <1>2, NothingAccepted DEF StreamFails
<1>3. ASSUME NEW finish, ChatReply(finish) PROVE ShownOK'
  BY <1>3, ChatReplyKeeps
<1> QED
  BY <1>1, <1>2, <1>3, TextDeltaKeeps, FunctionEventKeeps, ArgumentsDoneKeeps,
     EndOfStreamKeeps DEF StreamStep

\* A request opens a stream of which nothing was shown.
LEMMA OpenedShown ==
  ASSUME NEW adapter, OpenStream(adapter)
  PROVE  ShownOK'
<1>1. PICK answer \in Answers, style \in Styles \cup {"silent"} :
        /\ stream' = [Closed EXCEPT !.state = "open", !.adapter = adapter, !.answer = answer,
                        !.frames = IF adapter = "chat" THEN <<>> ELSE FramesOf(style, answer)]
        /\ shown' = NothingShown
  BY DEF OpenStream
<1>2. /\ stream.state' = "open" /\ stream.adapter' = adapter /\ stream.answer' = answer
      /\ stream.frames' = (IF adapter = "chat" THEN <<>> ELSE FramesOf(style, answer))
      /\ stream.at' = 0 /\ stream.text' = FALSE /\ stream.functions' = <<>>
      /\ stream.completed' = FALSE
  BY <1>1 DEF Closed
<1>3. shown.texts' = 0 /\ shown.calls' = <<>> /\ shown' \in [texts : Nat, calls : {shown.calls'}]
  BY <1>1 DEF NothingShown
<1>4. AcceptedIsShownOnce'
  BY <1>2 DEF AcceptedIsShownOnce
<1>5. ASSUME Reading' PROVE ReadingOK'
  <2>1. FramesOK(stream.answer, stream.frames)'
    <3>1. stream.frames' = FramesOf(style, answer)
      BY <1>2, <1>5 DEF Reading
    <3>2. FramesOK(answer, FramesOf(style, answer))
      BY FramesTyped
    <3> QED
      BY <1>2, <3>1, <3>2 DEF FramesOK
  <2>2. /\ <<>> \in Seq(Accumulators) /\ Len(<<>>) = 0
        /\ <<>> \in Seq(Ids) /\ IsInjective(<<>>)
    BY DEF IsInjective
  <2>3. FunctionsOK(stream.answer, stream.functions)'
    BY <1>2, <2>2 DEF FunctionsOK
  <2>4. EmittedFrom(stream.functions, shown.calls)'
    BY <1>2, <1>3, <2>2 DEF EmittedFrom
  <2>5. TextOK' /\ LastOK'
    BY <1>2, <1>3 DEF TextOK, LastOK
  <2> QED
    BY <1>2, <2>1, <2>3, <2>4, <2>5 DEF ReadingOK
<1> QED
  BY <1>3, <1>4, <1>5 DEF ShownOK

-----------------------------------------------------------------------------
(***************************************************************************)
(* The theorem                                                             *)
(***************************************************************************)
\* A step of the loop leaves the stream, closes it, opens one or is a step of it.
LEMMA StreamSteps ==
  ASSUME [Next]_vars
  PROVE  \/ UNCHANGED <<stream, shown>> \/ CloseStream \/ StreamStep
         \/ \E adapter : OpenStream(adapter)
<1> DEFINE Goal == \/ UNCHANGED <<stream, shown>> \/ CloseStream \/ StreamStep
                   \/ \E adapter : OpenStream(adapter)
<1> SUFFICES Goal
  OBVIOUS
<1>1. ASSUME NEW status, End(status) PROVE Goal
  BY <1>1 DEF End
<1>2. CASE UNCHANGED vars
  BY <1>2 DEF vars
<1>3. ASSUME Cancel \/ \E r \in Request : BeginTurn(r) PROVE Goal
  BY <1>3 DEF BeginTurn, Cancel
<1>4. CASE Fail \/ StepLimitReached \/ CancelSeen \/ RefuseAnswer \/ UnknownTool \/ ToolCancelled
             \/ ShellCancelled
  <2>1. CASE Fail
    <3>1. CloseStream
      BY <2>1 DEF Fail, End
    <3> QED
      BY <3>1
  <2>2. CASE StepLimitReached
    <3>1. CloseStream
      BY <2>2 DEF StepLimitReached, End
    <3> QED
      BY <3>1
  <2>3. CASE CancelSeen
    <3>1. CloseStream
      BY <2>3 DEF CancelSeen, End
    <3> QED
      BY <3>1
  <2>4. CASE RefuseAnswer
    <3>1. CloseStream
      BY <2>4 DEF RefuseAnswer, End
    <3> QED
      BY <3>1
  <2>5. CASE UnknownTool
    <3>1. CloseStream
      BY <2>5 DEF UnknownTool, End
    <3> QED
      BY <3>1
  <2>6. CASE ToolCancelled
    <3>1. CloseStream
      BY <2>6 DEF ToolCancelled, End
    <3> QED
      BY <3>1
  <2>7. CASE ShellCancelled
    <3>1. CloseStream
      BY <2>7 DEF ShellCancelled, End
    <3> QED
      BY <3>1
  <2> QED
    BY <1>4, <2>1, <2>2, <2>3, <2>4, <2>5, <2>6, <2>7
<1>5. CASE StartStep
  BY <1>5 DEF StartStep
<1>6. CASE Receive
  BY <1>6 DEF Receive
<1>7. CASE \/ TakeAnswer \/ AskApproval \/ AllowCall \/ ApprovalGranted
           \/ ToolEnters \/ ToolStarts
             \/ (\E decision \in {"approved", "denied"} : Respond(decision))
  BY <1>7 DEF TakeAnswer, AskApproval, AllowCall, ApprovalGranted, ToolEnters, ToolStarts,
     Respond
<1>8. CASE PersistAnswer
  <2>1. CASE stream.content.calls = <<>>
    BY <1>1, <1>8, <2>1 DEF PersistAnswer
  <2>2. CASE stream.content.calls # <<>>
    BY <1>8, <2>2 DEF PersistAnswer
  <2> QED
    BY <2>1, <2>2
<1>9. CASE ForbidCall \/ ApprovalDenied \/ ToolRefuses \/ ToolReturns \/ ShellExits
  BY <1>9 DEF ForbidCall, ApprovalDenied, ToolRefuses, ToolReturns, ShellExits
<1>10. CASE \/ \E a \in Answers : \E c \in ToSet(a.calls) : BackendUses(c.id)
            \/ \E outcome \in {"text", "error", "interrupted"} : BackendReturns(outcome)
            \/ ActivityResult \/ DirectBegins \/ DirectCommits
  BY <1>10 DEF BackendUses, BackendReturns, ActivityResult, DirectBegins, DirectCommits
<1>11. CASE BackendReport
  BY <1>1, <1>11 DEF BackendReport
<1> HIDE DEF Goal
<1>12. CASE Next
  BY <1>3, <1>4, <1>5, <1>6, <1>7, <1>8, <1>9, <1>10, <1>11, <1>12, Zenon DEF Next
<1> QED
  BY <1>2, <1>12

LEMMA NextKeepsShown ==
  ASSUME Inv, ShownOK, [Next]_vars
  PROVE  ShownOK'
<1>1. CASE UNCHANGED <<stream, shown>>
  <2>1. shown' \in [texts : Nat, calls : {shown.calls'}]
    BY <1>1 DEF ShownOK
  <2>2. AcceptedIsShownOnce'
    BY SMTT(60), <1>1 DEF ShownOK, AcceptedIsShownOnce, Valid, Emitted
  <2>3. ASSUME Reading' PROVE ReadingOK'
    <3>1. ReadingOK
      BY <1>1, <2>3 DEF ShownOK, Reading
    <3> QED
      BY <1>1, <3>1 DEF ReadingOK, FramesOK, FunctionsOK, TextOK, EmittedFrom, LastOK
  <2> QED
    BY <2>1, <2>2, <2>3 DEF ShownOK
<1>2. CASE CloseStream
  <2>1. stream.state' = "closed" /\ shown' \in [texts : Nat, calls : {shown.calls'}]
    BY <1>2 DEF CloseStream, Closed, NothingShown
  <2>2. AcceptedIsShownOnce'
    BY <2>1 DEF AcceptedIsShownOnce
  <2> QED
    BY <2>1, <2>2, OutcomeKept
<1>3. CASE StreamStep
  BY <1>3, StreamKeepsShown DEF Inv
<1>4. CASE \E adapter : OpenStream(adapter)
  BY <1>4, OpenedShown
<1> QED
  BY <1>1, <1>2, <1>3, <1>4, StreamSteps

\* What the client was shown of an answer the runtime accepts is the answer: its
\* text once and each of its calls once, whichever events carried them and
\* however often; only an answer cut short may have shown more than it returns
\* (ResponseStreamState::finish, emit_response).
THEOREM AcceptedShownOnce == Spec => []AcceptedIsShownOnce
<1>1. Init => ShownOK
  <2>1. Init => stream.state = "closed" /\ shown \in [texts : Nat, calls : {shown.calls}]
    BY DEF Init, Closed, NothingShown
  <2>2. Init => AcceptedIsShownOnce /\ ~Reading
    BY <2>1 DEF AcceptedIsShownOnce, Reading
  <2> QED
    BY <2>1, <2>2 DEF ShownOK
<1>2. Inv /\ ShownOK /\ [Next]_vars => ShownOK'
  BY NextKeepsShown
<1>3. ShownOK => AcceptedIsShownOnce
  BY DEF ShownOK
<1> QED
  BY <1>1, <1>2, <1>3, Invariance, PTL DEF Spec

-----------------------------------------------------------------------------
(***************************************************************************)
(* What a request holds                                                    *)
(***************************************************************************)
\* Turns follow each other, and every result has the answer before it that
\* made its call.
Ordered ==
  \A i, j \in DOMAIN history : i < j /\ history[j].turn # 0 => history[i].turn <= history[j].turn

Backed ==
  /\ turn # 0 => history # <<>>
  /\ \A j \in DOMAIN history :
       /\ history[j].role = "user" => history[j].calls = <<>>
       /\ history[j].role = "tool" => \E k \in Asking : j \in ResultsOf(k)

\* A request begins with a group of messages, and holds all of its Turn.
StartsGroup(k) ==
  k = 1 \/ history[k].turn = 0 \/ history[k - 1].turn # history[k].turn

SentOK ==
  pc = "model" => sent.from \in 1..sent.to /\ StartsGroup(sent.from) /\ CurrentTurnIsSent

HistoryOK == Ordered /\ Backed /\ SentOK

LEMMA MinOf ==
  ASSUME NEW S, S \subseteq Nat, S # {}
  PROVE  Min(S) \in S /\ \A x \in S : Min(S) <= x
BY LeastOf DEF Min

\* What a step may add to the history, and which step makes a request.
Asked(m) == m.role # "tool" /\ (m.role = "user" => m.calls = <<>>)

Added(m) ==
  /\ history' = Append(history, m) /\ m.turn = turn' /\ turn' # 0 /\ pc' # "model"
  /\ Asked(m) \/ (m.role = "tool" /\ pc \in Working /\ turn' = turn)

LEMMA TurnWhenBusy ==
  ASSUME Inv, pc # "idle"
  PROVE  turn \in TurnIds /\ turn \in Nat \ {0}
BY TurnIdsAre DEF Inv, PlacesOK

LEMMA ResultAdded ==
  ASSUME Inv, pc \in Working, turn' = turn, pc' # "model",
         \E img \in BOOLEAN : history' = Append(history, Result(turn, Call.id, img))
  PROVE  \E m \in Messages : Added(m)
<1>1. turn \in Nat \ {0}
  BY TurnWhenBusy DEF Working
<1>2. Call.id \in Ids
  <2>1. todo \in Seq(CallSet) /\ todo # <<>>
    BY DEF Inv, DataOK, TypeOK, Working
  <2> QED
    BY <2>1, Shortened DEF Call, Ids
<1>3. PICK img \in BOOLEAN : history' = Append(history, Result(turn, Call.id, img))
  OBVIOUS
<1>4. /\ Result(turn, Call.id, img) \in Messages /\ Result(turn, Call.id, img).turn = turn
      /\ Result(turn, Call.id, img).role = "tool"
  BY <1>1, <1>2, ResultTyped
<1> QED
  BY <1>1, <1>3, <1>4 DEF Added

LEMMA HistorySteps ==
  ASSUME Inv, [Next]_vars
  PROVE  /\ pc' = "model" => StartStep \/ UNCHANGED <<pc, sent, turn>>
         /\ turn \in Nat /\ turn' \in Nat /\ turn <= turn'
         /\ \/ history' = history /\ turn' = turn
            \/ \E m \in Messages : Added(m)
            \/ history' = history \o <<Message(0, "user"), TextReply(0)>> /\ turn' = turn
<1>0. /\ DataOK /\ TypeOK /\ StreamOK /\ PlacesOK /\ PermittedOK /\ turn \in Nat
  BY TurnIdsAre DEF Inv, TypeOK, Types
<1> DEFINE Goal == /\ pc' = "model" => StartStep \/ UNCHANGED <<pc, sent, turn>>
                   /\ turn' \in Nat /\ turn <= turn'
                   /\ \/ history' = history /\ turn' = turn
                      \/ \E m \in Messages : Added(m)
                      \/ /\ history' = history \o <<Message(0, "user"), TextReply(0)>>
                         /\ turn' = turn
<1> SUFFICES Goal
  BY SMTT(60), <1>0
<1>1. ASSUME turn' = turn, pc' = "model" => StartStep \/ UNCHANGED <<pc, sent, turn>>,
             \/ history' = history
             \/ \E m \in Messages : Added(m)
             \/ history' = history \o <<Message(0, "user"), TextReply(0)>>
      PROVE  Goal
  BY SMTT(60), <1>0, <1>1
<1>2. ASSUME NEW r \in Request, BeginTurn(r) PROVE Goal
  <2>1. turn' = turn + 1 /\ pc' # "model"
    BY <1>2 DEF BeginTurn
  <2>2. r.access \in {"none", "read_only", "read_write"} /\ turn + 1 \in Nat
    BY <1>0 DEF Request
  <2> DEFINE m == Question(turn + 1, r.access)
  <2>3. m \in Messages /\ m.turn = turn + 1 /\ m.role = "user" /\ m.calls = <<>>
    BY <2>2, QuestionTyped
  <2>4. history' = Append(history, m)
    BY <1>2 DEF BeginTurn
  <2> HIDE DEF m
  <2>5. Added(m)
    BY <1>0, <2>1, <2>3, <2>4 DEF Added, Asked
  <2> QED
    BY <1>0, <2>1, <2>3, <2>5
<1>3. CASE \/ Fail \/ StepLimitReached \/ CancelSeen \/ RefuseAnswer \/ UnknownTool
           \/ ToolCancelled \/ ShellCancelled
  <2>1. turn' = turn /\ pc' = "idle" /\ history' = history
    BY <1>3 DEF Fail, StepLimitReached, CancelSeen, RefuseAnswer, UnknownTool,
       ToolCancelled, ShellCancelled, End
  <2> QED
    BY <1>1, <2>1
<1>4. CASE \/ Cancel \/ DirectBegins \/ AskApproval \/ AllowCall \/ ApprovalGranted \/ ToolEnters
                \/ ToolStarts
           \/ StartStep \/ Receive \/ TakeAnswer
           \/ \E decision \in {"approved", "denied"} : Respond(decision)
           \/ \E a \in Answers : \E c \in ToSet(a.calls) : BackendUses(c.id)
  <2>1. turn' = turn /\ history' = history
    BY <1>4 DEF Cancel, DirectBegins, AskApproval, AllowCall, ApprovalGranted, ToolEnters,
                ToolStarts,
                StartStep, Receive, TakeAnswer, Respond, BackendUses, loop
  <2>2. pc' = "model" => StartStep \/ UNCHANGED <<pc, sent, turn>>
    BY <1>4 DEF Cancel, DirectBegins, AskApproval, AllowCall, ApprovalGranted, ToolEnters,
                ToolStarts,
                Receive, TakeAnswer, Respond, BackendUses, loop
  <2> QED
    BY <1>1, <2>1, <2>2
<1>5. CASE \/ ForbidCall \/ ApprovalDenied \/ ToolRefuses \/ ToolReturns \/ ShellExits
           \/ ActivityResult
  <2>1. turn' = turn /\ pc' # "model" /\ pc \in Working
    BY <1>5 DEF ForbidCall, ApprovalDenied, ToolRefuses, ToolReturns, ShellExits,
       ActivityResult, Answer, loop, Working
  <2>2. \E img \in BOOLEAN : history' = Append(history, Result(turn, Call.id, img))
    <3>1. CASE ToolReturns
      <4>1. PICK img \in {FALSE, Tools[Call.tool].shows} : Answer(img)
        BY <3>1 DEF ToolReturns
      <4>2. img \in BOOLEAN
        BY <1>0, <3>1, <4>1, ToolsTyped DEF PermittedOK, ToolReturns
      <4> QED
        BY <4>1, <4>2 DEF Answer
    <3>2. CASE ~ToolReturns
      BY <1>5, <3>2 DEF ForbidCall, ApprovalDenied, ToolRefuses, ShellExits,
         ActivityResult, Answer
    <3> QED
      BY <3>1, <3>2
  <2> QED
    BY <1>1, <2>1, <2>2, ResultAdded
<1>6. ASSUME NEW ids \in Seq(Ids), NEW text \in BOOLEAN, turn' = turn, pc' # "model", pc # "idle",
             history' = Append(history, Reply(turn, text, ids))
      PROVE  Goal
  <2>1. Reply(turn, text, ids) \in Messages /\ Reply(turn, text, ids).turn = turn
        /\ Reply(turn, text, ids).role = "assistant"
    BY <1>0, ReplyTyped
  <2>2. Added(Reply(turn, text, ids))
    BY <1>6, <2>1, TurnWhenBusy DEF Added, Asked
  <2> QED
    BY <1>1, <1>6, <2>1, <2>2
<1>7. CASE PersistAnswer
  <2>1. stream.content.calls \in Seq(CallSet)
    <3>1. Valid
      BY <1>0, <1>7 DEF StreamOK, PersistAnswer
    <3>2. CASE stream.content.calls = <<>>
      BY <3>2
    <3>3. CASE stream.content.calls # <<>>
      BY <1>0, <3>1, <3>3, CallsTyped DEF Valid, StreamOK
    <3> QED
      BY <3>2, <3>3
  <2>2. /\ pc = "persist" /\ turn' = turn /\ pc' # "model"
        /\ history' = Append(history, Reply(turn, stream.content.text, IdsOf(stream.content.calls)))
    BY <1>7 DEF PersistAnswer, End
  <2>3. stream.content.text \in BOOLEAN
    BY <1>0 DEF StreamOK
  <2> HIDE DEF Goal
  <2> QED
    BY <1>6, <2>1, <2>2, <2>3, IdsTyped
<1>8. ASSUME NEW outcome, BackendReturns(outcome) PROVE Goal
  <2>1. /\ pc = "backend" /\ turn' = turn /\ pc' # "model" /\ IdsOf(todo) \in Seq(Ids)
    BY <1>0, <1>8, IdsTyped DEF BackendReturns, DataOK, loop
  <2>2. \/ history' = history
        \/ \E text \in BOOLEAN : history' = Append(history, Reply(turn, text, IdsOf(todo)))
    BY <1>8, Zenon DEF BackendReturns
  <2> HIDE DEF Goal
  <2>3. CASE history' = history
    BY <1>1, <2>1, <2>3
  <2> QED
    BY <1>6, <2>1, <2>2, <2>3
<1>9. CASE BackendReport
  <2>1. /\ pc = "report" /\ turn' = turn /\ pc' # "model"
        /\ history' = history \/ history' = Append(history, TextReply(turn))
    BY <1>9 DEF BackendReport, End
  <2>2. /\ TextReply(turn) \in Messages /\ TextReply(turn).turn = turn
        /\ TextReply(turn).role = "assistant"
    BY <1>0, FinalReplyTyped
  <2>3. history' = history \/ Added(TextReply(turn))
    BY <2>1, <2>2, TurnWhenBusy DEF Added, Asked
  <2> QED
    BY <1>1, <2>1, <2>2, <2>3
<1>10. CASE DirectCommits
  BY <1>1, <1>10 DEF DirectCommits, loop
<1>11. CASE UNCHANGED vars
  BY <1>1, <1>11 DEF vars, loop
<1>12. CASE Next
  <2> HIDE DEF Goal
  <2> QED
    BY <1>12, <1>2, <1>3, <1>4, <1>5, <1>7, <1>8, <1>9, <1>10 DEF Next
<1> HIDE DEF Goal
<1> QED
  BY <1>11, <1>12

LEMMA BesideTyped ==
  /\ Message(0, "user") \in Messages /\ Message(0, "user").turn = 0
  /\ Message(0, "user").role = "user" /\ Message(0, "user").calls = <<>>
  /\ TextReply(0) \in Messages /\ TextReply(0).turn = 0
  /\ TextReply(0).role = "assistant" /\ TextReply(0).calls = <<>>
<1>1. <<>> \in Seq(Ids) /\ 0 \in Nat
  OBVIOUS
<1>2. /\ Message(0, "user") \in Messages /\ Message(0, "user").turn = 0
      /\ Message(0, "user").role = "user" /\ Message(0, "user").calls = <<>>
  BY <1>1 DEF Message, Messages
<1> QED
  <2>1. /\ TextReply(0) \in Messages /\ TextReply(0).turn = 0
        /\ TextReply(0).role = "assistant" /\ TextReply(0).calls = <<>>
    BY <1>1, FinalReplyTyped
  <2> QED
    BY <1>2, <2>1

LEMMA OrderedKeeps ==
  ASSUME Inv, Ordered, [Next]_vars
  PROVE  Ordered'
<1>0. /\ history \in Seq(Messages) /\ turn \in Nat /\ turn' \in Nat /\ turn <= turn'
      /\ \A k \in DOMAIN history : history[k].turn <= turn /\ history[k].turn \in Nat
  <2>1. history \in Seq(Messages) /\ \A k \in DOMAIN history : history[k].turn <= turn
    BY DEF Inv, DataOK
  <2>2. \A k \in DOMAIN history : history[k] \in Messages
    BY <2>1
  <2> QED
    BY <2>1, <2>2, HistorySteps DEF Messages
<1>1. CASE history' = history
  BY <1>1 DEF Ordered
<1>2. ASSUME NEW m \in Messages, Added(m) PROVE Ordered'
  <2>1. /\ Len(history) \in Nat /\ DOMAIN history = 1..Len(history)
        /\ DOMAIN history' = 1..Len(history) + 1 /\ history'[Len(history) + 1] = m
        /\ \A i \in 1..Len(history) : history'[i] = history[i]
    BY <1>0, <1>2, Appended DEF Added
  <2> SUFFICES ASSUME NEW i \in 1..Len(history) + 1, NEW j \in 1..Len(history) + 1, i < j,
                      history'[j].turn # 0
               PROVE  history'[i].turn <= history'[j].turn
    BY <2>1 DEF Ordered
  <2>2. i \in 1..Len(history) /\ history'[i] = history[i]
    BY <2>1
  <2>3. CASE j = Len(history) + 1
    <3>1. history'[j].turn = turn' /\ history[i].turn <= turn /\ history[i].turn \in Nat
      BY <1>0, <1>2, <2>1, <2>2, <2>3 DEF Added
    <3> QED
      BY SMTT(60), <1>0, <2>2, <3>1
  <2>4. CASE j # Len(history) + 1
    <3>1. j \in 1..Len(history) /\ history'[j] = history[j]
      BY <2>1, <2>4
    <3> QED
      BY <2>1, <2>2, <3>1 DEF Ordered
  <2> QED
    BY <2>3, <2>4
<1>3. CASE history' = history \o <<Message(0, "user"), TextReply(0)>>
  <2>1. /\ Len(history) \in Nat /\ DOMAIN history = 1..Len(history)
        /\ DOMAIN history' = 1..Len(history) + 2
        /\ \A i \in 1..Len(history) : history'[i] = history[i]
        /\ history'[Len(history) + 1].turn = 0 /\ history'[Len(history) + 2].turn = 0
    BY <1>0, <1>3, BesideTyped, AppendedTwo
  <2> SUFFICES ASSUME NEW i \in 1..Len(history) + 2, NEW j \in 1..Len(history) + 2, i < j,
                      history'[j].turn # 0
               PROVE  history'[i].turn <= history'[j].turn
    BY <2>1 DEF Ordered
  <2>2. j # Len(history) + 1 /\ j # Len(history) + 2
    BY <2>1
  <2>3. i \in 1..Len(history) /\ j \in 1..Len(history)
    BY <2>1, <2>2
  <2> QED
    BY <2>1, <2>3 DEF Ordered
<1> QED
  BY SMTT(60), <1>1, <1>2, <1>3, HistorySteps

LEMMA BackedKeeps ==
  ASSUME Inv, Backed, [Next]_vars
  PROVE  Backed'
<1>0. /\ history \in Seq(Messages) /\ AnswersOK /\ turn \in Nat
  BY HistorySteps DEF Inv, DataOK
<1>1. CASE history' = history /\ turn' = turn
  <2>1. Asking' = Asking /\ \A k \in Asking : ResultsOf(k)' = ResultsOf(k)
    BY <1>1 DEF Asking, ResultsOf, Behind
  <2> QED
    BY <1>1, <2>1 DEF Backed
<1>2. ASSUME NEW m \in Messages, Added(m) PROVE Backed'
  <2>0. PICK n : n = Len(history) + 1
    OBVIOUS
  <2>1. /\ n \notin DOMAIN history /\ DOMAIN history' = DOMAIN history \cup {n}
        /\ history'[n] = m
        /\ \A k \in DOMAIN history :
              /\ history'[k] = history[k]
              /\ ResultsOf(k)' = IF /\ history[k].turn = m.turn /\ m.role = "tool"
                                    /\ Behind(k) = ResultsOf(k)
                                 THEN ResultsOf(k) \cup {n} ELSE ResultsOf(k)
    BY <1>0, <1>2, <2>0, MessageAdded DEF Added
  <2>2. Asking \subseteq Asking' /\ Asking \subseteq DOMAIN history
    BY <2>1 DEF Asking
  <2>3. m.role = "tool" => \E k \in Asking' : n \in ResultsOf(k)'
    <3> SUFFICES ASSUME m.role = "tool" PROVE \E k \in Asking' : n \in ResultsOf(k)'
      OBVIOUS
    <3>1. pc \in Working /\ m.turn = turn
      BY <1>2 DEF Added, Asked
    <3>2. PICK w \in Asking : AtWork(w)
      BY <1>0, <3>1 DEF AnswersOK
    <3>3. history[w].turn = turn /\ Behind(w) = ResultsOf(w)
      BY <3>2 DEF AtWork
    <3> QED
      BY <2>1, <2>2, <3>1, <3>3
  <2>4. m.role = "user" => m.calls = <<>>
    BY <1>2 DEF Added, Asked
  <2>5. history' # <<>>
    BY <2>1
  <2>6. ASSUME NEW j \in DOMAIN history', history'[j].role = "tool"
        PROVE  \E k \in Asking' : j \in ResultsOf(k)'
    <3>1. CASE j = n
      BY <2>1, <2>3, <2>6, <3>1
    <3>2. CASE j # n
      <4>1. j \in DOMAIN history /\ history[j].role = "tool"
        BY <2>1, <2>6, <3>2
      <4>2. PICK k \in Asking : j \in ResultsOf(k)
        BY <4>1 DEF Backed
      <4> QED
        BY <2>1, <2>2, <4>2
    <3> QED
      BY <3>1, <3>2
  <2>7. ASSUME NEW j \in DOMAIN history', history'[j].role = "user"
        PROVE  history'[j].calls = <<>>
    BY <2>1, <2>4, <2>7 DEF Backed
  <2> QED
    BY <2>5, <2>6, <2>7 DEF Backed
<1>3. CASE history' = history \o <<Message(0, "user"), TextReply(0)>> /\ turn' = turn
  <2>1. /\ Len(history) \in Nat /\ DOMAIN history = 1..Len(history)
        /\ DOMAIN history' = 1..Len(history) + 2
        /\ \A i \in 1..Len(history) : history'[i] = history[i]
        /\ \A i \in 1..Len(history) + 2 : i \in 1..Len(history) \/ history'[i].role # "tool"
        /\ \A i \in 1..Len(history) + 2 : i \in 1..Len(history) \/ history'[i].calls = <<>>
    <3>1. /\ Len(history) \in Nat /\ DOMAIN history = 1..Len(history)
          /\ DOMAIN history' = 1..Len(history) + 2
          /\ \A i \in 1..Len(history) : history'[i] = history[i]
          /\ history'[Len(history) + 1] = Message(0, "user")
          /\ history'[Len(history) + 2] = TextReply(0)
      BY <1>0, <1>3, BesideTyped, AppendedTwo
    <3>2. \A i \in 1..Len(history) + 2 :
            i \in 1..Len(history) \/ i = Len(history) + 1 \/ i = Len(history) + 2
      BY <3>1
    <3> QED
      BY <3>1, <3>2, BesideTyped
  <2>2. Asking' = Asking /\ \A k \in Asking : ResultsOf(k)' = ResultsOf(k)
    BY <1>0, <1>3, BesideTyped, MessagesBeside
  <2>3. history' # <<>>
    BY <2>1
  <2> QED
    BY <2>1, <2>2, <2>3 DEF Backed
<1> QED
  BY <1>1, <1>2, <1>3, HistorySteps

\* The budget begins with a group, and keeps the newest group whatever it costs.
LEMMA ContextStarts ==
  ASSUME NEW h \in Seq(Messages), h # <<>>
  PROVE  /\ RetainedFrom(h) \in GroupStarts(h)
         /\ \A k \in DOMAIN h : (\A g \in GroupStarts(h) : g <= k) => RetainedFrom(h) <= k
<1>1. /\ Len(h) \in Nat \ {0} /\ DOMAIN h = 1..Len(h)
      /\ GroupStarts(h) \subseteq 1..Len(h) /\ 1 \in GroupStarts(h)
  BY DEF GroupStarts
<1> DEFINE starts == GroupStarts(h)
           kept == {k \in starts : Cost(h, k) <= Budget} \cup {Max(starts)}
<1>2. starts \subseteq 1..Len(h) /\ starts # {}
  BY <1>1
<1>3. Max(starts) \in starts /\ \A x \in starts : x <= Max(starts)
  <2> HIDE DEF starts
  <2> QED
    BY <1>1, <1>2, MaxOf
<1>4. kept \subseteq starts /\ kept \subseteq Nat /\ Max(starts) \in kept
  BY <1>2, <1>3
<1>5. Min(kept) \in kept /\ \A x \in kept : Min(kept) <= x
  <2> HIDE DEF kept
  <2> QED
    BY <1>4, MinOf
<1>6. RetainedFrom(h) = Min(kept)
  BY DEF RetainedFrom
<1> HIDE DEF kept
<1>7. ASSUME NEW k \in DOMAIN h, \A g \in starts : g <= k
      PROVE  Min(kept) <= k
  <2>1. Min(kept) <= Max(starts) /\ Max(starts) <= k
    BY <1>3, <1>4, <1>5, <1>7
  <2>2. Min(kept) \in Nat /\ Max(starts) \in Nat
    BY <1>4, <1>5
  <2>3. k \in Nat
    BY <1>1
  <2> HIDE DEF starts
  <2> QED
    BY <2>1, <2>2, <2>3
<1> QED
  BY <1>4, <1>5, <1>6, <1>7

LEMMA SentKeeps ==
  ASSUME Inv, Ordered, Backed, SentOK, [Next]_vars
  PROVE  SentOK'
<1>0. /\ history \in Seq(Messages) /\ Len(history) \in Nat /\ DOMAIN history = 1..Len(history)
      /\ sent.to \in 0..Len(history)
      /\ \A k \in DOMAIN history : history[k].turn <= turn /\ history[k].turn \in Nat
  <2>1. /\ history \in Seq(Messages) /\ \A k \in DOMAIN history : history[k].turn <= turn
        /\ sent.to \in 0..Len(history)
    BY DEF Inv, DataOK
  <2>2. \A k \in DOMAIN history : history[k] \in Messages
    BY <2>1
  <2> QED
    BY <2>1, <2>2 DEF Messages
<1> SUFFICES ASSUME pc' = "model" PROVE SentOK'
  BY DEF SentOK
<1>1. CASE StartStep
  <2>1. /\ UNCHANGED <<history, turn>> /\ sent' = Context(history) /\ turn \in Nat \ {0}
    BY <1>1, TurnWhenBusy DEF StartStep
  <2>2. /\ sent'.from = RetainedFrom(history) /\ sent'.to = Len(history) /\ history # <<>>
    BY <2>1 DEF Context, Backed
  <2>3. /\ sent'.from \in GroupStarts(history)
        /\ \A k \in DOMAIN history :
             (\A g \in GroupStarts(history) : g <= k) => sent'.from <= k
    BY <1>0, <2>2, ContextStarts
  <2>4. sent'.from \in 1..sent'.to /\ StartsGroup(sent.from)'
    BY <1>0, <2>1, <2>2, <2>3 DEF GroupStarts, StartsGroup
  <2>5. ASSUME ~Disturbed(turn)', NEW k \in 1..sent'.to, history[k].turn = turn
        PROVE  k >= sent'.from
    <3>1. ASSUME NEW j \in k + 1..Len(history)
          PROVE  history[j].turn = turn
      <4>1. k \in 1..Len(history) /\ j \in 1..Len(history) /\ k < j
        BY <1>0, <2>2
      <4>2. history[j].turn # 0
        BY <2>1, <2>2, <2>5, <4>1 DEF Disturbed
      <4>3. turn <= history[j].turn /\ history[j].turn <= turn /\ history[j].turn \in Nat
        BY <1>0, <2>5, <4>1, <4>2 DEF Ordered
      <4> QED
        BY <2>1, <4>3
    <3>2. ASSUME NEW g \in GroupStarts(history)
          PROVE  g <= k
      <4>1. g \in 1..Len(history) /\ (g = 1 \/ history[g].turn = 0 \/ history[g - 1].turn # history[g].turn)
        BY <1>0 DEF GroupStarts
      <4>2. k \in 1..Len(history)
        BY <2>2
      <4>3. CASE g > k
        <5>1. g \in k + 1..Len(history) /\ g # 1 /\ (g - 1 = k \/ g - 1 \in k + 1..Len(history))
          BY <1>0, <4>1, <4>2, <4>3
        <5>2. history[g].turn = turn /\ history[g - 1].turn = turn
          BY <2>5, <3>1, <5>1
        <5> QED
          BY <2>1, <4>1, <5>1, <5>2
      <4> QED
        BY <4>1, <4>2, <4>3
    <3>3. sent'.from <= k /\ sent'.from \in Nat /\ k \in Nat
      BY <1>0, <2>2, <2>3, <2>4, <3>2
    <3> QED
      BY <3>3
  <2>6. CurrentTurnIsSent'
    BY <2>1, <2>5 DEF CurrentTurnIsSent
  <2> QED
    BY <2>4, <2>6 DEF SentOK
<1>2. CASE UNCHANGED <<pc, sent, turn>>
  <2>1. \A k \in 1..sent.to : history'[k] = history[k] /\ k \in 1..Len(history)
    <3>1. \A k \in 1..sent.to : k \in 1..Len(history)
      BY <1>0
    <3>2. CASE history' = history
      BY <3>1, <3>2
    <3>3. CASE history' = history \o <<Message(0, "user"), TextReply(0)>>
      <4>1. \A k \in 1..Len(history) : history'[k] = history[k]
        BY <1>0, <3>3, BesideTyped, AppendedTwo
      <4> QED
        BY <3>1, <4>1
    <3>4. ~ \E m \in Messages : Added(m)
      BY DEF Added
    <3> QED
      BY <3>2, <3>3, <3>4, HistorySteps
  <2>2. Disturbed(turn)' <=> Disturbed(turn)
    BY SMTT(60), <1>0, <1>2, <2>1 DEF Disturbed
  <2>3. sent.from \in 1..sent.to /\ StartsGroup(sent.from) /\ CurrentTurnIsSent
    BY <1>2 DEF SentOK
  <2>4. StartsGroup(sent.from)'
    <3>1. sent.from = 1 \/ sent.from - 1 \in 1..sent.to
      BY <1>0, <2>3
    <3> QED
      BY <1>2, <2>1, <2>3, <3>1 DEF StartsGroup
  <2>5. CurrentTurnIsSent'
    BY <1>2, <2>1, <2>2, <2>3 DEF CurrentTurnIsSent
  <2> QED
    BY <1>2, <2>3, <2>4, <2>5 DEF SentOK
<1> QED
  BY <1>1, <1>2, HistorySteps

\* A result of a request has the answer with its call before it in the request,
\* and nothing but results between.
LEMMA AnswerBefore ==
  ASSUME Inv, HistoryOK, pc = "model", \A t \in 1..turn : ~Disturbed(t),
         NEW j \in sent.from..sent.to, history[j].role = "tool"
  PROVE  \E k \in sent.from..j - 1 :
           /\ history[k].role = "assistant"
           /\ \E n \in DOMAIN history[k].calls : history[k].calls[n] = history[j].answers
           /\ \A i \in k + 1..j : history[i].role = "tool"
<1>1. /\ history \in Seq(Messages) /\ Len(history) \in Nat /\ DOMAIN history = 1..Len(history)
      /\ sent.to \in 0..Len(history) /\ sent.from \in 1..sent.to /\ StartsGroup(sent.from)
      /\ turn \in Nat
  BY TurnWhenBusy DEF Inv, DataOK, HistoryOK, SentOK
<1>2. \A i \in 1..Len(history) : history[i].turn <= turn /\ history[i].turn \in Nat /\ history[i] \in Messages
  <2>1. \A i \in 1..Len(history) : history[i] \in Messages
    BY <1>1
  <2> QED
    BY <1>1, <2>1 DEF Inv, DataOK, Messages
<1>3. j \in 1..Len(history) /\ j <= sent.to
  BY <1>1
<1>4. PICK k \in Asking : j \in ResultsOf(k)
  BY <1>1, <1>3 DEF HistoryOK, Backed
<1>5. /\ k \in 1..Len(history) /\ history[k].turn # 0 /\ history[k].role # "tool"
      /\ j \in Behind(k) /\ j \in k + 1..Len(history) /\ history[j].turn = history[k].turn
      /\ \A i \in Behind(k) : history[i].role # "tool" => j < i
  BY <1>1, <1>4 DEF Asking, ResultsOf, Behind
<1>6. ASSUME NEW i \in k + 1..j
      PROVE  history[i].turn = history[k].turn /\ history[i].role = "tool"
  <2>1. i \in 1..Len(history) /\ k < i /\ i <= j
    BY <1>1, <1>5
  <2>2. history[i].turn = history[k].turn
    <3>1. CASE i = j
      BY <1>5, <3>1
    <3>2. CASE i # j
      <4>1. k \in 1..sent.to /\ i \in 1..sent.to /\ j \in i + 1..sent.to
        BY <1>1, <1>3, <1>5, <2>1, <3>2
      <4>2. history[k].turn \in 1..turn
        BY <1>2, <1>5
      <4>3. history[i].turn # 0
        BY <1>5, <2>1, <4>1, <4>2 DEF Disturbed
      <4>4. history[k].turn <= history[i].turn /\ history[i].turn <= history[j].turn
        BY SMTT(60), <1>1, <1>3, <1>5, <2>1, <3>2, <4>3 DEF HistoryOK, Ordered
      <4> QED
        BY <1>2, <1>5, <2>1, <4>4
    <3> QED
      BY <3>1, <3>2
  <2>3. i \in Behind(k)
    BY <1>1, <1>5, <2>1, <2>2 DEF Behind
  <2>4. ~(j < i)
    BY <1>3, <2>1
  <2> QED
    BY <1>5, <2>2, <2>3, <2>4
<1>7. k >= sent.from
  <2>1. CASE k < sent.from
    <3>1. /\ sent.from \in k + 1..j /\ sent.from # 1
          /\ sent.from - 1 = k \/ sent.from - 1 \in k + 1..j
      BY SMTT(60), <1>1, <1>3, <1>5, <2>1
    <3> QED
      BY <1>1, <1>5, <1>6, <3>1 DEF StartsGroup
  <2> QED
    BY <1>1, <1>5, <2>1
<1>8. PICK n \in DOMAIN history[k].calls : history[k].calls[n] = history[j].answers
  <2>1. InOrder(ResultsOf(k), history[k].calls)
    BY <1>4 DEF Inv, AnswersOK
  <2> QED
    BY <1>4, <2>1 DEF InOrder
<1>9. history[k].role = "assistant"
  <2>1. history[k].role # "user"
    <3>1. history[k].role = "user" => history[k].calls = <<>>
      BY <1>1, <1>5 DEF HistoryOK, Backed
    <3> QED
      BY <1>8, <3>1
  <2> QED
    BY <1>2, <1>5, <2>1 DEF Messages
<1>10. k \in sent.from..j - 1
  BY <1>1, <1>5, <1>7
<1> QED
  BY <1>6, <1>8, <1>9, <1>10

\* What a message becomes on the wire.
WireItems == [kind : {"user", "text", "call", "result", "image"}, id : Ids \cup {NoId}]
ItemsOf(adapter, m) == IF adapter = "chat" THEN ChatItems(m) ELSE ResponsesItems(m)

LEMMA ItemIfTyped ==
  ASSUME NEW present \in BOOLEAN, NEW kind \in {"text", "image"}
  PROVE  /\ ItemIf(present, kind) \in Seq(WireItems) /\ Len(ItemIf(present, kind)) \in {0, 1}
         /\ \A o \in 1..Len(ItemIf(present, kind)) :
              ItemIf(present, kind)[o] = WireItem(kind, NoId)
<1>1. WireItem(kind, NoId) \in WireItems
  BY DEF WireItem, WireItems
<1> DEFINE x == WireItem(kind, NoId)
<1>2. /\ <<x>> \in Seq(WireItems) /\ Len(<<x>>) = 1 /\ <<x>>[1] = x
      /\ <<>> \in Seq(WireItems) /\ Len(<<>>) = 0
  <2> HIDE DEF x
  <2> QED
    BY <1>1 DEF x
<1>3. ItemIf(present, kind) = <<x>> \/ ItemIf(present, kind) = <<>>
  BY DEF ItemIf
<1> HIDE DEF x
<1>4. CASE ItemIf(present, kind) = <<x>>
  <2>1. \A o \in 1..1 : o = 1
    OBVIOUS
  <2>2. \A o \in 1..Len(ItemIf(present, kind)) : ItemIf(present, kind)[o] = x
    BY <1>2, <1>4, <2>1
  <2> QED
    BY <1>2, <1>4, <2>2 DEF x
<1>5. CASE ItemIf(present, kind) = <<>>
  BY <1>2, <1>5
<1> QED
  BY <1>3, <1>4, <1>5

LEMMA CallItemsTyped ==
  ASSUME NEW m \in Messages
  PROVE  /\ CallItems(m) \in Seq(WireItems) /\ Len(CallItems(m)) = Len(m.calls)
         /\ DOMAIN m.calls = 1..Len(m.calls) /\ Len(m.calls) \in Nat
         /\ \A n \in 1..Len(m.calls) : CallItems(m)[n] = [kind |-> "call", id |-> m.calls[n]]
<1>1. m.calls \in Seq(Ids)
  BY DEF Messages
<1>2. m.calls \in [1..Len(m.calls) -> Ids] /\ Len(m.calls) \in Nat
  BY <1>1
<1>3. CallItems(m) = [n \in 1..Len(m.calls) |-> [kind |-> "call", id |-> m.calls[n]]]
  BY <1>2 DEF CallItems, WireItem
<1>4. \A n \in 1..Len(m.calls) : [kind |-> "call", id |-> m.calls[n]] \in WireItems
  BY <1>2 DEF WireItems
<1>5. PICK n \in Nat : n = Len(m.calls)
  BY <1>2
<1>6. CallItems(m) \in [1..n -> WireItems]
  BY <1>3, <1>4, <1>5
<1>7. CallItems(m) \in Seq(WireItems) /\ Len(CallItems(m)) = n
  BY <1>6
<1> QED
  BY <1>2, <1>3, <1>5, <1>7

\* In the items of an answer its calls follow each other from some place; behind
\* that place there is nothing else, but its text in the Responses form.
CallsAt(adapter, m, items, s) ==
  /\ s \in {0, 1}
  /\ \A n \in DOMAIN m.calls :
       s + n \in DOMAIN items /\ items[s + n] = [kind |-> "call", id |-> m.calls[n]]
  /\ \A o \in DOMAIN items : o > s =>
       \/ items[o].kind = "call"
       \/ /\ items[o].kind = "text" /\ adapter # "chat"
          /\ \A h \in DOMAIN items : s < h /\ h < o => items[h].kind = "call"

LEMMA AnswerItems ==
  ASSUME NEW adapter, NEW m \in Messages, m.role = "assistant"
  PROVE  /\ ItemsOf(adapter, m) \in Seq(WireItems)
         /\ \E s : CallsAt(adapter, m, ItemsOf(adapter, m), s)
         /\ \A o \in DOMAIN ItemsOf(adapter, m) : ItemsOf(adapter, m)[o].kind # "result"
<1>1. m.text \in BOOLEAN
  BY DEF Messages
<1>2. PICK t \in Seq(WireItems) :
        /\ t = ItemIf(m.text, "text") /\ Len(t) \in {0, 1}
        /\ \A o \in 1..Len(t) : t[o].kind = "text"
  BY <1>1, ItemIfTyped DEF WireItem
<1>3. PICK c \in Seq(WireItems), n \in Nat :
        /\ c = CallItems(m) /\ n = Len(m.calls) /\ Len(c) = n /\ DOMAIN m.calls = 1..n
        /\ \A i \in 1..n : c[i] = [kind |-> "call", id |-> m.calls[i]]
  BY CallItemsTyped
<1>4. CASE adapter = "chat"
  <2>0. PICK l \in Nat : l = Len(t)
    BY <1>2
  <2>1. PICK w : w = t \o c
    OBVIOUS
  <2>2. ItemsOf(adapter, m) = w
    BY <1>2, <1>3, <1>4, <2>1 DEF ItemsOf, ChatItems
  <2>3. /\ w \in Seq(WireItems) /\ Len(w) = l + n /\ DOMAIN w = 1..l + n
        /\ \A o \in 1..l : w[o] = t[o]
        /\ \A o \in 1..n : w[l + o] = c[o]
    <3>1. /\ w \in Seq(WireItems) /\ Len(w) = Len(t) + Len(c)
          /\ \A o \in 1..Len(t) : w[o] = t[o]
          /\ \A o \in 1..Len(c) : w[Len(t) + o] = c[o]
      BY <2>1, Concatenated
    <3> QED
      BY <1>3, <2>0, <3>1
  <2>4. \A o \in 1..l + n : o <= l \/ (o - l \in 1..n /\ l + (o - l) = o)
    BY SMTT(60), <2>0
  <2>5. \A o \in 1..l + n : IF o <= l THEN w[o].kind = "text" ELSE w[o].kind = "call"
    <3> SUFFICES ASSUME NEW o \in 1..l + n
                 PROVE  IF o <= l THEN w[o].kind = "text" ELSE w[o].kind = "call"
      OBVIOUS
    <3>1. CASE o <= l
      <4>1. o \in 1..l /\ w[o] = t[o]
        BY <2>3, <3>1
      <4> QED
        BY <1>2, <2>0, <3>1, <4>1
    <3>2. CASE ~(o <= l)
      <4>1. PICK i \in 1..n : o = l + i
        BY <2>4, <3>2
      <4>2. w[o] = [kind |-> "call", id |-> m.calls[i]]
        BY <1>3, <2>3, <4>1
      <4>3. w[o].kind = "call"
        BY <4>2
      <4> QED
        BY <3>2, <4>3
    <3> QED
      BY <3>1, <3>2
  <2>6. CallsAt(adapter, m, w, l)
    <3>1. \A i \in 1..n : l + i \in 1..l + n
      BY SMTT(60), <2>0
    <3>2. \A i \in 1..n : w[l + i] = [kind |-> "call", id |-> m.calls[i]]
      BY <1>3, <2>3
    <3>3. \A o \in 1..l + n : o > l => w[o].kind = "call"
      BY SMTT(60), <2>0, <2>5
    <3> QED
      BY ZenonT(60), <1>2, <1>3, <2>0, <2>3, <3>1, <3>2, <3>3 DEF CallsAt
  <2>7. \A o \in DOMAIN w : w[o].kind # "result"
    BY SMTT(60), <2>3, <2>5
  <2> QED
    BY <2>2, <2>3, <2>6, <2>7
<1>5. CASE adapter # "chat"
  <2>0. PICK l \in Nat : l = Len(t)
    BY <1>2
  <2>1. PICK w : w = c \o t
    OBVIOUS
  <2>2. ItemsOf(adapter, m) = w
    BY <1>2, <1>3, <1>5, <2>1 DEF ItemsOf, ResponsesItems
  <2>3. /\ w \in Seq(WireItems) /\ Len(w) = n + l /\ DOMAIN w = 1..n + l
        /\ \A o \in 1..n : w[o] = c[o]
        /\ \A o \in 1..l : w[n + o] = t[o]
    <3>1. /\ w \in Seq(WireItems) /\ Len(w) = Len(c) + Len(t)
          /\ \A o \in 1..Len(c) : w[o] = c[o]
          /\ \A o \in 1..Len(t) : w[Len(c) + o] = t[o]
      BY <2>1, Concatenated
    <3> QED
      BY SMTT(60), <1>3, <2>0, <3>1
  <2>4. l \in {0, 1} /\ \A o \in 1..n + l : o \in 1..n \/ (o = n + 1 /\ 1 \in 1..l)
    BY SMTT(60), <1>2, <2>0
  <2>5. \A o \in 1..n + l : IF o <= n THEN w[o].kind = "call" ELSE w[o].kind = "text"
    <3> SUFFICES ASSUME NEW o \in 1..n + l
                 PROVE  IF o <= n THEN w[o].kind = "call" ELSE w[o].kind = "text"
      OBVIOUS
    <3>1. CASE o \in 1..n
      <4>1. w[o] = [kind |-> "call", id |-> m.calls[o]]
        BY <1>3, <2>3, <3>1
      <4>2. w[o].kind = "call"
        BY <4>1
      <4>3. o <= n
        BY <1>3, <3>1
      <4> QED
        BY <4>2, <4>3
    <3>2. CASE o = n + 1 /\ 1 \in 1..l
      <4>1. w[o] = t[1] /\ t[1].kind = "text" /\ ~(o <= n)
        BY <1>2, <2>0, <2>3, <3>2
      <4> QED
        BY <4>1
    <3> QED
      BY <2>4, <3>1, <3>2
  <2>6. CallsAt(adapter, m, w, 0)
    BY SMTT(60), <1>3, <1>5, <2>3, <2>4, <2>5 DEF CallsAt
  <2>7. \A o \in DOMAIN w : w[o].kind # "result"
    BY <2>3, <2>5
  <2> QED
    BY <2>2, <2>3, <2>6, <2>7
<1> QED
  BY <1>4, <1>5

LEMMA ItemsTyped ==
  ASSUME NEW adapter, NEW m \in Messages
  PROVE  /\ ItemsOf(adapter, m) \in Seq(WireItems)
         /\ m.role = "assistant" => \E s : CallsAt(adapter, m, ItemsOf(adapter, m), s)
         /\ \A o \in DOMAIN ItemsOf(adapter, m) :
              LET item == ItemsOf(adapter, m)[o]
              IN /\ item.kind = "result" => m.role = "tool" /\ item.id = m.answers /\ o = 1
                 /\ m.role = "tool" =>
                      item.kind = "result" \/ (item.kind = "image" /\ adapter = "chat")
<1>1. /\ m.role \in {"user", "assistant", "tool"} /\ m.image \in BOOLEAN
      /\ m.answers \in Ids \cup {NoId}
  BY DEF Messages
<1>2. CASE m.role = "user"
  <2> DEFINE x == WireItem("user", NoId)
  <2>1. x \in WireItems /\ x.kind = "user"
    BY DEF WireItem, WireItems
  <2>2. ItemsOf(adapter, m) = <<x>>
    BY <1>2 DEF ItemsOf, ChatItems, ResponsesItems
  <2> HIDE DEF x
  <2> QED
    BY <1>2, <2>1, <2>2
<1>3. CASE m.role = "assistant"
  BY <1>3, AnswerItems
<1>4. CASE m.role = "tool"
  <2> DEFINE x == WireItem("result", m.answers)
  <2>1. x \in WireItems /\ x.kind = "result" /\ x.id = m.answers
    BY <1>1 DEF WireItem, WireItems
  <2>2. PICK r \in Seq(WireItems) : r = <<x>> /\ Len(r) = 1 /\ r[1] = x
    <3> HIDE DEF x
    <3>1. <<x>> \in Seq(WireItems) /\ Len(<<x>>) = 1 /\ <<x>>[1] = x
      BY <2>1
    <3> QED
      BY <3>1, Zenon
  <2>3. PICK t \in Seq(WireItems), l \in Nat :
          /\ t = ItemIf(m.image, "image") /\ l = Len(t)
          /\ \A o \in 1..l : t[o].kind = "image"
    BY <1>1, ItemIfTyped DEF WireItem
  <2>4. CASE adapter # "chat"
    <3>1. ItemsOf(adapter, m) = r
      BY <1>4, <2>2, <2>4 DEF ItemsOf, ResponsesItems
    <3> HIDE DEF x
    <3> QED
      BY <1>4, <2>1, <2>2, <3>1
  <2>5. CASE adapter = "chat"
    <3>1. PICK w : w = r \o t
      OBVIOUS
    <3>2. ItemsOf(adapter, m) = w
      BY <1>4, <2>2, <2>3, <2>5, <3>1 DEF ItemsOf, ChatItems
    <3>3. /\ w \in Seq(WireItems) /\ Len(w) = 1 + l /\ DOMAIN w = 1..1 + l
          /\ w[1] = x /\ \A o \in 1..l : w[1 + o] = t[o]
      <4>1. /\ w \in Seq(WireItems) /\ Len(w) = Len(r) + Len(t)
            /\ \A o \in 1..Len(r) : w[o] = r[o]
            /\ \A o \in 1..Len(t) : w[Len(r) + o] = t[o]
        BY <3>1, Concatenated
      <4> HIDE DEF x
      <4> QED
        BY <2>2, <2>3, <4>1
    <3>4. \A o \in 1..1 + l : o = 1 \/ (o # 1 /\ w[o].kind = "image")
      <4> SUFFICES ASSUME NEW o \in 1..1 + l, o # 1 PROVE w[o].kind = "image"
        OBVIOUS
      <4>1. o - 1 \in 1..l /\ o = 1 + (o - 1)
        BY <2>3
      <4> QED
        BY ZenonT(60), <2>3, <3>3, <4>1
    <3> HIDE DEF x
    <3> QED
      BY <1>4, <2>1, <2>5, <3>2, <3>3, <3>4
  <2> QED
    BY <2>4, <2>5
<1> QED
  BY <1>1, <1>2, <1>3, <1>4

LEMMA ToModelTyped ==
  ASSUME NEW m \in Messages
  PROVE  /\ ToModel(m) \in Messages
         /\ ToModel(m).role = m.role /\ ToModel(m).calls = m.calls /\ ToModel(m).answers = m.answers
<1>1. ToModel(m) = [m EXCEPT !.image = m.image /\ m.turn = turn]
  BY DEF ToModel
<1>2. (m.image /\ m.turn = turn) \in BOOLEAN
  BY Zenon
<1>3. PICK b \in BOOLEAN : ToModel(m) = [m EXCEPT !.image = b]
  BY <1>1, <1>2, Zenon
<1> QED
  BY <1>3 DEF Messages

LEMMA ResultsKeepCalls ==
  ASSUME Inv, HistoryOK
  PROVE  SentResultsKeepCalls
<1> SUFFICES ASSUME pc = "model", \A t \in 1..turn : ~Disturbed(t)
             PROVE  LET wire == Encoded(provider, SentMessages)
                    IN \A p \in DOMAIN wire : wire[p].kind = "result" =>
                         \E c \in 1..p - 1 :
                           /\ wire[c] = [kind |-> "call", id |-> wire[p].id]
                           /\ \A i \in c + 1..p - 1 :
                                \/ wire[i].kind \in {"call", "result"}
                                \/ wire[i].kind = "image" /\ provider = "chat"
                                \/ /\ wire[i].kind = "text" /\ provider # "chat"
                                   /\ \A h \in c + 1..i - 1 : wire[h].kind = "call"
  BY DEF SentResultsKeepCalls
<1>1. /\ history \in Seq(Messages) /\ sent.to \in 0..Len(history) /\ sent.from \in 1..sent.to
  BY DEF Inv, DataOK, HistoryOK, SentOK
<1> DEFINE q == [k \in DOMAIN SentMessages |-> ItemsOf(provider, SentMessages[k])]
           wire == Encoded(provider, SentMessages)
<1>2. PICK n, f : n = sent.to - sent.from + 1 /\ f = sent.from
  OBVIOUS
<1>3. /\ n \in Nat \ {0} /\ f \in Nat \ {0} /\ f + n - 1 = sent.to
      /\ \A j \in 1..n : f + j - 1 \in 1..Len(history) /\ f + j - 1 \in f..sent.to
      /\ \A k \in f..sent.to : k - f + 1 \in 1..n /\ f + (k - f + 1) - 1 = k
  BY SMTT(60), <1>1, <1>2
<1>4. \A j \in 1..n : history[f + j - 1] \in Messages
  BY <1>1, <1>3
<1>5. /\ DOMAIN SentMessages = 1..n
      /\ \A j \in 1..n : SentMessages[j] = ToModel(history[f + j - 1])
  BY <1>2 DEF SentMessages
<1>6. \A j \in 1..n :
        /\ SentMessages[j] \in Messages /\ SentMessages[j].role = history[f + j - 1].role
        /\ SentMessages[j].calls = history[f + j - 1].calls
        /\ SentMessages[j].answers = history[f + j - 1].answers
  BY <1>4, <1>5, ToModelTyped
<1>7. /\ DOMAIN q = 1..n
      /\ \A j \in 1..n :
           LET m == history[f + j - 1]
           IN /\ q[j] \in Seq(WireItems)
              /\ m.role = "assistant" => \E s : CallsAt(provider, m, q[j], s)
              /\ \A o \in DOMAIN q[j] :
                   /\ q[j][o].kind = "result" =>
                        m.role = "tool" /\ q[j][o].id = m.answers /\ o = 1
                   /\ m.role = "tool" =>
                        \/ q[j][o].kind = "result"
                        \/ q[j][o].kind = "image" /\ provider = "chat"
  <2>1. DOMAIN q = 1..n
    BY <1>5
  <2>2. ASSUME NEW j \in 1..n
        PROVE  /\ q[j] = ItemsOf(provider, SentMessages[j])
               /\ SentMessages[j] \in Messages
               /\ SentMessages[j].role = history[f + j - 1].role
               /\ SentMessages[j].calls = history[f + j - 1].calls
               /\ SentMessages[j].answers = history[f + j - 1].answers
    BY <1>5, <1>6
  <2> HIDE DEF q
  <2> SUFFICES ASSUME NEW j \in 1..n
               PROVE  LET m == history[f + j - 1]
                      IN /\ q[j] \in Seq(WireItems)
                         /\ m.role = "assistant" => \E s : CallsAt(provider, m, q[j], s)
                         /\ \A o \in DOMAIN q[j] :
                              /\ q[j][o].kind = "result" =>
                                   m.role = "tool" /\ q[j][o].id = m.answers /\ o = 1
                              /\ m.role = "tool" =>
                                   \/ q[j][o].kind = "result"
                                   \/ q[j][o].kind = "image" /\ provider = "chat"
    BY <2>1
  <2>3. PICK sm \in Messages : sm = SentMessages[j]
    BY <2>2
  <2>4. /\ ItemsOf(provider, sm) \in Seq(WireItems)
        /\ sm.role = "assistant" => \E s : CallsAt(provider, sm, ItemsOf(provider, sm), s)
        /\ \A o \in DOMAIN ItemsOf(provider, sm) :
             LET item == ItemsOf(provider, sm)[o]
             IN /\ item.kind = "result" => sm.role = "tool" /\ item.id = sm.answers /\ o = 1
                /\ sm.role = "tool" =>
                     item.kind = "result" \/ (item.kind = "image" /\ provider = "chat")
    BY ItemsTyped
  <2>5. /\ q[j] = ItemsOf(provider, sm) /\ sm.role = history[f + j - 1].role
        /\ sm.calls = history[f + j - 1].calls /\ sm.answers = history[f + j - 1].answers
    BY <2>2, <2>3
  <2>6. \A s : CallsAt(provider, sm, q[j], s) => CallsAt(provider, history[f + j - 1], q[j], s)
    BY <2>5 DEF CallsAt
  <2> QED
    BY <2>4, <2>5, <2>6
<1>8. wire = FlattenSeq(q)
  BY DEF Encoded, ItemsOf
<1>9. q \in Seq(Seq(WireItems)) /\ Len(q) = n
  <2> HIDE DEF q
  <2> QED
    <3>1. q = [j \in 1..n |-> q[j]]
      <4>1. q = [j \in DOMAIN q |-> q[j]]
        BY DEF q
      <4> QED
        BY <1>7, <4>1
    <3>2. q \in [1..n -> Seq(WireItems)]
      BY <1>7, <3>1
    <3> QED
      BY <1>3, <3>2
<1> HIDE DEF q, wire
<1>10. PICK at \in [0..n -> Nat] :
          /\ at[0] = 0 /\ DOMAIN wire = 1..at[n]
          /\ \A i, j \in 0..n : i <= j => at[i] <= at[j]
          /\ \A j \in 1..n :
               /\ at[j] = at[j - 1] + Len(q[j])
               /\ \A o \in 1..Len(q[j]) :
                    /\ at[j - 1] + o \in DOMAIN wire
                    /\ wire[at[j - 1] + o] = q[j][o]
          /\ \A p \in DOMAIN wire :
               \E j \in 1..n : \E o \in 1..Len(q[j]) : p = at[j - 1] + o
  <2>1. PICK at \in [0..n -> Nat] : LaidOut(q, n, wire, at)
    BY <1>8, <1>9, Flattened
  <2> QED
    BY <2>1 DEF LaidOut
<1>11. \A j \in 1..n : /\ j - 1 \in 0..n /\ j \in 0..n /\ at[j - 1] \in Nat /\ at[j] \in Nat
                       /\ Len(q[j]) \in Nat /\ DOMAIN q[j] = 1..Len(q[j])
  BY SMTT(60), <1>3, <1>7
<1> SUFFICES ASSUME NEW p \in DOMAIN wire, wire[p].kind = "result"
             PROVE  \E c \in 1..p - 1 :
                      /\ wire[c] = [kind |-> "call", id |-> wire[p].id]
                      /\ \A i \in c + 1..p - 1 :
                           \/ wire[i].kind \in {"call", "result"}
                           \/ wire[i].kind = "image" /\ provider = "chat"
                           \/ /\ wire[i].kind = "text" /\ provider # "chat"
                              /\ \A h \in c + 1..i - 1 : wire[h].kind = "call"
  BY DEF wire
<1>12. PICK j \in 1..n : \E o \in 1..Len(q[j]) : p = at[j - 1] + o
  BY SMTT(60), <1>10
<1>13. PICK o \in 1..Len(q[j]) : p = at[j - 1] + o
  BY <1>12
<1>14. /\ wire[p] = q[j][o] /\ o \in DOMAIN q[j]
  BY SMTT(60), <1>10, <1>11, <1>13
<1>15. /\ history[f + j - 1].role = "tool" /\ wire[p].id = history[f + j - 1].answers
       /\ o = 1 /\ p = at[j - 1] + 1
  BY <1>7, <1>13, <1>14
<1>16. PICK b : b = f + j - 1
  OBVIOUS
<1>17. b \in f..sent.to /\ b \in 1..Len(history) /\ b - f + 1 = j
  BY <1>3, <1>16
<1>18. PICK k \in f..b - 1 :
          /\ history[k].role = "assistant"
          /\ \E d \in DOMAIN history[k].calls : history[k].calls[d] = history[b].answers
          /\ \A i \in k + 1..b : history[i].role = "tool"
  <2>1. b \in sent.from..sent.to /\ history[b].role = "tool" /\ f = sent.from
    BY <1>2, <1>15, <1>16, <1>17
  <2>2. pc = "model" /\ \A t \in 1..turn : ~Disturbed(t)
    OBVIOUS
  <2>3. \E k \in sent.from..b - 1 :
          /\ history[k].role = "assistant"
          /\ \E d \in DOMAIN history[k].calls : history[k].calls[d] = history[b].answers
          /\ \A i \in k + 1..b : history[i].role = "tool"
    BY <2>1, <2>2, AnswerBefore
  <2> QED
    BY <2>1, <2>3
<1>19. PICK d \in DOMAIN history[k].calls : history[k].calls[d] = history[b].answers
  BY <1>18
<1>20. PICK a : a = k - f + 1
  OBVIOUS
<1>21. a \in 1..n /\ a <= j - 1 /\ f + a - 1 = k /\ a \in Nat /\ j \in Nat
  BY <1>3, <1>17, <1>18, <1>20
<1>22. PICK s \in {0, 1} : CallsAt(provider, history[k], q[a], s)
  <2>1. \E s : CallsAt(provider, history[k], q[a], s)
    BY <1>7, <1>18, <1>21
  <2> QED
    BY <2>1 DEF CallsAt
<1>23. PICK g \in Nat :
         /\ g = s + d /\ g > s /\ g \in 1..Len(q[a]) /\ g \in DOMAIN q[a]
         /\ q[a][g] = [kind |-> "call", id |-> history[b].answers]
         /\ wire[at[a - 1] + g] = [kind |-> "call", id |-> wire[p].id]
  <2>1. d \in Nat \ {0}
    <3>1. k \in 1..Len(history)
      BY SMTT(60), <1>17, <1>18, <1>2, <1>1
    <3>2. PICK message \in Messages : message = history[k]
      BY <1>1, <3>1
    <3>3. history[k].calls \in Seq(Ids)
      BY <3>2 DEF Messages
    <3> QED
      BY SMTT(60), <1>19, <3>3
  <2>2. PICK g \in Nat : g = s + d
    BY <2>1
  <2>3. s + d \in DOMAIN q[a] /\ q[a][s + d] = [kind |-> "call", id |-> history[k].calls[d]]
    BY <1>19, <1>22 DEF CallsAt
  <2>4. g \in 1..Len(q[a]) /\ q[a][g] = [kind |-> "call", id |-> history[b].answers]
    BY <1>11, <1>19, <1>21, <2>2, <2>3
  <2>5. wire[at[a - 1] + g] = [kind |-> "call", id |-> wire[p].id]
    BY <1>10, <1>15, <1>16, <1>21, <2>4
  <2> QED
    BY SMTT(60), <1>11, <1>21, <2>1, <2>2, <2>4, <2>5
<1>24. PICK lo \in Nat, hi \in Nat, size \in Nat, c \in Nat :
          /\ lo = at[a - 1] /\ hi = at[j - 1] /\ size = Len(q[a]) /\ c = at[a - 1] + g
          /\ lo < c /\ c <= hi /\ p = hi + 1 /\ c = lo + g
  <2>1. PICK lo \in Nat, mid \in Nat, hi \in Nat, len \in Nat :
           lo = at[a - 1] /\ mid = at[a] /\ hi = at[j - 1] /\ len = Len(q[a])
    BY <1>11, <1>21
  <2>2. mid = lo + len
    BY <1>10, <1>21, <2>1
  <2>3. mid <= hi
    BY SMTT(60), <1>10, <1>11, <1>21, <2>1
  <2>4. g \in 1..len /\ p = hi + 1
    BY <1>15, <1>23, <2>1
  <2>5. lo + g \in Nat /\ lo < lo + g /\ lo + g <= hi
    BY SMTT(60), <2>2, <2>3, <2>4
  <2> QED
    BY <2>1, <2>4, <2>5
<1>28. /\ lo \in Nat /\ hi \in Nat /\ c \in Nat /\ p \in Nat
       /\ lo < c /\ c <= hi /\ p = hi + 1
  BY SMTT(60), <1>24
<1>25. c \in 1..p - 1
  BY <1>28
<1>26. ASSUME NEW i \in c + 1..p - 1
       PROVE  \/ wire[i].kind \in {"call", "result"}
              \/ wire[i].kind = "image" /\ provider = "chat"
              \/ /\ wire[i].kind = "text" /\ provider # "chat"
                 /\ \A h \in c + 1..i - 1 : wire[h].kind = "call"
  <2>0. i \in Nat /\ c < i /\ i < p
    BY <1>28
  <2>1. i \in Nat /\ lo < i /\ i <= hi /\ i < p
    BY <1>28, <2>0
  <2>2. i \in DOMAIN wire
    <3>1. PICK all \in Nat : all = at[n] /\ DOMAIN wire = 1..all
      BY SMTT(60), <1>3, <1>10
    <3>2. p \in 1..all
      BY <3>1
    <3>3. i \in 1..all
      BY SMTT(60), <2>1, <3>2
    <3> QED
      BY <3>1, <3>3
  <2>3. PICK x \in 1..n : \E e \in 1..Len(q[x]) : i = at[x - 1] + e
    BY <1>10, <2>2
  <2>4. PICK e \in 1..Len(q[x]) : i = at[x - 1] + e
    BY <2>3
  <2>5. wire[i] = q[x][e] /\ e \in DOMAIN q[x]
    BY <1>10, <1>11, <2>4
  <2>6. x >= a
    <3> SUFFICES ASSUME x < a PROVE FALSE
      BY <1>21
    <3>1. x <= a - 1 /\ a - 1 \in 0..n
      BY <1>11, <1>21
    <3>2. at[x] <= lo
      BY <1>10, <1>11, <1>24, <3>1
    <3>3. PICK from \in Nat, len \in Nat : from = at[x - 1] /\ len = Len(q[x])
      BY <1>11
    <3>4. from + len <= lo
      BY <1>10, <3>2, <3>3
    <3>5. i = from + e /\ e \in 1..len
      BY <2>4, <3>3
    <3> QED
      BY SMTT(60), <1>24, <2>1, <3>4, <3>5
  <2>7. x <= j - 1
    <3> SUFFICES ASSUME x > j - 1 PROVE FALSE
      BY <1>21
    <3>1. j - 1 <= x - 1
      BY SMTT(60), <1>21
    <3>2. PICK from \in Nat, len \in Nat : from = at[x - 1] /\ len = Len(q[x])
      BY <1>11
    <3>3. hi <= from
      BY <1>10, <1>11, <1>24, <3>1, <3>2
    <3>4. i = from + e /\ e \in 1..len
      BY <2>4, <3>2
    <3> QED
      BY SMTT(60), <1>24, <2>1, <3>3, <3>4
  <2>8. CASE x = a
    <3>0. e \in 1..size /\ i = lo + e /\ e \in Nat /\ g \in Nat /\ c = lo + g /\ g > s
      BY SMTT(60), <1>23, <1>24, <2>4, <2>8
    <3>1. e \in 1..size /\ i = lo + e /\ e > g /\ g > s /\ e > s
      BY SMTT(60), <1>28, <2>0, <3>0
    <3>2. CASE q[a][e].kind = "call"
      BY <2>5, <2>8, <3>2
    <3>3. CASE /\ q[a][e].kind = "text" /\ provider # "chat"
               /\ \A h \in DOMAIN q[a] : s < h /\ h < e => q[a][h].kind = "call"
      <4> SUFFICES ASSUME NEW h \in c + 1..i - 1 PROVE wire[h].kind = "call"
        BY <2>5, <2>8, <3>3
      <4>1. h \in Nat /\ lo < h /\ c < h /\ h < i
        <5>1. h \in Nat /\ c < h /\ h < i
          BY <1>28, <2>0
        <5> QED
          BY SMTT(60), <1>28, <5>1
      <4>2. PICK y \in Nat : h = lo + y /\ g < y /\ y < e
        <5>1. /\ h \in Nat /\ lo \in Nat /\ g \in Nat /\ e \in Nat /\ i \in Nat
              /\ lo < h /\ lo + g < h /\ h < lo + e
          BY SMTT(60), <1>28, <2>0, <3>0, <3>1, <4>1
        <5>2. h - lo \in Nat /\ h = lo + (h - lo) /\ g < h - lo /\ h - lo < e
          BY SMTT(60), <5>1
        <5> QED
          BY <5>2
      <4>3. y \in 1..size /\ s < y
        BY SMTT(60), <3>1, <4>2
      <4>4. y \in 1..Len(q[a]) /\ y \in DOMAIN q[a] /\ wire[at[a - 1] + y] = q[a][y]
        BY <1>10, <1>11, <1>21, <1>24, <4>3
      <4> QED
        BY <1>24, <3>3, <4>2, <4>3, <4>4
    <3> QED
      BY <1>22, <2>5, <2>8, <3>1, <3>2, <3>3 DEF CallsAt
  <2>9. CASE x # a
    <3>1. f + x - 1 \in k + 1..b
      BY <1>3, <1>16, <1>21, <2>6, <2>7, <2>9
    <3>2. history[f + x - 1].role = "tool"
      BY SMTT(60), <1>18, <3>1
    <3> QED
      BY SMTT(60), <1>7, <2>5, <3>2
  <2> QED
    BY <2>8, <2>9
<1>27. wire[c] = [kind |-> "call", id |-> wire[p].id]
  BY <1>23, <1>24
<1> QED
  BY <1>25, <1>26, <1>27

LEMMA HistoryInvariance == Spec => [](Inv /\ HistoryOK)
<1>1. Init => HistoryOK
  BY DEF Init, HistoryOK, Ordered, Backed, SentOK
<1>2. Inv /\ HistoryOK /\ [Next]_vars => HistoryOK'
  <2>1. Inv /\ HistoryOK /\ [Next]_vars => Ordered' /\ Backed' /\ SentOK'
    BY OrderedKeeps, BackedKeeps, SentKeeps DEF HistoryOK
  <2> QED
    BY <2>1 DEF HistoryOK
<1> QED
  BY <1>1, <1>2, InitInv, NextKeeps, PTL DEF Spec

\* A request holds every message of the Turn it is made for, and on the wire
\* every result has its call before it.  Between the two stand calls, results,
\* the images of results in the chat form, and in the Responses form the text
\* of the answer with the call, directly behind its calls.  Except where
\* image/generate split a Turn (budget_history, message_to_model, the encodings
\* of the provider adapters).
THEOREM RequestsStayWhole == Spec => []RequestsAreWhole
<1>1. Inv /\ HistoryOK => RequestsAreWhole
  <2>1. Inv => TypeOK
    BY DEF Inv
  <2>2. HistoryOK => CurrentTurnIsSent
    BY DEF HistoryOK, SentOK, CurrentTurnIsSent
  <2> QED
    BY <2>1, <2>2, ResultsKeepCalls DEF RequestsAreWhole
<1> QED
  BY <1>1, HistoryInvariance, PTL
===============================================================================
