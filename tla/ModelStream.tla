------------------------------ MODULE ModelStream ------------------------------
(***************************************************************************)
(* The provider adapters of Kody: how an answer of a model service becomes *)
(* a ModelResponse, what a client is shown on the way, and how a           *)
(* conversation is written for the service.                                *)
(*                                                                         *)
(* Two adapters are modelled.  The Responses adapter                       *)
(* (provider/openai_responses.rs) reads server-sent events: deltas of the  *)
(* text and of each function call, and one last event that repeats the     *)
(* whole output, which is authoritative.  The chat adapter                 *)
(* (provider/openai_compatible.rs) reads one JSON document.  Both show     *)
(* every part of the answer to the client through a ModelDeltaSink.        *)
(*                                                                         *)
(* Text is a Boolean (there is some), the arguments of a call are "empty", *)
(* "part" (not yet JSON) or "whole"; bytes, UTF-8 and size limits are one  *)
(* action, StreamFails.  The service is external: it sends the events of a *)
(* few styles seen in practice, and may stop, fail or cut short anywhere.  *)
(***************************************************************************)
EXTENDS Naturals, SequencesExt

CONSTANTS
  Answers,  \* what the model may answer: [text : BOOLEAN, calls : sequences of calls]
  Styles    \* how the Responses service words an answer, see FramesOfCall

NoId   == "none"
NoCall == [id |-> NoId, tool |-> "none", project |-> FALSE]
Nothing == [text |-> FALSE, calls |-> <<>>]

ASSUME AnswersAssumption ==
  \A a \in Answers :
    /\ a.text \in BOOLEAN /\ a.calls \in Seq(ToSet(a.calls))
    /\ \A c \in ToSet(a.calls) : c.id # NoId

VARIABLES
  stream,  \* the request in flight: adapter, what the service sent, ResponseStreamState
  shown    \* what the client was shown of it: texts and the ids of calls

Closed ==
  [state |-> "closed", adapter |-> "none", answer |-> Nothing, frames |-> <<>>, at |-> 0,
   text |-> FALSE, functions |-> <<>>, completed |-> FALSE, content |-> Nothing, finish |-> "none"]
NothingShown == [texts |-> 0, calls |-> <<>>]

Emitted == ToSet(shown.calls)
IdsOf(calls) == [k \in DOMAIN calls |-> calls[k].id]

\* The finish reason an answer earns by itself.
Inferred(content) == IF content.calls # <<>> THEN "tool_calls" ELSE "stop"

-----------------------------------------------------------------------------
(* The service.                                                              *)

Frame(kind, item) == [kind |-> kind, item |-> item]

\* The events of function call i.  "deltas": its arguments arrive in pieces;
\* "settled": the final event repeats them, and is sent twice; "bare": the
\* item was never announced; "silent": only the last event carries anything.
FramesOfCall(style, i) ==
  CASE style = "deltas"  -> <<Frame("added", i), Frame("delta", i), Frame("delta", i), Frame("closed", i)>>
    [] style = "settled" -> <<Frame("added", i), Frame("done", i), Frame("done", i)>>
    [] style = "bare"    -> <<Frame("delta", i), Frame("done", i)>>
    [] OTHER             -> <<>>

FramesOf(style, answer) ==
  (IF answer.text /\ style # "silent" THEN <<Frame("text", 0)>> ELSE <<>>)
    \o FlattenSeq([i \in DOMAIN answer.calls |-> FramesOfCall(style, i)])

OpenStream(adapter) ==
  \E answer \in Answers, style \in IF adapter = "chat" THEN {"silent"} ELSE Styles :
    /\ stream' = [Closed EXCEPT !.state = "open", !.adapter = adapter, !.answer = answer,
                                !.frames = IF adapter = "chat" THEN <<>> ELSE FramesOf(style, answer)]
    /\ shown' = NothingShown

\* Once the stream is over only its outcome is kept.
Over(state, content, finish) ==
  [Closed EXCEPT !.state = state, !.content = content, !.finish = finish]

CloseStream == stream' = Closed /\ shown' = NothingShown

Streaming == stream.state = "open" /\ stream.adapter = "responses" /\ ~stream.completed

-----------------------------------------------------------------------------
(* ResponseStreamState::apply, one action for each kind of event.            *)

\* function_by_key: the accumulator of an item, made on first use.
KnownItem(item) == \E k \in DOMAIN stream.functions : stream.functions[k].item = item
ByKey(item) ==
  IF KnownItem(item) THEN stream.functions
  ELSE Append(stream.functions, [item |-> item, call |-> NoCall, args |-> "empty"])

FunctionOf(item) == CHOOSE f \in ToSet(ByKey(item)) : f.item = item
WithFunction(f) ==
  [k \in DOMAIN ByKey(f.item) |-> IF ByKey(f.item)[k].item = f.item THEN f ELSE ByKey(f.item)[k]]

Grown(args) == IF args = "empty" THEN "part" ELSE "whole"

NextFrame(kind) ==
  /\ Streaming
  /\ stream.at < Len(stream.frames)
  /\ stream.frames[stream.at + 1].kind = kind
Item == stream.frames[stream.at + 1].item

TextDelta ==
  /\ NextFrame("text")
  /\ stream' = [stream EXCEPT !.at = @ + 1, !.text = TRUE]
  /\ shown' = [shown EXCEPT !.texts = @ + 1]

ItemAdded ==
  /\ NextFrame("added")
  /\ stream' = [stream EXCEPT !.at = @ + 1,
       !.functions = WithFunction(
         [FunctionOf(Item) EXCEPT !.call = stream.answer.calls[Item], !.args = "empty"])]
  /\ UNCHANGED shown

ArgumentsDelta ==
  /\ NextFrame("delta")
  /\ stream' = [stream EXCEPT !.at = @ + 1,
       !.functions = WithFunction([FunctionOf(Item) EXCEPT !.args = Grown(@)])]
  /\ UNCHANGED shown

\* emit_function: only once, only for a call whose id is known, and an error
\* if the first accumulator of that id has no valid arguments.
MayEmit(id) == id # NoId /\ id \notin Emitted
Decodable(functions, id) ==
  functions[SelectInSeq(functions, LAMBDA f : f.call.id = id)].args # "part"

ArgumentsDone ==
  /\ NextFrame("done") \/ NextFrame("closed")
  /\ LET whole     == stream.frames[stream.at + 1].kind = "done"
         function  == [FunctionOf(Item) EXCEPT !.args = IF whole THEN "whole" ELSE @]
         functions == WithFunction(function)
         id        == function.call.id
         fails     == MayEmit(id) /\ ~Decodable(functions, id)
     IN /\ stream' = IF fails THEN Over("failed", Nothing, "none")
                     ELSE [stream EXCEPT !.at = @ + 1, !.functions = functions]
        /\ shown' = [shown EXCEPT !.calls = IF MayEmit(id) /\ ~fails THEN Append(@, id) ELSE @]

\* response.completed: the output may be left out by the service, and the
\* finish reason is decoded from the output of this event alone.
Completed(output) ==
  /\ Streaming /\ stream.at = Len(stream.frames)
  /\ output \in {stream.answer, Nothing}
  /\ stream' = [stream EXCEPT !.completed = TRUE, !.content = output, !.finish = Inferred(output)]
  /\ UNCHANGED shown

\* response.incomplete: the service gave up at its token limit or its filter.
Incomplete(output) ==
  /\ Streaming
  /\ output \in {stream.answer, [stream.answer EXCEPT !.calls = <<>>], Nothing}
  /\ stream' = [stream EXCEPT !.completed = TRUE, !.content = output, !.finish = "length"]
  /\ UNCHANGED shown

\* An error event, bad JSON, a transport error, the timeout or a size limit; the
\* transport may still fail behind the last event.
StreamFails ==
  /\ stream.state = "open"
  /\ stream' = Over("failed", Nothing, "none") /\ UNCHANGED shown

-----------------------------------------------------------------------------
(* The end of the stream.                                                    *)

\* accumulated_content: the fallback when the last event had no output.  It
\* takes the accumulators that know their call, in order.
Named == {k \in DOMAIN stream.functions : stream.functions[k].call # NoCall}
NthNamed(n) ==
  stream.functions[CHOOSE k \in Named : Cardinality({j \in Named : j <= k}) = n]
Accumulated ==
  [text |-> stream.text, calls |-> [n \in 1..Cardinality(Named) |-> NthNamed(n).call]]
AccumulatedDecodes == \A k \in Named : stream.functions[k].args # "part"

\* What is shown when these calls are emitted too, each unless it has been.
EmittedWith(calls) ==
  LET ids[k \in 0..Len(calls)] ==
        IF k = 0 THEN shown.calls
        ELSE IF calls[k].id \in ToSet(ids[k - 1]) THEN ids[k - 1]
        ELSE Append(ids[k - 1], calls[k].id)
  IN ids[Len(calls)]

\* Mutant: the text of the last event is shown although deltas carried it.
OwedAgain(content) ==
  [texts |-> shown.texts + IF content.text THEN 1 ELSE 0,
   calls |-> EmittedWith(content.calls)]

\* The announcements finish still owes: text that no delta carried, calls not
\* emitted yet.
Owed(content) ==
  [texts |-> shown.texts + IF content.text /\ ~stream.text THEN 1 ELSE 0,
   calls |-> EmittedWith(content.calls)]

EndOfStream ==
  /\ stream.state = "open" /\ stream.adapter = "responses"
  /\ LET fallback == stream.content = Nothing
         content  == IF fallback THEN Accumulated ELSE stream.content
         fails    == ~stream.completed \/ (fallback /\ ~AccumulatedDecodes)
     IN IF fails
        THEN stream' = Over("failed", Nothing, "none") /\ UNCHANGED shown
        ELSE /\ stream' = Over("answered", content, stream.finish)
             /\ shown' = Owed(content)

\* emit_response: an adapter that does not stream shows the answer at once.
ShownWhole(content) ==
  [texts |-> IF content.text THEN 1 ELSE 0, calls |-> IdsOf(content.calls)]

\* The chat adapter: one document, whose finish reason may be missing.
ChatReply(finish) ==
  /\ stream.state = "open" /\ stream.adapter = "chat"
  /\ finish \in {"tool_calls", "stop", "length", "missing"}
  /\ stream' = Over("answered", stream.answer,
                    IF finish = "missing" THEN Inferred(stream.answer) ELSE finish)
  /\ shown' = ShownWhole(stream.answer)

StreamStep ==
  \/ TextDelta \/ ItemAdded \/ ArgumentsDelta \/ ArgumentsDone
  \/ \E output \in {stream.answer, [stream.answer EXCEPT !.calls = <<>>], Nothing} :
       Completed(output) \/ Incomplete(output)
  \/ StreamFails \/ EndOfStream
  \/ \E finish \in {"tool_calls", "stop", "length", "missing"} : ChatReply(finish)

-----------------------------------------------------------------------------
(* What the runtime accepts (validate_model_response).                       *)
Valid ==
  /\ IsInjective(IdsOf(stream.content.calls))
  /\ (stream.finish = "tool_calls") <=> (stream.content.calls # <<>>)

\* A message on the wire: an item for each user message, text of the model,
\* call, result and image.  The Responses form writes the text of an answer
\* behind its calls, and an image inside its result.  The chat form writes both
\* parts of an answer in one message, the text first; it cannot carry an image
\* in a result, and adds a user message behind it.
WireItem(kind, id) == [kind |-> kind, id |-> id]
ItemIf(present, kind) == IF present THEN <<WireItem(kind, NoId)>> ELSE <<>>
CallItems(m) == [k \in DOMAIN m.calls |-> WireItem("call", m.calls[k])]

ResponsesItems(m) ==
  CASE m.role = "user"      -> <<WireItem("user", NoId)>>
    [] m.role = "assistant" -> CallItems(m) \o ItemIf(m.text, "text")
    [] m.role = "tool"      -> <<WireItem("result", m.answers)>>

ChatItems(m) ==
  CASE m.role = "user"      -> <<WireItem("user", NoId)>>
    [] m.role = "assistant" -> ItemIf(m.text, "text") \o CallItems(m)
    [] m.role = "tool"      -> <<WireItem("result", m.answers)>> \o ItemIf(m.image, "image")

Encoded(adapter, messages) ==
  FlattenSeq([k \in DOMAIN messages |->
    IF adapter = "chat" THEN ChatItems(messages[k]) ELSE ResponsesItems(messages[k])])
=============================================================================
