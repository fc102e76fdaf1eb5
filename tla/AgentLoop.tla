------------------------------- MODULE AgentLoop -------------------------------
(***************************************************************************)
(* The Turns of one Thread as its message history sees them: the native    *)
(* agent loop (execute_loop of crates/kody-core/src/runtime.rs), the       *)
(* activity of an external backend, the context builder (context.rs), the  *)
(* tool registry and the built-in tools (tools/), composed with the        *)
(* provider adapters of module ModelStream.                                *)
(*                                                                         *)
(* A message is its Turn (0: of no Turn), its role, whether an answer has  *)
(* text, the ids of the calls it makes or of the call it answers, the      *)
(* access to the one Project it references, and whether it carries an      *)
(* image.  A result costs more of the history budget than another          *)
(* message.  A call names a tool and whether it works in the Project or in *)
(* the Thread Workspace.  Admission of Turns, statuses, events and         *)
(* restarts are in module TurnRuntime.                                     *)
(***************************************************************************)
EXTENDS ModelStream, FiniteSetsExt

CONSTANTS
  Requests,   \* bound: what each Turn in turn may be started with, see Request
  MaxSteps,   \* RuntimeConfig.max_steps
  Budget,     \* max_current_history_chars, in messages without results
  ResultCost, \* bound: how many of those a tool result costs
  MaxFaults   \* bound: failed store calls, unreadable artifacts, panics

Modes     == {"read_only", "ask", "full_access"}
Providers == {"responses", "chat", "codex"}
\* turn/start: its provider, permission mode and Project reference.
Request   == [provider : Providers, mode : Modes, access : {"none", "read_only", "read_write"}]

ASSUME LoopAssumption ==
  /\ MaxSteps \in Nat \ {0} /\ Budget \in Nat /\ ResultCost \in Nat
  /\ MaxFaults \in Nat
  /\ Requests \in Seq(SUBSET Request)

VARIABLES
  history,    \* messages of the Thread
  turn,       \* number of the latest Turn
  provider, mode,
  pc,         \* where its task stands; "idle" between Turns
  step,       \* model requests of the Turn
  todo,       \* calls, or external activities, still to be answered
  cancelled,  \* its cancellation token
  verdict,    \* the pending approval, or what the backend returned
  sent,       \* [from, to]: the part of history in the latest request
  group,      \* is a process group of the shell tool alive?
  direct,     \* an image/generate call on the same Thread
  ended,      \* how each Turn ended
  approved,   \* history: calls of this step the user approved
  ran,        \* history: calls of this step that a tool worked on
  faults

loop  == <<turn, provider, mode, step, sent>>
vars  == <<stream, shown, history, loop, pc, todo, cancelled, verdict, group, direct, ended,
           approved, ran, faults>>

TurnIds == DOMAIN Requests

NothingSent == [from |-> 1, to |-> 0]

Init ==
  /\ stream = Closed /\ shown = NothingShown
  /\ history = <<>> /\ turn = 0 /\ provider = "none" /\ mode = "none"
  /\ pc = "idle" /\ step = 0 /\ todo = <<>> /\ cancelled = FALSE /\ verdict = "none"
  /\ sent = NothingSent /\ group = FALSE /\ direct = "none"
  /\ ended = [t \in TurnIds |-> "no"] /\ approved = {} /\ ran = {} /\ faults = 0

-----------------------------------------------------------------------------
(* Messages and tools.                                                       *)

Message(t, role) ==
  [turn |-> t, role |-> role, text |-> FALSE, calls |-> <<>>, answers |-> NoId, access |-> "none",
   image |-> FALSE]
Question(t, access) == [Message(t, "user") EXCEPT !.access = access]
Reply(t, text, ids) == [Message(t, "assistant") EXCEPT !.text = text, !.calls = ids]
TextReply(t)        == Reply(t, TRUE, <<>>)
Result(t, id, img)  == [Message(t, "tool") EXCEPT !.answers = id, !.image = img]

\* A tool: what it may harm, whether it wants a Project that is referenced for
\* writing (select_root), whether it watches the token of the Turn while it
\* works, and whether its result shows an image.
Tool(risk, writes, watches) == [risk |-> risk, writes |-> writes, watches |-> watches, shows |-> FALSE]

ReadFile          == Tool("read_only", FALSE, TRUE)
ListDirectory     == Tool("read_only", FALSE, TRUE)
WriteFile         == Tool("filesystem_write", TRUE, TRUE)
Shell             == Tool("command_execution", TRUE, TRUE)
\* Mutant: the start of a managed process watches the token like other tools.
StartWatches      == Tool("command_execution", TRUE, TRUE)
StartProcess      == Tool("command_execution", TRUE, FALSE)
ListProcesses     == Tool("read_only", FALSE, FALSE)
ReadProcessOutput == Tool("read_only", FALSE, FALSE)
StopProcess       == Tool("process_control", FALSE, FALSE)
ViewImage         == [Tool("read_only", FALSE, FALSE) EXCEPT !.shows = TRUE]
GenerateImage     == Tool("external_action", FALSE, TRUE)

\* The registry: a name that is not in its domain is ToolNotFound.
Tools ==
  [read_file |-> ReadFile, list_directory |-> ListDirectory, write_file |-> WriteFile,
   shell |-> Shell, start_process |-> StartProcess, list_processes |-> ListProcesses,
   read_process_output |-> ReadProcessOutput, stop_process |-> StopProcess,
   view_image |-> ViewImage, generate_image |-> GenerateImage]

Outward             == {"command_execution", "external_action"}
Forbidden(tool)     == mode = "read_only" /\ Tools[tool].risk # "read_only"
NeedsApproval(tool) == mode = "ask" /\ Tools[tool].risk \in Outward

\* Mutant: the first reference to a Project is kept.
FirstAccess(h) ==
  LET at == {k \in DOMAIN h : h[k].access # "none"}
  IN IF at = {} THEN "none" ELSE h[Min(at)].access

\* collect_references: the last reference to the Project in the Thread wins.
Access(h) ==
  LET at == {k \in DOMAIN h : h[k].access # "none"}
  IN IF at = {} THEN "none" ELSE h[Max(at)].access

Selectable(call, access) ==
  call.project => access # "none" /\ (Tools[call.tool].writes => access = "read_write")

-----------------------------------------------------------------------------
(* The context of a request.                                                 *)

\* budget_history: neighbouring messages of one Turn form a group, a message
\* of no Turn is one by itself; groups are taken from the newest, which is
\* always kept, until one does not fit.
Cost(h, k) ==
  LET results == {j \in k..Len(h) : h[j].role = "tool"}
  IN Len(h) - k + 1 + (ResultCost - 1) * Cardinality(results)

GroupStarts(h) ==
  {k \in DOMAIN h : k = 1 \/ h[k].turn = 0 \/ h[k - 1].turn # h[k].turn}
\* Mutant: messages are dropped one by one.
RetainedByMessage(h) ==
  Min({k \in DOMAIN h : Cost(h, k) <= Budget} \cup {Len(h)})

RetainedFrom(h) ==
  LET fitting == {k \in GroupStarts(h) : Cost(h, k) <= Budget}
  IN Min(fitting \cup {Max(GroupStarts(h))})

Context(h) == [from |-> RetainedFrom(h), to |-> Len(h)]

\* message_to_model: images become pixels only for the Turn that runs.
ToModel(m) == [m EXCEPT !.image = m.image /\ m.turn = turn]
SentMessages ==
  [k \in 1..sent.to - sent.from + 1 |-> ToModel(history[sent.from + k - 1])]

-----------------------------------------------------------------------------
(* The life of a Turn.                                                       *)

BeginTurn(r) ==
  /\ pc = "idle" /\ turn + 1 \in TurnIds /\ r \in Requests[turn + 1]
  /\ turn' = turn + 1 /\ provider' = r.provider /\ mode' = r.mode
  /\ history' = Append(history, Question(turn + 1, r.access))
  /\ pc' = IF r.provider = "codex" THEN "backend" ELSE "step"
  /\ UNCHANGED <<stream, shown, todo, cancelled, verdict, step, sent, group, direct, ended, approved,
                 ran, faults>>

End(status) ==
  /\ pc' = "idle" /\ ended' = [ended EXCEPT ![turn] = status]
  /\ todo' = <<>> /\ cancelled' = FALSE /\ verdict' = "none" /\ approved' = {} /\ ran' = {}
  /\ provider' = "none" /\ mode' = "none" /\ step' = 0 /\ sent' = NothingSent
  /\ CloseStream

Cancel ==
  /\ pc # "idle" /\ ~cancelled /\ cancelled' = TRUE
  /\ UNCHANGED <<stream, shown, history, loop, pc, todo, verdict, group, direct, ended, approved,
                 ran, faults>>

\* A store call fails, an artifact of the Turn cannot be read, or a panic.
\* What a tool itself reports is an answer, not a failure of the Turn; but the
\* store may fail on that answer, when the tool has worked and left no group.
Fail ==
  /\ faults < MaxFaults /\ faults' = faults + 1
  /\ pc # "idle" /\ group' = FALSE
  /\ End(IF verdict = "interrupted" THEN "cancelled" ELSE "failed")
  /\ UNCHANGED <<history, turn, direct>>

\* The loop head: the step limit, the cancellation check, the context and the
\* request of this step.
StepLimitReached ==
  /\ pc = "step" /\ step = MaxSteps /\ End("failed")
  /\ UNCHANGED <<history, turn, group, direct, faults>>

StartStep ==
  /\ pc = "step" /\ step < MaxSteps /\ ~cancelled
  /\ step' = step + 1 /\ sent' = Context(history) /\ pc' = "model"
  /\ OpenStream(provider) /\ approved' = {} /\ ran' = {}
  /\ UNCHANGED <<history, turn, provider, mode, todo, cancelled, verdict, group, direct, ended,
                 faults>>

\* Where the loop polls its token: the head of a step, the select around the
\* request, the next call, the approval, and the registry before a tool runs.
CancelSeen ==
  /\ cancelled
  /\ pc \in {"model", "call", "approval", "execute"} \/ (pc = "step" /\ step < MaxSteps)
  /\ End("cancelled")
  /\ UNCHANGED <<history, turn, group, direct, faults>>

Receive ==
  /\ pc = "model" /\ StreamStep
  /\ UNCHANGED <<history, loop, pc, todo, cancelled, verdict, group, direct, ended, approved, ran,
                 faults>>

TakeAnswer ==
  /\ pc = "model" /\ ~cancelled /\ stream.state = "answered" /\ Valid
  /\ pc' = "persist"
  /\ UNCHANGED <<stream, shown, history, loop, todo, cancelled, verdict, group, direct, ended,
                 approved, ran, faults>>

RefuseAnswer ==
  /\ pc = "model" /\ ~cancelled
  /\ stream.state = "failed" \/ (stream.state = "answered" /\ ~Valid)
  /\ End("failed")
  /\ UNCHANGED <<history, turn, group, direct, faults>>

\* persist_model_response comes before any tool; an answer without calls is
\* the final one, and ends the Turn, as cancelled if it has been by then.
PersistAnswer ==
  /\ pc = "persist"
  /\ history' = Append(history, Reply(turn, stream.content.text, IdsOf(stream.content.calls)))
  /\ IF stream.content.calls = <<>>
     THEN End(IF cancelled THEN "cancelled" ELSE "completed")
     ELSE /\ pc' = "call" /\ todo' = stream.content.calls /\ CloseStream
          /\ UNCHANGED <<provider, mode, step, sent, cancelled, verdict, ended, approved, ran>>
  /\ UNCHANGED <<turn, group, direct, faults>>

-----------------------------------------------------------------------------
(* The calls of an answer, one after the other.                              *)

Call == Head(todo)

\* persist_tool_result, and on to the next call or the next step.
Answer(img) ==
  /\ history' = Append(history, Result(turn, Call.id, img))
  /\ todo' = Tail(todo)
  /\ pc' = IF Len(todo) = 1 THEN "step" ELSE "call"

UnknownTool ==
  /\ pc = "call" /\ ~cancelled /\ Call.tool \notin DOMAIN Tools
  /\ End("failed")
  /\ UNCHANGED <<history, turn, group, direct, faults>>

\* Mutant: a forbidden call is skipped without a result.
ForbidSilently ==
  /\ pc = "call" /\ ~cancelled /\ Call.tool \in DOMAIN Tools /\ Forbidden(Call.tool)
  /\ todo' = Tail(todo) /\ pc' = (IF Len(todo) = 1 THEN "step" ELSE "call")
  /\ UNCHANGED <<stream, shown, history, loop, cancelled, verdict, group, direct, ended, approved,
                 ran, faults>>

ForbidCall ==
  /\ pc = "call" /\ ~cancelled /\ Call.tool \in DOMAIN Tools /\ Forbidden(Call.tool)
  /\ Answer(FALSE)
  /\ UNCHANGED <<stream, shown, loop, cancelled, verdict, group, direct, ended, approved, ran, faults>>

AskApproval ==
  /\ pc = "call" /\ ~cancelled /\ Call.tool \in DOMAIN Tools
  /\ ~Forbidden(Call.tool) /\ NeedsApproval(Call.tool)
  /\ pc' = "approval" /\ verdict' = "waiting"
  /\ UNCHANGED <<stream, shown, history, loop, todo, cancelled, group, direct, ended, approved, ran,
                 faults>>

AllowCall ==
  /\ pc = "call" /\ ~cancelled /\ Call.tool \in DOMAIN Tools
  /\ ~Forbidden(Call.tool) /\ ~NeedsApproval(Call.tool)
  /\ pc' = "execute"
  /\ UNCHANGED <<stream, shown, history, loop, todo, cancelled, verdict, group, direct, ended,
                 approved, ran, faults>>

\* approval/respond of a client: the broker hands the decision to the task.
Respond(decision) ==
  /\ pc = "approval" /\ verdict = "waiting" /\ decision \in {"approved", "denied"}
  /\ verdict' = decision
  /\ approved' = IF decision = "approved" THEN approved \cup {Call.id} ELSE approved
  /\ UNCHANGED <<stream, shown, history, loop, pc, todo, cancelled, group, direct, ended, ran, faults>>

ApprovalGranted ==
  /\ pc = "approval" /\ ~cancelled /\ verdict = "approved"
  /\ verdict' = "none" /\ pc' = "execute"
  /\ UNCHANGED <<stream, shown, history, loop, todo, cancelled, group, direct, ended, approved, ran,
                 faults>>

ApprovalDenied ==
  /\ pc = "approval" /\ ~cancelled /\ verdict = "denied"
  /\ verdict' = "none" /\ Answer(FALSE)
  /\ UNCHANGED <<stream, shown, loop, cancelled, group, direct, ended, approved, ran, faults>>

\* ToolRegistry::execute looks at the token for the last time, and enters the
\* tool, which awaits paths, stores and the process manager before it works.
ToolEnters ==
  /\ pc = "execute" /\ ~cancelled /\ pc' = "entered"
  /\ UNCHANGED <<stream, shown, history, loop, todo, cancelled, verdict, group, direct, ended,
                 approved, ran, faults>>

\* A tool refuses: bad arguments, a Project that is not referenced, or one that
\* is read-only.  The Project bindings are those the context was built with.
Granted == Access(SubSeq(history, 1, sent.to))

ToolRefuses ==
  /\ pc = "entered"
  /\ ~Selectable(Call, Granted)
  /\ Answer(FALSE)
  /\ UNCHANGED <<stream, shown, loop, cancelled, verdict, group, direct, ended, approved, ran, faults>>

\* It works, though the Turn may have been cancelled since it was entered.
ToolStarts ==
  /\ pc = "entered"
  /\ Selectable(Call, Granted)
  /\ pc' = "running" /\ group' = (Call.tool = "shell")
  /\ ran' = ran \cup {Call}
  /\ UNCHANGED <<stream, shown, history, loop, todo, cancelled, verdict, direct, ended, approved,
                 faults>>

\* A tool but the shell returns, with a success or an error of its own.
ToolReturns ==
  /\ pc = "running" /\ Call.tool # "shell"
  /\ \E img \in {FALSE, Tools[Call.tool].shows} : Answer(img)
  /\ UNCHANGED <<stream, shown, loop, cancelled, verdict, group, direct, ended, approved, ran, faults>>

\* It sees the cancellation: the Turn ends without a result for this call or
\* the next ones.
ToolCancelled ==
  /\ pc = "running" /\ cancelled /\ Call.tool # "shell" /\ Tools[Call.tool].watches
  /\ End("cancelled")
  /\ UNCHANGED <<history, turn, group, direct, faults>>

\* The command exits, or its timeout ends it: what is left of its process
\* group is terminated before its output is collected.
ShellExits ==
  /\ pc = "running" /\ Call.tool = "shell" /\ Answer(FALSE) /\ group' = FALSE
  /\ UNCHANGED <<stream, shown, loop, cancelled, verdict, direct, ended, approved, ran, faults>>

ShellCancelled ==
  /\ pc = "running" /\ Call.tool = "shell" /\ cancelled
  /\ group' = FALSE /\ End("cancelled")
  /\ UNCHANGED <<history, turn, direct, faults>>

-----------------------------------------------------------------------------
(* A Turn of the external backend: its tool events are gathered while it     *)
(* runs and written to the history when it returns, whatever it returned.    *)

BackendUses(id) ==
  /\ pc = "backend" /\ ~cancelled
  /\ \A k \in DOMAIN todo : todo[k].id # id
  /\ todo' = Append(todo, [NoCall EXCEPT !.id = id])
  /\ UNCHANGED <<stream, shown, history, loop, pc, cancelled, verdict, group, direct, ended, approved,
                 ran, faults>>

\* The outcome waits in verdict until the activity is stored.
BackendReturns(outcome) ==
  /\ pc = "backend"
  /\ outcome \in IF cancelled THEN {"interrupted"} ELSE {"text", "error"}
  /\ verdict' = outcome
  /\ IF todo = <<>>
     THEN pc' = "report" /\ UNCHANGED history
     ELSE pc' = "activity" /\ history' = Append(history, Reply(turn, FALSE, IdsOf(todo)))
  /\ UNCHANGED <<stream, shown, loop, todo, cancelled, group, direct, ended, approved, ran, faults>>

\* One result for each activity; one without a completion event gets an error.
ActivityResult ==
  /\ pc = "activity"
  /\ history' = Append(history, Result(turn, Call.id, FALSE))
  /\ todo' = Tail(todo) /\ pc' = (IF Len(todo) = 1 THEN "report" ELSE pc)
  /\ UNCHANGED <<stream, shown, loop, cancelled, verdict, group, direct, ended, approved, ran, faults>>

BackendReport ==
  /\ pc = "report"
  /\ IF verdict = "text" /\ ~cancelled
     THEN history' = Append(history, TextReply(turn)) /\ End("completed")
     ELSE UNCHANGED history /\ End(IF verdict = "error" THEN "failed" ELSE "cancelled")
  /\ UNCHANGED <<turn, group, direct, faults>>

-----------------------------------------------------------------------------
(* image/generate on the same Thread: it checks that no Turn runs once, and  *)
(* commits its two messages, which belong to no Turn, whenever it is done.   *)

DirectBegins ==
  /\ pc = "idle" /\ direct = "none" /\ direct' = "generating"
  /\ UNCHANGED <<stream, shown, history, loop, pc, todo, cancelled, verdict, group, ended, approved,
                 ran, faults>>

DirectCommits ==
  /\ direct = "generating" /\ direct' = "done"
  /\ history' = history \o <<Message(0, "user"), TextReply(0)>>
  /\ UNCHANGED <<stream, shown, loop, pc, todo, cancelled, verdict, group, ended, approved, ran, faults>>

-----------------------------------------------------------------------------
Next ==
  \/ \E r \in Request : BeginTurn(r)
  \/ Cancel \/ Fail \/ StepLimitReached \/ StartStep \/ CancelSeen
  \/ Receive \/ TakeAnswer \/ RefuseAnswer \/ PersistAnswer
  \/ UnknownTool \/ ForbidCall \/ AskApproval \/ AllowCall
  \/ \E decision \in {"approved", "denied"} : Respond(decision)
  \/ ApprovalGranted \/ ApprovalDenied
  \/ ToolEnters \/ ToolRefuses \/ ToolStarts \/ ToolReturns \/ ToolCancelled
  \/ ShellExits \/ ShellCancelled
  \/ \E a \in Answers : \E c \in ToSet(a.calls) : BackendUses(c.id)
  \/ \E outcome \in {"text", "error", "interrupted"} : BackendReturns(outcome)
  \/ ActivityResult \/ BackendReport
  \/ DirectBegins \/ DirectCommits

Spec == Init /\ [][Next]_vars

-----------------------------------------------------------------------------
(* Properties.                                                               *)

Types ==
  /\ turn \in TurnIds \cup {0} /\ step \in 0..MaxSteps /\ faults \in 0..MaxFaults
  /\ provider \in Providers \cup {"none"} /\ mode \in Modes \cup {"none"}
  /\ cancelled \in BOOLEAN /\ direct \in {"none", "generating", "done"}
  /\ verdict \in {"none", "waiting", "approved", "denied", "text", "error", "interrupted"}
  /\ pc \in {"idle", "step", "model", "persist", "call", "approval", "execute", "entered",
            "running", "backend", "activity", "report"}
  /\ \A t \in TurnIds : ended[t] \in {"no", "completed", "failed", "cancelled"}

\* The variables have their types and fit the place of the loop: a request is
\* in flight only while the loop waits for it (execute_loop), and no process
\* group of the shell tool outlives its call (ShellTool::execute).
TypeOK ==
  /\ Types
  /\ (stream.state = "closed") <=> (pc \notin {"model", "persist"})
  /\ pc \in {"call", "approval", "execute", "entered", "running", "activity"} => todo # <<>>
  /\ group => pc = "running" /\ Call.tool = "shell"
  /\ \A t \in TurnIds : ended[t] = "no" <=> t > turn \/ (t = turn /\ pc # "idle")

\* The messages of its Turn behind the k-th message, and the results among them
\* that come before any message with another role.
Behind(k) == {j \in k + 1..Len(history) : history[j].turn = history[k].turn}
ResultsOf(k) ==
  LET behind == Behind(k)
      others == {i \in behind : history[i].role # "tool"}
  IN {j \in behind : \A i \in others : j < i}

\* The n-th of these results is that of the n-th of these calls.
InOrder(results, calls) ==
  \A j \in results :
    LET n == Cardinality({i \in results : i <= j})
    IN n \in DOMAIN calls /\ history[j].answers = calls[n]

\* The calls of one stored answer have different ids, and each is answered
\* once and in order by the messages that follow (execute_loop,
\* persist_external_tool_activity), except at the very end of a Turn that was
\* cancelled or failed, or is still at work on its calls.
CallsAreAnswered ==
  \A k \in DOMAIN history : history[k].turn # 0 /\ history[k].role # "tool" =>
    LET results == ResultsOf(k)
        calls   == history[k].calls
        end     == ended[history[k].turn]
    IN /\ IsInjective(calls)
       /\ InOrder(results, calls)
       /\ Cardinality(results) < Len(calls) =>
            /\ Behind(k) = results
            /\ end \in {"cancelled", "failed"} \/ (end = "no" /\ todo # <<>>)

\* Messages of image/generate stand behind one of Turn t and before another of
\* it, or before the request of the Turn that is running.
Disturbed(t) ==
  \E i, k \in 1..sent.to :
    /\ i < k /\ history[i].turn = t /\ history[k].turn = 0
    /\ t = turn \/ \E j \in k + 1..sent.to : history[j].turn = t

\* The budget never drops a message of the Turn that is running (budget_history
\* keeps the newest group whatever it costs), unless messages of image/generate
\* are newer or split its group.
CurrentTurnIsSent ==
  pc = "model" /\ ~Disturbed(turn) =>
    \A k \in 1..sent.to : history[k].turn = turn => k >= sent.from

\* In the request that reaches the service every result has its call before it
\* (the comment in budget_history: "a retained tool result never loses the
\* assistant tool call it answers").  Between the two stand only calls, results,
\* in the chat form the images of results, and in the Responses form the text
\* of that very answer, directly behind its calls (encode_input_message): no
\* question, and no text of another answer.  Except where image/generate split
\* a Turn.
SentResultsKeepCalls ==
  pc = "model" /\ (\A t \in 1..turn : ~Disturbed(t)) =>
    LET wire == Encoded(provider, SentMessages)
    IN \A k \in DOMAIN wire : wire[k].kind = "result" =>
         \E j \in 1..k - 1 :
           /\ wire[j] = [kind |-> "call", id |-> wire[k].id]
           /\ \A i \in j + 1..k - 1 :
                \/ wire[i].kind \in {"call", "result"}
                \/ wire[i].kind = "image" /\ provider = "chat"
                \/ /\ wire[i].kind = "text" /\ provider # "chat"
                   /\ \A h \in j + 1..i - 1 : wire[h].kind = "call"

\* A tool works only as the Turn permits: in a read-only Turn nothing but
\* read-only tools; in an "ask" Turn no command or external action that the
\* user did not approve for this very call; and a tool that writes works in
\* the Project only if the last reference to it in the Thread grants that.
NothingRunsUnallowed ==
  \A c \in ran :
    /\ mode = "read_only" => Tools[c.tool].risk = "read_only"
    /\ mode = "ask" /\ Tools[c.tool].risk \in Outward => c.id \in approved
    /\ c.project /\ Tools[c.tool].writes =>
         \E k \in DOMAIN history : /\ history[k].access = "read_write"
                                  /\ \A j \in k + 1..Len(history) : history[j].access = "none"

\* What the client was shown of an answer the runtime accepts is the answer:
\* its text once, each of its calls once, whichever events carried them
\* (ResponseStreamState::finish, emit_response).  Only an answer cut short may
\* have shown more than it returns.
AcceptedIsShownOnce ==
  stream.state = "answered" /\ Valid =>
    /\ stream.content.text => shown.texts = 1
    /\ IsInjective(shown.calls)
    /\ ToSet(IdsOf(stream.content.calls)) \subseteq Emitted
    /\ stream.finish # "length" =>
         /\ Emitted = ToSet(IdsOf(stream.content.calls))
         /\ shown.texts = 1 => stream.content.text

\* Behind the cancellation of a Turn no tool of it is entered any more, and only
\* the one that was entered before may still start to work
\* (ToolRegistry::execute checks the token last; StartProcessTool::execute
\* awaits the directory and the process manager behind that check).
NoToolAfterCancel ==
  [][cancelled /\ pc # "entered" => pc' # "entered" /\ ran' \subseteq ran]_vars

\* A result with this id follows the last answer of the Turn.
Recorded(id) ==
  \E j \in DOMAIN history :
    /\ history[j].turn = turn /\ history[j].role = "tool" /\ history[j].answers = id
    /\ \A k \in j + 1..Len(history) : history[k].turn = turn => history[k].role = "tool"

\* A managed process outlives its Turn, so a Turn that started one has the
\* result with its id on record when it ends, cancelled or not
\* (StartProcessTool::execute does not watch the token); only a Turn that
\* failed, as when the store did, may lack it.
ManagedStartIsRecorded ==
  [][pc # "idle" /\ pc' = "idle" /\ ended'[turn] # "failed" =>
       \A c \in ran : c.tool = "start_process" => Recorded(c.id)]_vars

\* A request holds the Turn it is made for, and calls with their results.
RequestsAreWhole == TypeOK /\ CurrentTurnIsSent /\ SentResultsKeepCalls

\* Tools and cancellation: none starts behind it, and what outlives it is known.
ToolsEndWithTurn == NoToolAfterCancel /\ ManagedStartIsRecorded
=============================================================================
