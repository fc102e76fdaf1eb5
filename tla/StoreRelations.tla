--------------------------- MODULE StoreRelations ----------------------------
(***************************************************************************)
(* The relations between the records of a kody store: the inserting,       *)
(* updating and deleting methods of InMemoryStore (kody-core/src/store.rs) *)
(* and the rules of validate_store_state.  JsonFileStore runs the same     *)
(* methods on a fork and validates the result (module JsonStore); the      *)
(* in-memory store runs them as they are, so each method's own checks have *)
(* to keep every rule, or one bad record makes the methods that validate   *)
(* the whole state refuse every Thread's next Turn.                        *)
(*                                                                         *)
(* A table maps the ids of its records to a record or to None.  The fields *)
(* kept are the ones rules are about.  Statuses, titles and timestamps are *)
(* left out; of a process only whether it is active.  workspace_by_thread  *)
(* is a variable, because its users read it where it can differ from the   *)
(* workspaces; the orders and the index of origins are always functions of *)
(* the tables and are read off them.                                       *)
(***************************************************************************)
CONSTANTS
  ThreadIds, WorkspaceIds, ProjectIds, MessageIds, TurnIds, ArtifactIds,
  ProcessIds,
  Roots,      \* directories a Project can be imported from
  Calls,      \* tool calls a process can originate from
  Contexts,   \* reference lists a Thread or a Message can carry
  Bodies,     \* what a Message can carry
  None

ThreadReferences == [thread : ThreadIds, messages : SUBSET MessageIds]

ThreadRecords  == [workspace : WorkspaceIds, context : Contexts]
MessageRecords == [thread : ThreadIds, turn : TurnIds \cup {None},
                   body : Bodies]
ArtifactRecords == [thread : ThreadIds, message : MessageIds \cup {None}]
TurnRecords     == [thread : ThreadIds, input : MessageIds]
ProcessRecords  == [thread : ThreadIds, turn : TurnIds, call : Calls,
                    project : ProjectIds \cup {None}, active : BOOLEAN]

ASSUME RelationsAssumption ==
  /\ Contexts \subseteq [projects : SUBSET ProjectIds,
                         threads : SUBSET ThreadReferences]
  /\ Bodies \subseteq [context : Contexts,
                       shows : SUBSET ArtifactIds,    \* MessagePart::Artifact
                       outputs : SUBSET ArtifactIds]  \* MessagePart::ToolResult
  /\ None \notin Roots \cup ThreadIds \cup WorkspaceIds \cup ProjectIds
                   \cup MessageIds \cup TurnIds
  /\ None \notin ThreadRecords /\ None \notin MessageRecords
  /\ None \notin ArtifactRecords /\ None \notin TurnRecords
  /\ None \notin ProcessRecords

VARIABLES
  projects,    \* root of each Project
  threads, messages, artifacts, turns, processes,
  workspaces,  \* the Thread of each Workspace
  homes,       \* workspace_by_thread: the Workspace indexed for a Thread
  partial      \* whether insert_thread, insert_workspace, update_message and
               \* delete_artifact are called: the program never does

relationVars == <<projects, threads, messages, artifacts, turns, processes,
                  workspaces, homes, partial>>

Stored(table) == {id \in DOMAIN table : table[id] # None}

\* Add records to a table; remove them.
Put(table, id, record) == [table EXCEPT ![id] = record]
Without(table, ids) ==
  [id \in DOMAIN table |-> IF id \in ids THEN None ELSE table[id]]

RelationsInit ==
  /\ projects = [p \in ProjectIds |-> None]
  /\ threads = [h \in ThreadIds |-> None]
  /\ messages = [m \in MessageIds |-> None]
  /\ artifacts = [a \in ArtifactIds |-> None]
  /\ turns = [t \in TurnIds |-> None]
  /\ processes = [q \in ProcessIds |-> None]
  /\ workspaces = [k \in WorkspaceIds |-> None]
  /\ homes = [h \in ThreadIds |-> None]
  /\ partial \in BOOLEAN

------------------------------------------------------------------------------
(* The rules of validate_store_state *)

\* validate_references, for the references c of Thread owner or its messages.
ContextOK(owner, c) ==
  /\ c.projects \subseteq Stored(projects)
  /\ \A r \in c.threads :
       /\ r.thread # owner
       /\ r.thread \in Stored(threads)
       /\ \A m \in r.messages :
            m \in Stored(messages) /\ messages[m].thread = r.thread

\* validate_thread_workspace
HomeOK(h, k) ==
  /\ workspaces[k] \in {None, h}
  /\ homes[h] \in {None, k}

\* validate_message
MessageOK(m, r) ==
  /\ r.thread \in Stored(threads)
  /\ r.turn # None =>
       r.turn \in Stored(turns) /\ turns[r.turn].thread = r.thread
  /\ ContextOK(r.thread, r.body.context)
  /\ \A a \in r.body.shows \cup r.body.outputs :
       a \in Stored(artifacts) /\ artifacts[a].thread = r.thread
  /\ \A a \in r.body.shows : artifacts[a].message = m

\* validate_artifact
ArtifactOK(r) ==
  /\ r.thread \in Stored(threads)
  /\ r.message # None =>
       r.message \in Stored(messages) /\ messages[r.message].thread = r.thread

\* validate_turn
TurnOK(t, r) ==
  /\ r.thread \in Stored(threads)
  /\ r.input \in Stored(messages)
  /\ messages[r.input].thread = r.thread
  /\ messages[r.input].turn \in {None, t}

\* validate_process
ProcessOK(r) ==
  /\ r.thread \in Stored(threads)
  /\ r.turn \in Stored(turns) /\ turns[r.turn].thread = r.thread
  /\ r.project # None => r.project \in Stored(projects)

RootsUnique ==
  \A p1, p2 \in Stored(projects) : projects[p1] = projects[p2] => p1 = p2
HomesOK ==
  /\ \A h \in ThreadIds, k \in WorkspaceIds :
       homes[h] = k <=> workspaces[k] = h
  /\ \A k \in Stored(workspaces) :
       /\ workspaces[k] \in Stored(threads)
       /\ threads[workspaces[k]].workspace = k
  /\ \A h \in Stored(threads) :
       /\ threads[h].workspace \in Stored(workspaces)
       /\ HomeOK(h, threads[h].workspace)
ContextsOK ==
  /\ \A h \in Stored(threads) : ContextOK(h, threads[h].context)
  /\ \A m \in Stored(messages) :
       ContextOK(messages[m].thread, messages[m].body.context)
MessagesOK  == \A m \in Stored(messages) : MessageOK(m, messages[m])
ArtifactsOK == \A a \in Stored(artifacts) : ArtifactOK(artifacts[a])
TurnsOK     == \A t \in Stored(turns) : TurnOK(t, turns[t])
ProcessesOK == \A q \in Stored(processes) : ProcessOK(processes[q])
Origin(r)   == <<r.turn, r.call>>
OriginsUnique ==
  \A q1, q2 \in Stored(processes) :
    Origin(processes[q1]) = Origin(processes[q2]) => q1 = q2

\* validate_store_state
StoreValid ==
  /\ RootsUnique
  /\ HomesOK
  /\ ContextsOK
  /\ MessagesOK
  /\ ArtifactsOK
  /\ TurnsOK
  /\ ProcessesOK /\ OriginsUnique

------------------------------------------------------------------------------
(* Projects *)

InsertProject(p, root) ==
  /\ projects[p] = None
  /\ \A q \in ProjectIds : projects[q] # root
  /\ projects' = Put(projects, p, root)
  /\ UNCHANGED <<threads, messages, artifacts, turns, processes, workspaces,
                 homes, partial>>

\* Some Thread or Message selects the Project.
ProjectReferenced(p) ==
  \/ \E h \in Stored(threads) : p \in threads[h].context.projects
  \/ \E m \in Stored(messages) : p \in messages[m].body.context.projects

\* Terminal processes of the Project forget it.
DeleteProject(p) ==
  /\ p \in Stored(projects)
  /\ ~ ProjectReferenced(p)
  /\ \A q \in Stored(processes) :
       processes[q].project = p => ~ processes[q].active
  /\ projects' = Put(projects, p, None)
  /\ processes' =
       [q \in ProcessIds |->
         IF processes[q] # None /\ processes[q].project = p
         THEN [processes[q] EXCEPT !.project = None] ELSE processes[q]]
  /\ UNCHANGED <<threads, messages, artifacts, turns, workspaces, homes,
                 partial>>

------------------------------------------------------------------------------
(* Threads and Workspaces *)

InsertThreadWithWorkspace(h, k, c) ==
  /\ threads[h] = None /\ workspaces[k] = None /\ homes[h] = None
  /\ ContextOK(h, c)
  /\ threads' = Put(threads, h, [workspace |-> k, context |-> c])
  /\ workspaces' = Put(workspaces, k, h)
  /\ homes' = Put(homes, h, k)
  /\ UNCHANGED <<projects, messages, artifacts, turns, processes, partial>>

InsertThread(h, k, c) ==
  /\ partial
  /\ threads[h] = None
  /\ ContextOK(h, c) /\ HomeOK(h, k)
  /\ threads' = Put(threads, h, [workspace |-> k, context |-> c])
  /\ UNCHANGED <<projects, messages, artifacts, turns, processes, workspaces,
                 homes, partial>>

UpdateThread(h, c) ==
  /\ h \in Stored(threads)
  /\ ContextOK(h, c) /\ HomeOK(h, threads[h].workspace)
  /\ threads' = [threads EXCEPT ![h].context = c]
  /\ UNCHANGED <<projects, messages, artifacts, turns, processes, workspaces,
                 homes, partial>>

Selects(c, h) == \E r \in c.threads : r.thread = h

\* Another Thread or one of its Messages selects the Thread.
ThreadReferenced(h) ==
  \/ \E g \in Stored(threads) \ {h} : Selects(threads[g].context, h)
  \/ \E m \in Stored(messages) :
       messages[m].thread # h /\ Selects(messages[m].body.context, h)

Of(table, h) == {id \in Stored(table) : table[id].thread = h}

\* Mutant: the Thread's processes are left behind.
DeleteThreadOnly(h) ==
  /\ h \in Stored(threads)
  /\ ~ ThreadReferenced(h)
  /\ \A q \in Of(processes, h) : ~ processes[q].active
  /\ threads' = Put(threads, h, None)
  /\ workspaces' = Put(workspaces, threads[h].workspace, None)
  /\ homes' = Put(homes, h, None)
  /\ messages' = Without(messages, Of(messages, h))
  /\ turns' = Without(turns, Of(turns, h))
  /\ artifacts' = Without(artifacts, Of(artifacts, h))
  /\ UNCHANGED <<projects, processes, partial>>

DeleteThread(h) ==
  /\ h \in Stored(threads)
  /\ ~ ThreadReferenced(h)
  /\ \A q \in Of(processes, h) : ~ processes[q].active
  /\ threads' = Put(threads, h, None)
  /\ workspaces' = Put(workspaces, threads[h].workspace, None)
  /\ homes' = Put(homes, h, None)
  /\ messages' = Without(messages, Of(messages, h))
  /\ turns' = Without(turns, Of(turns, h))
  /\ artifacts' = Without(artifacts, Of(artifacts, h))
  /\ processes' = Without(processes, Of(processes, h))
  /\ UNCHANGED <<projects, partial>>

InsertWorkspace(k, h) ==
  /\ partial
  /\ workspaces[k] = None /\ homes[h] = None
  /\ h \in Stored(threads) => threads[h].workspace = k
  /\ workspaces' = Put(workspaces, k, h)
  /\ homes' = Put(homes, h, k)
  /\ UNCHANGED <<projects, threads, messages, artifacts, turns, processes,
                 partial>>

DeleteWorkspace(k) ==
  /\ k \in Stored(workspaces)
  /\ workspaces[k] \notin Stored(threads)
  /\ workspaces' = Put(workspaces, k, None)
  /\ homes' = Put(homes, workspaces[k], None)
  /\ UNCHANGED <<projects, threads, messages, artifacts, turns, processes,
                 partial>>

------------------------------------------------------------------------------
(* Messages and artifacts *)

AppendMessage(m, r) ==
  /\ messages[m] = None
  /\ MessageOK(m, r)
  /\ messages' = Put(messages, m, r)
  /\ UNCHANGED <<projects, threads, artifacts, turns, processes, workspaces,
                 homes, partial>>

UpdateMessage(m, r) ==
  /\ partial
  /\ m \in Stored(messages)
  /\ r.thread = messages[m].thread
  /\ MessageOK(m, r)
  /\ messages' = Put(messages, m, r)
  /\ UNCHANGED <<projects, threads, artifacts, turns, processes, workspaces,
                 homes, partial>>

SelectsMessage(c, m) == \E r \in c.threads : m \in r.messages

MessageReferenced(m) ==
  \/ \E h \in Stored(threads) : SelectsMessage(threads[h].context, m)
  \/ \E n \in Stored(messages) : SelectsMessage(messages[n].body.context, m)

DeleteMessage(m) ==
  /\ m \in Stored(messages)
  /\ \A t \in Stored(turns) : turns[t].input # m
  /\ ~ MessageReferenced(m)
  /\ messages' = Put(messages, m, None)
  /\ artifacts' =
       [a \in ArtifactIds |->
         IF artifacts[a] # None /\ artifacts[a].message = m
         THEN [artifacts[a] EXCEPT !.message = None] ELSE artifacts[a]]
  /\ UNCHANGED <<projects, threads, turns, processes, workspaces, homes,
                 partial>>

\* The new artifacts share a Thread and a Message in every call.
NewArtifacts(A, r) ==
  /\ \A a \in A : artifacts[a] = None
  /\ artifacts' = [a \in ArtifactIds |-> IF a \in A THEN r ELSE artifacts[a]]

InsertArtifacts(A, r) ==
  /\ NewArtifacts(A, r)
  /\ UNCHANGED <<projects, threads, messages, turns, processes, workspaces,
                 homes, partial>>
  /\ StoreValid'

DeleteArtifact(a) ==
  /\ partial
  /\ a \in Stored(artifacts)
  /\ \A m \in Stored(messages) : a \notin messages[m].body.shows
  /\ artifacts' = Put(artifacts, a, None)
  /\ UNCHANGED <<projects, threads, messages, turns, processes, workspaces,
                 homes, partial>>

\* A user message, the assistant's answer and its artifacts in one commit.
AppendImageGeneration(h, u, user, v, assistant, A) ==
  /\ u # v /\ messages[u] = None /\ messages[v] = None
  /\ messages' =
       [messages EXCEPT ![u] = [thread |-> h, turn |-> None, body |-> user],
                        ![v] = [thread |-> h, turn |-> None,
                                body |-> assistant]]
  /\ NewArtifacts(A, [thread |-> h, message |-> v])
  /\ UNCHANGED <<projects, threads, turns, processes, workspaces, homes,
                 partial>>
  /\ StoreValid'

------------------------------------------------------------------------------
(* Turns and processes *)

\* The queued Turn, its input message and the uploads in one commit.
InsertTurnInput(h, t, m, input, A) ==
  /\ messages[m] = None /\ turns[t] = None
  /\ messages' = Put(messages, m, [thread |-> h, turn |-> t, body |-> input])
  /\ turns' = Put(turns, t, [thread |-> h, input |-> m])
  /\ NewArtifacts(A, [thread |-> h, message |-> m])
  /\ UNCHANGED <<projects, threads, processes, workspaces, homes, partial>>
  /\ StoreValid'

InsertTurn(t, r) ==
  /\ turns[t] = None
  /\ TurnOK(t, r)
  /\ turns' = Put(turns, t, r)
  /\ UNCHANGED <<projects, threads, messages, artifacts, processes, workspaces,
                 homes, partial>>

\* Mutant: only the Turn's messages are looked for.
DeleteTurnOfProcess(t) ==
  /\ t \in Stored(turns)
  /\ \A m \in Stored(messages) : messages[m].turn # t
  /\ turns' = Put(turns, t, None)
  /\ UNCHANGED <<projects, threads, messages, artifacts, processes, workspaces,
                 homes, partial>>

DeleteTurn(t) ==
  /\ t \in Stored(turns)
  /\ \A m \in Stored(messages) : messages[m].turn # t
  /\ \A q \in Stored(processes) : processes[q].turn # t
  /\ turns' = Put(turns, t, None)
  /\ UNCHANGED <<projects, threads, messages, artifacts, processes, workspaces,
                 homes, partial>>

InsertProcess(q, r) ==
  /\ processes[q] = None
  /\ \A p \in Stored(processes) : Origin(processes[p]) # Origin(r)
  /\ ProcessOK(r)
  /\ processes' = Put(processes, q, r)
  /\ UNCHANGED <<projects, threads, messages, artifacts, turns, workspaces,
                 homes, partial>>

\* update_process and transition_process_status: the owner, the origin and the
\* Project are immutable, and a terminal process stays terminal.
EndProcess(q) ==
  /\ q \in Stored(processes) /\ processes[q].active
  /\ ProcessOK(processes[q])
  /\ processes' = [processes EXCEPT ![q].active = FALSE]
  /\ UNCHANGED <<projects, threads, messages, artifacts, turns, workspaces,
                 homes, partial>>

DeleteProcess(q) ==
  /\ q \in Stored(processes) /\ ~ processes[q].active
  /\ processes' = Put(processes, q, None)
  /\ UNCHANGED <<projects, threads, messages, artifacts, turns, workspaces,
                 homes, partial>>

------------------------------------------------------------------------------
ProjectStep ==
  \E p \in ProjectIds :
    (\E root \in Roots : InsertProject(p, root)) \/ DeleteProject(p)

ThreadStep ==
  \/ \E h \in ThreadIds, c \in Contexts :
       \/ UpdateThread(h, c)
       \/ \E k \in WorkspaceIds :
            InsertThreadWithWorkspace(h, k, c) \/ InsertThread(h, k, c)
  \/ \E h \in ThreadIds : DeleteThread(h)
  \/ \E k \in WorkspaceIds :
       DeleteWorkspace(k) \/ \E h \in ThreadIds : InsertWorkspace(k, h)

MessageStep ==
  \E m \in MessageIds :
    \/ \E r \in MessageRecords : AppendMessage(m, r) \/ UpdateMessage(m, r)
    \/ DeleteMessage(m)

ArtifactStep ==
  \/ \E A \in SUBSET ArtifactIds, r \in ArtifactRecords : InsertArtifacts(A, r)
  \/ \E a \in ArtifactIds : DeleteArtifact(a)
  \/ \E h \in ThreadIds, u, v \in MessageIds, user, assistant \in Bodies,
        A \in SUBSET ArtifactIds :
       AppendImageGeneration(h, u, user, v, assistant, A)

TurnStep ==
  \/ \E h \in ThreadIds, t \in TurnIds, m \in MessageIds, input \in Bodies,
        A \in SUBSET ArtifactIds : InsertTurnInput(h, t, m, input, A)
  \/ \E t \in TurnIds :
       (\E r \in TurnRecords : InsertTurn(t, r)) \/ DeleteTurn(t)

ProcessStep ==
  \E q \in ProcessIds :
    \/ \E r \in ProcessRecords : InsertProcess(q, r)
    \/ EndProcess(q) \/ DeleteProcess(q)

RelationsNext == ProjectStep \/ ThreadStep \/ MessageStep \/ ArtifactStep
                 \/ TurnStep \/ ProcessStep

RelationsSpec == RelationsInit /\ [][RelationsNext]_relationVars

------------------------------------------------------------------------------
(* Properties *)

TablesTyped ==
  /\ projects \in [ProjectIds -> Roots \cup {None}]
  /\ threads \in [ThreadIds -> ThreadRecords \cup {None}]
  /\ messages \in [MessageIds -> MessageRecords \cup {None}]
  /\ artifacts \in [ArtifactIds -> ArtifactRecords \cup {None}]
  /\ turns \in [TurnIds -> TurnRecords \cup {None}]
  /\ processes \in [ProcessIds -> ProcessRecords \cup {None}]
  /\ workspaces \in [WorkspaceIds -> ThreadIds \cup {None}]
  /\ homes \in [ThreadIds -> WorkspaceIds \cup {None}]
  /\ partial \in BOOLEAN

\* What the program does never leaves a state that validate_store_state, and
\* with it the next open or the next queued Turn, refuses.
StaysValid == ~ partial => StoreValid

\* No sequence of StateStore calls leaves a context that names a missing
\* Project, Thread or Message (delete_project, delete_thread, delete_message).
NoDanglingContext == ContextsOK

\* No sequence of StateStore calls leaves a process without its Thread, its
\* Turn or its Project, or two processes of one tool call (delete_turn,
\* delete_thread, delete_project, insert_process).
ProcessesOwned == ProcessesOK /\ OriginsUnique

\* What every method of StateStore keeps, by itself and with no help of its
\* caller: the records are well formed and the two rules hold.
Relations == TablesTyped /\ NoDanglingContext /\ ProcessesOwned
==============================================================================
