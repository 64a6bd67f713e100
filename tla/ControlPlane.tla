----------------------------- MODULE ControlPlane -----------------------------
(***************************************************************************)
(* The control plane: the browser page (public/app.js) that shows one      *)
(* project at a time and queues web tasks, and the server (server.ts,      *)
(* summary.ts, registry.ts) that answers it from the projects' state.db    *)
(* and OpenCode servers.  Requests of a page overlap, and their answers    *)
(* come in any order; X2 works on the same tables meanwhile.               *)
(***************************************************************************)
EXTENDS Integers, Sequences, FiniteSets, SequencesExt

CONSTANTS
  Registries,      \* lists of raw registry entries, as projects.json may hold them
  Threads,         \* what the thread field may hold
  SessionsOf,      \* a function: the OpenCode servers, to the sessions each one has
  MaxHandlers,     \* clicks that make a request: bound of the model
  MaxPrompts,      \* texts typed into the prompt field: bound of the model
  MaxTasks,        \* tasks of all state.db together: bound of the model
  MaxMoves,        \* writes of a task's status: bound of the model
  ListLimit        \* the most tasks and threads an overview lists: 12 in the code

ASSUME ControlPlaneAssumption ==
  /\ {MaxHandlers, ListLimit} \subseteq Nat \ {0}
  /\ {MaxPrompts, MaxTasks, MaxMoves} \subseteq Nat
  /\ \A list \in Registries : IsFiniteSet(DOMAIN list)

None == "none"                                   \* null, an empty field, nothing on the screen
Statuses == {"pending", "running", "completed", "failed"}

VARIABLES
  entries,         \* the registry file
  tasks,           \* the tasks of each state.db, oldest first
  metrics,         \* per state.db, the places of the tasks whose enqueueing was recorded
  moves,           \* writes of a status so far
  sel, ses, view,  \* state.selectedProjectId, selectedSessionId, currentView
  projects,        \* state.projects: the ids of the buttons
  prompt,          \* the text in the prompt field: 0 when empty
  typed,           \* texts typed so far
  result,          \* what the form says: the task it names, nothing for none or an error
  overview,        \* the overview on the screen, if any
  detail,          \* the session detail on the screen, if any
  calls,           \* the requests under way
  made,            \* handlers that made a request so far
  disturbed        \* a load of an overview overlapped another or failed

screen == <<sel, ses, view, projects, prompt, result, overview, detail>>
tables == <<tasks, metrics, moves>>
vars == <<entries, tables, screen, typed, calls, made, disturbed>>

-----------------------------------------------------------------------------
(* registry.ts                                                             *)

DefaultProject == [id |-> "local", db |-> "local.db", url |-> "local"]

\* An entry without a root, a server or a database is dropped, one without an id is
\* named by its place in the list.
normalizeProject(entry, index) ==
  IF ~entry.complete THEN {}
  ELSE {[id |-> IF entry.id = None THEN "project-" \o ToString(index) ELSE entry.id,
         db |-> entry.db, url |-> entry.url]}

\* The enabled ones of the others, in their order.
loadProjectRegistry(list) ==
  LET kept == {i \in DOMAIN list : list[i].enabled /\ normalizeProject(list[i], i) # {}}
      Nth(n) == CHOOSE i \in kept : Cardinality({j \in kept : j <= i}) = n
  IN IF kept = {} THEN <<DefaultProject>>
     ELSE [n \in 1..Cardinality(kept) |->
             CHOOSE p \in normalizeProject(list[Nth(n)], Nth(n)) : TRUE]

Registry == loadProjectRegistry(entries)

\* The first project of that id.
getProjectOrThrow(id) ==
  LET list == Registry
  IN list[CHOOSE i \in DOMAIN list : list[i].id = id /\ \A j \in 1..(i - 1) : list[j].id # id]

-----------------------------------------------------------------------------
(* summary.ts                                                              *)

safeThreadId(name) == IF name = "" THEN "main" ELSE IF name = "a b" THEN "a-b" ELSE name

\* Threads of the tasks the web channel made, with their counts and latest task.
summarizeWebThreads(rows) ==
  LET Of(thread) == {i \in DOMAIN rows : rows[i].thread = thread}
      With(thread, status) == {i \in Of(thread) : rows[i].status = status}
  IN {[thread |-> thread, tasks |-> Cardinality(Of(thread)),
       pending |-> Cardinality(With(thread, "pending")),
       running |-> Cardinality(With(thread, "running")),
       latest |-> CHOOSE i \in Of(thread) : \A j \in Of(thread) : j <= i] :
        thread \in {rows[i].thread : i \in DOMAIN rows} \ {None}}

getStats(rows) ==
  [status \in Statuses |-> Cardinality({i \in DOMAIN rows : rows[i].status = status})]

\* The last tasks, and the threads whose latest task is among the last ones'.
Newest(rows) == {i \in DOMAIN rows : i > Len(rows) - ListLimit}
LatestThreads(rows) ==
  LET threads == summarizeWebThreads(rows)
  IN {t \in threads : Cardinality({u \in threads : u.latest > t.latest}) < ListLimit}

\* Lists of the rows that were read, statistics of the rows of now.
createProjectOverview(project, rows, now, sessions) ==
  [project |-> project, recent |-> [i \in Newest(rows) |-> rows[i]],
   threads |-> LatestThreads(rows), stats |-> getStats(now), sessions |-> sessions]

-----------------------------------------------------------------------------
(* Requests                                                                *)

\* A request of the n-th handler, and the loads that handler goes on with once it is
\* answered; form marks those the catch of submitEnqueue is around.
Call(n, kind, project, session, then, form) ==
  [n |-> n, kind |-> kind, project |-> project, session |-> session, then |-> then,
   form |-> form, thread |-> None, prompt |-> 0, phase |-> "asked", rows |-> <<>>, answer |-> {}]

\* The next load of a handler, unless there is nothing selected to load: then the handler
\* is over.  Only a refresh of the sessions view loads a detail, which is its last load.
Loads(n, then, project, session, where, form) ==
  IF \/ then = <<>> \/ project = None
     \/ Head(then) = "detail" /\ (session = None \/ where # "sessions")
  THEN {}
  ELSE {Call(n, Head(then), project, session, Tail(then), form)}

\* Whether one more load of an overview overlaps one under way.
Overlaps(others, more) ==
  /\ \E c \in more : c.kind = "overview"
  /\ \E c \in others : c.kind \in {"overview", "projects"}

Init ==
  /\ entries \in Registries
  /\ tasks = [d \in {Registry[i].db : i \in DOMAIN Registry} |-> <<>>]
  /\ metrics = [d \in DOMAIN tasks |-> {}] /\ moves = 0
  /\ sel = None /\ ses = None /\ view = "others" /\ projects = <<>>
  /\ prompt = 0 /\ typed = 0 /\ result = {} /\ overview = {} /\ detail = {}
  /\ disturbed = FALSE
  /\ made = 1                                    \* boot
  /\ calls = {Call(1, "projects", None, None, <<"overview">>, FALSE)}

-----------------------------------------------------------------------------
(* The page: what the user does                                            *)

Handles(more) ==
  /\ made < MaxHandlers /\ made' = made + 1
  /\ calls' = calls \cup more
  /\ disturbed' = (disturbed \/ Overlaps(calls, more))

\* Mutant: selecting a project leaves the loading to the next refresh.
selectWithoutLoading(id) ==
  /\ id \in {projects[i] : i \in DOMAIN projects}
  /\ sel' = id /\ ses' = None /\ Handles({})
  /\ UNCHANGED <<entries, tables, view, projects, prompt, result, overview, detail, typed>>

SelectProject(id) ==
  /\ id \in {projects[i] : i \in DOMAIN projects}
  /\ sel' = id /\ ses' = None
  /\ Handles({Call(made + 1, "overview", id, None, <<>>, FALSE)})
  /\ UNCHANGED <<entries, tables, view, projects, prompt, result, overview, detail, typed>>

\* The buttons are those of the overview on the screen, whatever project is selected.
SelectSession(s) ==
  /\ \E o \in overview : s \in o.sessions
  /\ ses' = s /\ view' = "sessions" /\ detail' = {}
  /\ Handles({Call(made + 1, "detail", sel, s, <<>>, FALSE)})
  /\ UNCHANGED <<entries, tables, sel, projects, prompt, result, overview, typed>>

setView(v) ==
  /\ v # view /\ view' = v
  /\ UNCHANGED <<entries, tables, sel, ses, projects, prompt, result, overview, detail, typed,
                 calls, made, disturbed>>

Refresh ==
  /\ Handles({Call(made + 1, "projects", None, None, <<"overview", "detail">>, FALSE)})
  /\ UNCHANGED <<entries, tables, screen, typed>>

Type ==
  /\ typed < MaxPrompts /\ typed' = typed + 1 /\ prompt' = typed + 1
  /\ UNCHANGED <<entries, tables, sel, ses, view, projects, result, overview, detail,
                 calls, made, disturbed>>

\* Nothing is sent while no project is selected.
submitEnqueue(thread) ==
  /\ sel # None
  /\ Handles({[Call(made + 1, "tasks", sel, None, <<"overview">>, TRUE)
                 EXCEPT !.thread = thread, !.prompt = prompt]})
  /\ UNCHANGED <<entries, tables, screen, typed>>

-----------------------------------------------------------------------------
(* The server                                                              *)

Progress(c, d) ==
  /\ calls' = (calls \ {c}) \cup {d}
  /\ UNCHANGED <<entries, screen, typed, made, disturbed>>

Answered(c, answer) == [c EXCEPT !.phase = "answered", !.answer = answer, !.rows = <<>>]

ServesProjects(c) ==
  /\ c.kind = "projects" /\ c.phase = "asked"
  /\ Progress(c, Answered(c, {[i \in DOMAIN Registry |-> Registry[i].id]}))
  /\ UNCHANGED tables

\* createProjectOverview reads the rows, waits for OpenCode's health and sessions, of
\* which it does without what fails, and reads the statistics afterwards.
OverviewReads(c) ==
  /\ c.kind = "overview" /\ c.phase = "asked"
  /\ Progress(c, [c EXCEPT !.phase = "reading", !.rows = tasks[getProjectOrThrow(c.project).db]])
  /\ UNCHANGED tables

\* Mutant: the statistics are read with the rows, and the rows once more after the wait.
rowsReadAgain(c) ==
  /\ c.kind = "overview" /\ c.phase = "reading"
  /\ LET project == getProjectOrThrow(c.project)
     IN \E sessions \in {{}, SessionsOf[project.url]} :
          Progress(c, Answered(c, {createProjectOverview(c.project, tasks[project.db],
                                                         c.rows, sessions)}))
  /\ UNCHANGED tables

OverviewAnswers(c) ==
  /\ c.kind = "overview" /\ c.phase = "reading"
  /\ LET project == getProjectOrThrow(c.project)
     IN \E sessions \in {{}, SessionsOf[project.url]} :
          Progress(c, Answered(c, {createProjectOverview(c.project, c.rows,
                                                         tasks[project.db], sessions)}))
  /\ UNCHANGED tables

\* A session OpenCode does not have, or messages it does not give, fail the request;
\* statuses, todos and the diff may be missing.
DetailAnswers(c) ==
  /\ c.kind = "detail" /\ c.phase = "asked"
  /\ LET project == getProjectOrThrow(c.project)
     IN Progress(c, Answered(c, IF c.session \in SessionsOf[project.url]
                                THEN {[project |-> c.project, session |-> c.session]} ELSE {}))
  /\ UNCHANGED tables

RoomForATask == FoldSet(LAMBDA d, n : n + Len(tasks[d]), 0, DOMAIN tasks) < MaxTasks

\* Mutant: the metric is written first, and the task may then fail.
metricFirst(c) ==
  /\ c.kind = "tasks" /\ c.phase = "asked" /\ c.prompt # 0 /\ RoomForATask
  /\ LET db == getProjectOrThrow(c.project).db
     IN metrics' = [metrics EXCEPT ![db] = @ \cup {Len(tasks[db]) + 1}]
  /\ UNCHANGED <<tasks, moves>>
  /\ Progress(c, Answered(c, {}))

\* Mutant: a metric that cannot be written is no error.
metricFailureIgnored(c) ==
  /\ c.kind = "tasks" /\ c.phase = "asked" /\ c.prompt # 0 /\ RoomForATask
  /\ LET db == getProjectOrThrow(c.project).db
         place == Len(tasks[db]) + 1
     IN /\ tasks' = [tasks EXCEPT ![db] = Append(@, [thread |-> safeThreadId(c.thread),
                                                     status |-> "pending"])]
        /\ metrics' \in {metrics, [metrics EXCEPT ![db] = @ \cup {place}]}
        /\ Progress(c, Answered(c, {[db |-> db, place |-> place]}))
  /\ UNCHANGED moves

\* enqueueWebTask: the task in one transaction, its metric in another; a metric that
\* cannot be written makes an error of a task that is there.
EnqueueAnswers(c) ==
  /\ c.kind = "tasks" /\ c.phase = "asked"
  /\ LET db == getProjectOrThrow(c.project).db
         place == Len(tasks[db]) + 1
     IN IF c.prompt = 0
        THEN Progress(c, Answered(c, {})) /\ UNCHANGED tables
        ELSE /\ RoomForATask /\ UNCHANGED moves
             /\ tasks' = [tasks EXCEPT ![db] = Append(@, [thread |-> safeThreadId(c.thread),
                                                          status |-> "pending"])]
             /\ \/ /\ metrics' = [metrics EXCEPT ![db] = @ \cup {place}]
                   /\ Progress(c, Answered(c, {[db |-> db, place |-> place]}))
                \/ UNCHANGED metrics /\ Progress(c, Answered(c, {}))

-----------------------------------------------------------------------------
(* The page: what answers do                                               *)

\* The store, OpenCode, the server, the way to it or the way back fails, at any time, or
\* the answer is an error.  That ends the handler; only the form says so.
ErrorShown(c) ==
  /\ calls' = calls \ {c}
  /\ result' = IF c.form THEN {} ELSE result
  /\ disturbed' = (disturbed \/ c.kind \in {"projects", "overview"} \/ c.then # <<>>)
  /\ UNCHANGED <<entries, tables, sel, ses, view, projects, prompt, overview, detail, typed, made>>

\* The handler goes on with what is selected by now.
GoesOn(c, project, session, where) ==
  LET others == calls \ {c}
      more == Loads(c.n, c.then, project, session, where, c.form)
  IN calls' = others \cup more /\ disturbed' = (disturbed \/ Overlaps(others, more))

ProjectsLoaded(c) ==
  /\ c.kind = "projects" /\ c.phase = "answered" /\ c.answer # {}
  /\ \E list \in c.answer :
       /\ projects' = list
       /\ sel' = IF sel = None /\ list # <<>> THEN list[1] ELSE sel
  /\ GoesOn(c, sel', ses, view)
  /\ UNCHANGED <<entries, tables, ses, view, prompt, result, overview, detail, typed, made>>

\* A load of a detail clears the one on the screen.
OverviewLoaded(c) ==
  /\ c.kind = "overview" /\ c.phase = "answered" /\ c.answer # {}
  /\ overview' = c.answer
  /\ GoesOn(c, sel, ses, view)
  /\ detail' = IF Loads(c.n, c.then, sel, ses, view, c.form) = {} THEN detail ELSE {}
  /\ UNCHANGED <<entries, tables, sel, ses, view, projects, prompt, result, typed, made>>

DetailLoaded(c) ==
  /\ c.kind = "detail" /\ c.phase = "answered" /\ c.answer # {}
  /\ detail' = c.answer
  /\ GoesOn(c, sel, ses, view)
  /\ UNCHANGED <<entries, tables, sel, ses, view, projects, prompt, result, overview, typed, made>>

\* The field is emptied, whatever was typed into it meanwhile.
Enqueued(c) ==
  /\ c.kind = "tasks" /\ c.phase = "answered" /\ c.answer # {}
  /\ result' = c.answer /\ prompt' = 0 /\ view' = "others"
  /\ GoesOn(c, sel, ses, "others")
  /\ UNCHANGED <<entries, tables, sel, ses, projects, overview, detail, typed, made>>

-----------------------------------------------------------------------------
(* X2 and the other sources of tasks, another page among them              *)

TaskArrives(d) ==
  /\ RoomForATask
  /\ \E thread \in {None} \cup {safeThreadId(t) : t \in Threads} :
       tasks' = [tasks EXCEPT ![d] = Append(@, [thread |-> thread, status |-> "pending"])]
  /\ UNCHANGED <<entries, metrics, moves, screen, typed, calls, made, disturbed>>

\* Only a claim looks at the status it replaces.  A run that ends, a retry, the recovery
\* at a start and the failure of what follows a completion write over any other.
TaskMoves(d, i) ==
  /\ i \in DOMAIN tasks[d] /\ moves < MaxMoves /\ moves' = moves + 1
  /\ \E to \in Statuses :
       /\ to = "running" => tasks[d][i].status = "pending"
       /\ tasks' = [tasks EXCEPT ![d][i].status = to]
  /\ UNCHANGED <<entries, metrics, screen, typed, calls, made, disturbed>>

-----------------------------------------------------------------------------
Views == {"sessions", "others"}            \* the overview, queue and channel views are alike here
AllSessions == UNION {SessionsOf[u] : u \in DOMAIN SessionsOf}

Next ==
  \/ \E i \in DOMAIN projects : SelectProject(projects[i])
  \/ \E s \in AllSessions : SelectSession(s)
  \/ \E v \in Views : setView(v)
  \/ Refresh \/ Type
  \/ \E t \in Threads : submitEnqueue(t)
  \/ \E c \in calls : \/ ServesProjects(c) \/ OverviewReads(c) \/ OverviewAnswers(c)
                       \/ DetailAnswers(c) \/ EnqueueAnswers(c)
                       \/ ErrorShown(c) \/ ProjectsLoaded(c) \/ OverviewLoaded(c)
                       \/ DetailLoaded(c) \/ Enqueued(c)
  \/ \E d \in DOMAIN tasks : TaskArrives(d) \/ \E i \in 1 .. MaxTasks : TaskMoves(d, i)

Spec == Init /\ [][Next]_vars

-----------------------------------------------------------------------------
TypeOK ==
  /\ entries \in Registries
  /\ DOMAIN tasks = DOMAIN metrics
  /\ \A d \in DOMAIN tasks :
       /\ \A i \in DOMAIN tasks[d] : tasks[d][i].status \in Statuses
       /\ metrics[d] \subseteq DOMAIN tasks[d]
  /\ sel # None => LET list == Registry IN \E i \in DOMAIN list : list[i].id = sel
  /\ ses \in {None} \cup AllSessions /\ view \in Views
  /\ prompt \in 0 .. typed /\ typed \in 0 .. MaxPrompts /\ made \in 1 .. MaxHandlers
  /\ moves \in 0 .. MaxMoves
  /\ Cardinality(calls) <= made /\ disturbed \in BOOLEAN

\* Once no overview is on its way, the one on the screen is that of the selected project:
\* unless two of them were on their way together or one failed, in which case the page
\* may go on showing a project that is not the selected one.
ScreenFollowsSelection ==
  ~disturbed /\ sel # None /\ {c \in calls : c.kind = "overview"} = {} =>
    \E o \in overview : o.project = sel

Total(counts) == counts["pending"] + counts["running"] + counts["completed"] + counts["failed"]

\* How many tasks of a thread the overview o lists under a status.
Listed(o, thread, status) ==
  Cardinality({i \in DOMAIN o.recent : o.recent[i].thread = thread /\ o.recent[i].status = status})

FitsTogether(o) ==
  /\ \A i \in DOMAIN o.recent :
       /\ i <= Total(o.stats)
       /\ o.recent[i].thread # None =>
            \E t \in o.threads : t.thread = o.recent[i].thread /\ i <= t.latest
  /\ \A t \in o.threads :
       /\ t.tasks <= t.latest /\ t.latest <= Total(o.stats)
       /\ Listed(o, t.thread, "pending") <= t.pending
       /\ Listed(o, t.thread, "running") <= t.running

\* The lists of an overview, both cut, and its statistics, read after the wait for
\* OpenCode while X2 goes on, fit together: every task it lists and every task of its
\* threads is counted in the statistics, every web task it lists has its thread listed
\* too, and a thread counts the open tasks that are listed of it.
OverviewFitsTogether == \A o \in overview : FitsTogether(o)

\* When the form says a task was queued, the task and the record of its enqueueing are
\* both in one state.db.
QueuedIsRecorded ==
  \A r \in result : r.place \in DOMAIN tasks[r.db] /\ r.place \in metrics[r.db]

=============================================================================
