------------------------------- MODULE X2Queue -------------------------------
(***************************************************************************)
(* The X2 task queue: the tasks table of state.db (x2/store.ts), the       *)
(* worker's cycle over it (x2/queue.ts, x2/worker.ts) cut at every await,  *)
(* and where it reads a row and writes it back in two statements, the      *)
(* producers that insert rows (X1, control plane, X3/X4), the event        *)
(* subscription that binds message ids while a cycle waits, and, as far as *)
(* the queue can see it, the OpenCode server behind its HTTP API.          *)
(*                                                                         *)
(* Time is the number of assistant messages that exist: a row's startedAt  *)
(* is the index the next message will get, so "created at or after         *)
(* startedAt" is a comparison of indices.  A retry delay either has or has *)
(* not elapsed.                                                            *)
(***************************************************************************)
EXTENDS Naturals, Sequences

CONSTANTS
  Tasks,        \* row identities, positive numbers in order of created_at
  Workers,      \* worker processes: the daemon, and any --once run beside it
  Sessions,     \* OpenCode sessions, positive numbers in order of creation
  Sources,      \* task sources: records [base, chat]
  NoChat,       \* the chat of a source that names none (cli, web, x4)
  Kinds,        \* task types in play, of "omo", "eq1", "report"
  MaxRetries,   \* --max-retries
  MaxCrashes,   \* bound on process deaths
  EventSubscribe, \* --event-subscribe (the default) or --no-event-subscribe
  StoreMayFail, \* may a write to state.db throw (SQLITE_BUSY, full disk)?
  X4Enqueues    \* does X4 insert rows bound to an interaction's session?

ASSUME QueueAssumption ==
  /\ Tasks \subseteq Nat \ {0}
  /\ Sessions \subseteq Nat \ {0}
  /\ Kinds \subseteq {"omo", "eq1", "report"}
  /\ MaxRetries \in Nat
  /\ MaxCrashes \in Nat
  /\ EventSubscribe \in BOOLEAN
  /\ StoreMayFail \in BOOLEAN
  /\ X4Enqueues \in BOOLEAN

VARIABLES
  row,      \* the tasks table
  pc,       \* where each worker's processCycle is suspended
  job,      \* the task snapshot each worker holds across its awaits
  routing,  \* reports each worker is sending (onTaskProcessed, not awaited)
  log,      \* every assistant message, in order of creation
  run,      \* per session: the message being generated, 0 when idle
  inbox,    \* per session: prompts accepted and not yet begun
  opened,   \* sessions that exist
  home,     \* per session: the chat of the task it was created for
  prompts,  \* per task and attempt: prompts the server accepted
  told,     \* per task: outcomes reported
  crashes   \* process deaths so far

tableVars  == <<row>>
workerVars == <<pc, job>>
serverVars == <<log, run, inbox, opened, home, prompts>>
vars == <<row, pc, job, routing, log, run, inbox, opened, home, prompts,
          told, crashes>>

None == 0       \* SQL NULL in a column that holds a session or a message

NoResult == [msg |-> None, settled |-> FALSE]
NoSource == [base |-> "none", chat |-> NoChat]
NoRow == [status |-> "absent", kind |-> "omo", source |-> NoSource,
          session |-> None, attempts |-> 0, retry |-> "none",
          started |-> None, tracked |-> None, result |-> NoResult]

\* A failure being recorded: the attempts it will count, whether the row loses
\* its session, and where the cycle goes on afterwards, or after an exception.
NoFailure == [attempts |-> 0, reset |-> FALSE, after |-> "idle", thrown |-> "idle"]

NoJob == [task |-> None, attempt |-> 0, session |-> None, started |-> None,
          tracked |-> None, pick |-> NoResult, failure |-> NoFailure, stale |-> {}]

\* Label of a suspended cycle, and the await (or the gap between two
\* synchronous store calls) it stands for:
\*   down      the process is not running      recovering  tasks to recover listed
\*   idle      between two cycles              orphan    a row without session listed
\*   dispatch  about to claim                  claimed   notifyStarted, eq1 run
\*   create    createSession                   route     resolveDispatchRoute
\*   prompt    promptAsync, not yet accepted   prompted  accepted, not returned
\*   status    getSessionStatuses              lookup    getMessage(s)
\*   format    formatResultSummary             log       metric after "completed"
\*   caught    in finalizeRunning's outer catch
\*   failing   in handleFailure, between its getTask and its updateTask
Labels == {"down", "recovering", "idle", "orphan", "dispatch", "claimed",
           "create", "route", "prompt", "prompted", "status", "lookup",
           "format", "log", "caught", "failing"}

X4Source(c) == [base |-> "x4", chat |-> c]

AllSources ==
  Sources \cup {NoSource, X4Source(NoChat)} \cup {X4Source(s.chat) : s \in Sources}

Init ==
  /\ row = [t \in Tasks |-> NoRow]
  /\ pc = [w \in Workers |-> "down"]
  /\ job = [w \in Workers |-> NoJob]
  /\ routing = [w \in Workers |-> {}]
  /\ log = <<>>
  /\ run = [s \in Sessions |-> None]
  /\ inbox = [s \in Sessions |-> <<>>]
  /\ opened = {}
  /\ home = [s \in Sessions |-> NoChat]
  /\ prompts = [t \in Tasks |-> [k \in 0..MaxRetries |-> 0]]
  /\ told = [t \in Tasks |-> <<>>]
  /\ crashes = 0

-----------------------------------------------------------------------------
(* The tasks table. *)

WithStatus(st) == {t \in Tasks : row[t].status = st}

\* ORDER BY created_at ASC LIMIT 1
First(t, S) == t \in S /\ \A u \in S : t <= u

\* Mutant: the query forgets its WHERE source = ?.
WithSessionOfAnySource(t) == {u \in Tasks \ {t} : row[u].session # None}

\* The latest row of t's source, other than t, that still has a session.
WithSessionOfSource(t) ==
  {u \in Tasks \ {t} : /\ row[u].source = row[t].source
                       /\ row[u].session # None}

\* ORDER BY created_at DESC LIMIT 1
HasLast(S) == \E u \in S : \A v \in S : v <= u
Last(S) == CHOOSE u \in S : \A v \in S : v <= u

findLatestSessionIdBySource(t) ==
  LET S == WithSessionOfSource(t)
  IN IF HasLast(S) THEN row[Last(S)].session ELSE None

\* The chat X4 writes into the source of a task it creates for session s:
\* that of the latest row bound to s, if there still is one.
resolvedChat(s) ==
  LET S == {u \in Tasks : row[u].session = s}
  IN IF HasLast(S) THEN row[Last(S)].source.chat ELSE NoChat

Insert(t, kind, source, session) ==
  /\ First(t, WithStatus("absent"))
  /\ row' = [row EXCEPT ![t] = [NoRow EXCEPT !.status = "pending",
                                             !.kind = kind,
                                             !.source = source,
                                             !.session = session]]

createTask(t) ==
  /\ \E kind \in Kinds, source \in Sources : Insert(t, kind, source, None)
  /\ UNCHANGED <<workerVars, serverVars, routing, told, crashes>>

createTaskInSession(t) ==
  /\ X4Enqueues
  /\ \E s \in opened, kind \in Kinds \ {"eq1"} :
        Insert(t, kind, X4Source(resolvedChat(s)), s)
  /\ UNCHANGED <<workerVars, serverVars, routing, told, crashes>>

\* retry_at has passed.
RetryDue(t) ==
  /\ row[t].retry = "waiting"
  /\ row' = [row EXCEPT ![t].retry = "due"]
  /\ UNCHANGED <<workerVars, serverVars, routing, told, crashes>>

\* Mutant: WHERE retry_at IS NULL alone.
ClaimableNeverRetried(t) ==
  First(t, {u \in WithStatus("pending") : row[u].retry = "none"})

\* Rows never retried come first, the oldest of them; among retries that are
\* due the order of their retry_at is left open.
Claimable(t) ==
  LET pending == WithStatus("pending")
      fresh   == {u \in pending : row[u].retry = "none"}
  IN \/ First(t, fresh)
     \/ fresh = {} /\ t \in pending /\ row[t].retry = "due"

-----------------------------------------------------------------------------
(* A worker's cycle. *)

Goto(w, label, j) ==
  /\ pc' = [pc EXCEPT ![w] = label]
  /\ job' = [job EXCEPT ![w] = j]

At(w, label) == pc[w] = label

SnapshotOf(t, r) ==
  [task |-> t, attempt |-> r.attempts, session |-> r.session,
   started |-> r.started, tracked |-> r.tracked, pick |-> NoResult,
   failure |-> NoFailure, stale |-> {}]

Report(w, t, outcome, attempts) ==
  routing' = [routing EXCEPT ![w] =
                @ \cup {[task |-> t, outcome |-> outcome, attempts |-> attempts]}]

\* Attempts are counted on the row as it is now, not on the snapshot.
attemptsAfterFailure(j) == row[j.task].attempts + 1

\* Mutant: one retry too many.
shouldRetryOnceMore(t, attempts) == row[t].kind # "eq1" /\ attempts <= MaxRetries + 1

shouldRetry(t, attempts) == row[t].kind # "eq1" /\ attempts <= MaxRetries

\* Mutant: a retried task is returned to the loop too.
ReturnAnyFailure(w, t, attempts, after) ==
  /\ Goto(w, "idle", NoJob)
  /\ Report(w, t, "failed", attempts)

\* A retry returns null, and the cycle goes on at label `after`; a final
\* failure is returned to the loop, which reports it.
ReturnFailure(w, t, attempts, after) ==
  \/ /\ shouldRetry(t, attempts)
     /\ Goto(w, after, NoJob)
     /\ UNCHANGED routing
  \/ /\ ~shouldRetry(t, attempts)
     /\ Goto(w, "idle", NoJob)
     /\ Report(w, t, "failed", attempts)

\* updateTask(id, {status: "completed", ...}); the metric and the report follow.
MarkCompleted(w, result) ==
  /\ row' = [row EXCEPT ![job[w].task] = [@ EXCEPT !.status = "completed",
                                                   !.retry = "none",
                                                   !.result = result]]
  /\ Goto(w, "log", job[w])
  /\ UNCHANGED <<serverVars, routing, told, crashes>>

Pause(w, label, j) ==
  /\ Goto(w, label, j)
  /\ UNCHANGED <<row, serverVars, routing, told, crashes>>

Failed(j, resetSession, after, thrown) ==
  [j EXCEPT !.failure = [attempts |-> attemptsAfterFailure(j),
                         reset    |-> resetSession,
                         after    |-> after,
                         thrown   |-> thrown]]

\* handleFailure for the snapshot j reads the row, and writes it in a statement
\* of its own: another process may write in between.
handleFailure(w, j, resetSession, after, thrown) ==
  Pause(w, "failing", Failed(j, resetSession, after, thrown))

RowAfterFailure(r, j) ==
  LET retry == shouldRetry(j.task, j.failure.attempts)
  IN [r EXCEPT !.status   = IF retry THEN "pending" ELSE "failed",
               !.attempts = j.failure.attempts,
               !.retry    = IF retry THEN "waiting" ELSE "none",
               !.started  = IF retry THEN None ELSE j.started,
               !.session  = IF j.failure.reset THEN None ELSE j.session]

\* The write.  When the metric row that follows it cannot be written, the
\* exception leaves at label `thrown`.
RecordFailure(w) ==
  LET j == job[w]
  IN /\ At(w, "failing")
     /\ row' = [row EXCEPT ![j.task] = RowAfterFailure(@, j)]
     /\ \/ ReturnFailure(w, j.task, j.failure.attempts, j.failure.after)
        \/ /\ StoreMayFail
           /\ Goto(w, j.failure.thrown, IF j.failure.thrown = "caught" THEN j ELSE NoJob)
           /\ UNCHANGED routing
     /\ UNCHANGED <<serverVars, told, crashes>>

-----------------------------------------------------------------------------
(* finalizeRunning: only the oldest running row is looked at. *)

FinalizeNothing(w) ==
  /\ At(w, "idle") /\ WithStatus("running") = {}
  /\ Pause(w, "dispatch", NoJob)

FinalizeOrphan(w) ==
  /\ At(w, "idle")
  /\ \E t \in Tasks :
       /\ First(t, WithStatus("running")) /\ row[t].session = None
       /\ Pause(w, "orphan", SnapshotOf(t, row[t]))

FinalizePoll(w) ==
  /\ At(w, "idle")
  /\ \E t \in Tasks :
       /\ First(t, WithStatus("running")) /\ row[t].session # None
       /\ Pause(w, "status", SnapshotOf(t, row[t]))

PollFails(w) ==
  /\ At(w, "status")
  /\ handleFailure(w, job[w], FALSE, "dispatch", "idle")

PollBusy(w) ==
  /\ At(w, "status") /\ run[job[w].session] # None
  /\ Pause(w, "dispatch", NoJob)

\* A session missing from the status map counts as idle.
PollIdle(w) ==
  /\ At(w, "status") /\ run[job[w].session] = None
  /\ Pause(w, "lookup", job[w])

\* The assistant messages of the job's session created since startedAt.
Answers(j) ==
  {i \in 1..Len(log) : log[i].session = j.session /\ j.started <= i}

Take(w, i) ==
  Pause(w, "format",
        [job[w] EXCEPT !.pick = [msg |-> i, settled |-> run[job[w].session] # i]])

FindTracked(w) ==
  /\ At(w, "lookup")
  /\ job[w].tracked \in Answers(job[w])
  /\ Take(w, job[w].tracked)

\* No tracked message, or getMessage did not produce it: the latest answer.
FindLatest(w) ==
  /\ At(w, "lookup")
  /\ \E i \in Answers(job[w]) : /\ \A k \in Answers(job[w]) : k <= i
                                /\ Take(w, i)

FindNothing(w) ==
  /\ At(w, "lookup") /\ Answers(job[w]) = {}
  /\ handleFailure(w, job[w], TRUE, "dispatch", "caught")

\* The row has no session, getMessages rejects, an earlier throw is caught, or
\* "completed" cannot be written.
FinalizeFails(w) ==
  /\ \/ At(w, "orphan") \/ At(w, "lookup") \/ At(w, "caught")
     \/ At(w, "format") /\ StoreMayFail
  /\ handleFailure(w, job[w], TRUE, "dispatch", "idle")

FinalizeComplete(w) ==
  /\ At(w, "format")
  /\ MarkCompleted(w, job[w].pick)

-----------------------------------------------------------------------------
(* dispatchNext. *)

\* Mutant: the claimed row is not handed to the cycle.
claimWithoutTask(w) ==
  /\ At(w, "dispatch")
  /\ \E t \in Tasks :
       /\ Claimable(t)
       /\ row' = [row EXCEPT ![t].status = "running", ![t].retry = "none",
                             ![t].started = Len(log) + 1]
  /\ Goto(w, "claimed", NoJob)
  /\ UNCHANGED <<serverVars, routing, told, crashes>>

claimNextPending(w) ==
  /\ At(w, "dispatch")
  /\ \E t \in Tasks :
       /\ Claimable(t)
       /\ LET r == [row[t] EXCEPT !.status = "running", !.retry = "none",
                                  !.started = IF @ = None THEN Len(log) + 1 ELSE @]
          IN /\ row' = [row EXCEPT ![t] = r]
             /\ Goto(w, "claimed", SnapshotOf(t, r))
  /\ UNCHANGED <<serverVars, routing, told, crashes>>

ClaimNothing(w) ==
  /\ At(w, "dispatch") /\ \A t \in Tasks : ~Claimable(t)
  /\ Pause(w, "idle", NoJob)

Holds(w, kind) == At(w, "claimed") /\ row[job[w].task].kind = kind

DispatchReport(w) ==
  /\ Holds(w, "report")
  /\ MarkCompleted(w, NoResult)

DispatchEq1(w) ==
  /\ Holds(w, "eq1")
  /\ \/ MarkCompleted(w, NoResult)
     \/ handleFailure(w, job[w], FALSE, "idle", "idle")

BindSession(w, s) ==
  /\ row' = [row EXCEPT ![job[w].task].session = s]
  /\ Goto(w, "route", [job[w] EXCEPT !.session = s])

\* Mutant: sessions are reused whatever the channel.
reusedSessionIdAnyChannel(w) ==
  IF job[w].session # None THEN job[w].session
  ELSE findLatestSessionIdBySource(job[w].task)

reusedSessionId(w) ==
  LET j == job[w]
  IN IF j.session # None THEN j.session
     ELSE IF row[j.task].source.chat # NoChat
          THEN findLatestSessionIdBySource(j.task)
          ELSE None

ReuseSession(w) ==
  /\ Holds(w, "omo") /\ reusedSessionId(w) # None
  /\ BindSession(w, reusedSessionId(w))
  /\ UNCHANGED <<serverVars, routing, told, crashes>>

AskSession(w) ==
  /\ Holds(w, "omo") /\ reusedSessionId(w) = None
  /\ Pause(w, "create", job[w])

createSession(w) ==
  /\ At(w, "create")
  /\ \E s \in Sessions :
       /\ First(s, Sessions \ opened)
       /\ opened' = opened \cup {s}
       /\ home' = [home EXCEPT ![s] = row[job[w].task].source.chat]
       /\ BindSession(w, s)
  /\ UNCHANGED <<routing, log, run, inbox, prompts, told, crashes>>

\* The agent is chosen and the message ids of an earlier attempt forgotten.
RouteAgent(w) ==
  /\ At(w, "route")
  /\ row' = [row EXCEPT ![job[w].task].tracked = None]
  /\ Goto(w, "prompt", job[w])
  /\ UNCHANGED <<serverVars, routing, told, crashes>>

PromptAccepted(w) ==
  LET j == job[w]
  IN /\ At(w, "prompt")
     /\ inbox' = [inbox EXCEPT ![j.session] = Append(@, j.task)]
     /\ prompts' = [prompts EXCEPT ![j.task][j.attempt] = @ + 1]
     /\ Goto(w, "prompted", j)
     /\ UNCHANGED <<row, routing, log, run, opened, home, told, crashes>>

PromptReturns(w) ==
  /\ At(w, "prompted")
  /\ Pause(w, "idle", NoJob)

\* Mutant: the error is swallowed.
DispatchFailsSilently(w) ==
  /\ At(w, "create") \/ At(w, "prompt") \/ At(w, "prompted")
  /\ Pause(w, "idle", NoJob)

\* createSession or promptAsync rejects (the prompt may have been accepted),
\* or a write between them throws.
DispatchFails(w) ==
  /\ \/ At(w, "create") \/ At(w, "prompt") \/ At(w, "prompted")
     \/ StoreMayFail /\ (At(w, "route") \/ Holds(w, "omo"))
  /\ handleFailure(w, job[w], TRUE, "idle", "idle")

-----------------------------------------------------------------------------
(* End of a cycle. *)

\* The terminal row is returned to onTaskProcessed.
CycleReturns(w) ==
  /\ At(w, "log")
  /\ Report(w, job[w].task, "completed", job[w].attempt)
  /\ Goto(w, "idle", NoJob)
  /\ UNCHANGED <<row, serverVars, told, crashes>>

\* The metric row after "completed" cannot be written.  A report's update is
\* outside any try; the others fall into the catch of their own branch.
MetricFails(w) ==
  /\ StoreMayFail /\ At(w, "log")
  /\ LET kind == row[job[w].task].kind
     IN IF kind = "report" THEN Pause(w, "idle", NoJob)
        ELSE handleFailure(w, job[w], kind = "omo",
                           IF kind = "omo" THEN "dispatch" ELSE "idle", "idle")

\* A write throws and so does the one that would record the failure: the
\* cycle is abandoned with the row as it was.
CycleThrows(w) ==
  /\ StoreMayFail
  /\ pc[w] \notin {"down", "recovering", "idle", "log"}
  /\ Pause(w, "idle", NoJob)

\* Other callbacks of the process have their turn while it is not inside one of
\* its synchronous functions.
Yields(w) == pc[w] \notin {"down", "recovering", "failing"}

\* router.route, running beside the next cycles.
Deliver(w) ==
  /\ Yields(w)
  /\ \E r \in routing[w] :
       /\ routing' = [routing EXCEPT ![w] = @ \ {r}]
       /\ told' = [told EXCEPT ![r.task] = Append(@, r.outcome)]
  /\ UNCHANGED <<tableVars, workerVars, serverVars, crashes>>

\* message.updated for an assistant message: bound to the first running row
\* of its session that started before it.
bindEventMessageToRunningTask(w) ==
  /\ EventSubscribe /\ Yields(w)
  /\ \E i \in 1..Len(log), t \in Tasks :
       /\ First(t, {u \in WithStatus("running") :
                      row[u].session = log[i].session /\ row[u].started <= i})
       /\ row' = [row EXCEPT ![t].tracked = i]
  /\ UNCHANGED <<workerVars, serverVars, routing, told, crashes>>

Crash(w) ==
  /\ ~At(w, "down") /\ crashes < MaxCrashes
  /\ crashes' = crashes + 1
  /\ Goto(w, "down", NoJob)
  /\ routing' = [routing EXCEPT ![w] = {}]
  /\ UNCHANGED <<tableVars, serverVars, told>>

\* main(): recoverRunningTasks("failed") lists the running rows, whoever runs
\* those tasks ...
Boot(w) ==
  /\ At(w, "down")
  /\ Pause(w, "recovering", [NoJob EXCEPT !.stale = WithStatus("running")])

\* Mutant: interrupted tasks go back into the queue, uncounted.
recoverToPending(w) ==
  /\ At(w, "recovering")
  /\ \E t \in job[w].stale :
       /\ row' = [row EXCEPT ![t] = [@ EXCEPT !.status = "pending", !.retry = "none"]]
       /\ Goto(w, "recovering", [job[w] EXCEPT !.stale = @ \ {t}])
  /\ UNCHANGED <<serverVars, routing, told, crashes>>

\* ... and updates them one by one, whatever has become of them since the list.
recoverRunningTasks(w) ==
  /\ At(w, "recovering")
  /\ \E t \in job[w].stale :
       /\ row' = [row EXCEPT ![t] = [@ EXCEPT !.status = "failed", !.retry = "none"]]
       /\ Goto(w, "recovering", [job[w] EXCEPT !.stale = @ \ {t}])
  /\ UNCHANGED <<serverVars, routing, told, crashes>>

Recovered(w) ==
  /\ At(w, "recovering") /\ job[w].stale = {}
  /\ Pause(w, "idle", NoJob)

-----------------------------------------------------------------------------
(* The OpenCode server, as the queue sees it. *)

\* The next prompt that produces a message; those before it ended without one
\* (provider error, abort).
Serve(s) ==
  \E n \in 1..Len(inbox[s]) :
    /\ log' = Append(log, [session |-> s, task |-> inbox[s][n]])
    /\ run' = [run EXCEPT ![s] = Len(log) + 1]
    /\ inbox' = [inbox EXCEPT ![s] = SubSeq(@, n + 1, Len(@))]

ServerBegins(s) ==
  /\ run[s] = None
  /\ Serve(s)
  /\ UNCHANGED <<row, workerVars, routing, opened, home, prompts, told, crashes>>

\* The answer is finished; a prompt queued meanwhile keeps the session busy.
ServerFinishes(s) ==
  /\ run[s] # None
  /\ \/ Serve(s)
     \/ run' = [run EXCEPT ![s] = None] /\ UNCHANGED <<log, inbox>>
  /\ UNCHANGED <<row, workerVars, routing, opened, home, prompts, told, crashes>>

-----------------------------------------------------------------------------
Finalize(w) ==
  \/ FinalizeNothing(w) \/ FinalizeOrphan(w) \/ FinalizePoll(w)
  \/ PollFails(w) \/ PollBusy(w) \/ PollIdle(w)
  \/ FindTracked(w) \/ FindLatest(w) \/ FindNothing(w)
  \/ FinalizeFails(w) \/ FinalizeComplete(w)

Dispatch(w) ==
  \/ claimNextPending(w) \/ ClaimNothing(w)
  \/ DispatchReport(w) \/ DispatchEq1(w)
  \/ ReuseSession(w) \/ AskSession(w) \/ createSession(w) \/ RouteAgent(w)
  \/ PromptAccepted(w) \/ PromptReturns(w) \/ DispatchFails(w)

processCycle(w) ==
  \/ Finalize(w) \/ Dispatch(w) \/ RecordFailure(w)
  \/ CycleReturns(w) \/ MetricFails(w) \/ CycleThrows(w)

Start(w) == Boot(w) \/ recoverRunningTasks(w) \/ Recovered(w)

Next ==
  \/ \E t \in Tasks : createTask(t) \/ createTaskInSession(t) \/ RetryDue(t)
  \/ \E w \in Workers : \/ processCycle(w) \/ Deliver(w) \/ Crash(w) \/ Start(w)
                        \/ bindEventMessageToRunningTask(w)
  \/ \E s \in Sessions : ServerBegins(s) \/ ServerFinishes(s)

Spec == Init /\ [][Next]_vars

\* setInterval keeps the cycles coming and every HTTP call settles; the
\* container's restart policy brings a worker back; delays elapse; and the
\* agent server eventually finishes what it runs.  Nothing makes it begin.
FairSpec ==
  /\ Spec
  /\ \A t \in Tasks : WF_vars(RetryDue(t))
  /\ \A w \in Workers : /\ WF_vars(processCycle(w))
                        /\ WF_vars(Deliver(w))
                        /\ WF_vars(Start(w))
  /\ \A s \in Sessions : WF_vars(ServerFinishes(s))

-----------------------------------------------------------------------------
(* Properties. *)

Terminal == {"completed", "failed"}

Results == [msg : Nat, settled : BOOLEAN]

Rows == [status   : {"absent", "pending", "running"} \cup Terminal,
         kind     : {"omo", "eq1", "report"},
         source   : AllSources,
         session  : Sessions \cup {None},
         attempts : Nat,
         retry    : {"none", "waiting", "due"},
         started  : Nat,
         tracked  : Nat,
         result   : Results]

Failures == [attempts : Nat,
             reset    : BOOLEAN,
             after    : {"idle", "dispatch"},
             thrown   : {"idle", "caught"}]

Jobs == [task    : Tasks \cup {None},
         attempt : Nat,
         session : Sessions \cup {None},
         started : Nat,
         tracked : Nat,
         pick    : Results,
         failure : Failures,
         stale   : SUBSET Tasks]

TableOK == row \in [Tasks -> Rows]

\* A suspended cycle always knows the task it works on.
Unassigned == {"down", "recovering", "idle", "dispatch"}

WorkersOK ==
  /\ pc \in [Workers -> Labels]
  /\ job \in [Workers -> Jobs]
  /\ \A w \in Workers : pc[w] \notin Unassigned => job[w].task \in Tasks

ReportsOK ==
  /\ routing \in [Workers -> SUBSET [task : Tasks, outcome : Terminal, attempts : Nat]]
  /\ told \in [Tasks -> Seq(Terminal)]

ServerOK ==
  /\ log \in Seq([session : Sessions, task : Tasks])
  /\ run \in [Sessions -> Nat]
  /\ inbox \in [Sessions -> Seq(Tasks)]
  /\ opened \in SUBSET Sessions
  /\ home \in [Sessions -> {s.chat : s \in AllSources}]
  /\ prompts \in [Tasks -> [0..MaxRetries -> Nat]]

\* The type invariant: every column, snapshot, report and server record keeps
\* its type, and deaths stay within their bound.
TypeOK ==
  /\ TableOK
  /\ WorkersOK
  /\ ReportsOK
  /\ ServerOK
  /\ crashes \in 0..MaxCrashes

\* The retry budget: whatever fails, throws or is interrupted in the one worker
\* a table should have, the agent server never accepts two prompts for one
\* attempt of a task, so a task is prompted at most MaxRetries + 1 times
\* (claimNextPending, handleFailure).
EachAttemptPromptedOnce ==
  \A t \in Tasks : \A k \in 0..MaxRetries : prompts[t][k] <= 1

\* A state.db with one worker, as the container runs it.
OneWorker == \E w \in Workers : Workers = {w}

\* Why the budget holds.  A dispatching worker holds an attempt it alone may
\* prompt for; no row has been prompted beyond the attempts counted on it; the
\* attempt a waiting row would start next is neither prompted nor held; and the
\* failure a worker is about to write counts one attempt more than the row.
Dispatching == {"claimed", "create", "route", "prompt"}

Holding(w, t) == pc[w] \in Dispatching /\ job[w].task = t

NotYetClaimed(t) == row[t].status \in {"absent", "pending"}

HeldOnce ==
  \A w \in Workers, t \in Tasks : Holding(w, t) =>
    /\ job[w].attempt \in 0..MaxRetries
    /\ job[w].attempt <= row[t].attempts
    /\ prompts[t][job[w].attempt] = 0
    /\ \A v \in Workers : Holding(v, t) /\ job[v].attempt = job[w].attempt => v = w

PromptsCounted ==
  \A t \in Tasks : \A k \in 0..MaxRetries :
    k > row[t].attempts => prompts[t][k] = 0

NextAttemptFree ==
  \A t \in Tasks : NotYetClaimed(t) =>
    /\ row[t].attempts \in 0..MaxRetries
    /\ prompts[t][row[t].attempts] = 0
    /\ \A w \in Workers : Holding(w, t) => job[w].attempt # row[t].attempts

AbsentUncounted ==
  \A t \in Tasks : row[t].status = "absent" => row[t].attempts = 0

FailureCounted ==
  \A w \in Workers : At(w, "failing") =>
    job[w].failure.attempts = row[job[w].task].attempts + 1

BudgetInv ==
  /\ EachAttemptPromptedOnce
  /\ HeldOnce
  /\ PromptsCounted
  /\ NextAttemptFree
  /\ AbsentUncounted
  /\ FailureCounted

\* A Telegram chat is only ever given what was written in a session that was
\* opened for that chat, although sessions are reused by source, inherited
\* from interactions and reset on failure.
ChatIsolation ==
  \A t \in Tasks :
    LET c == row[t].source.chat
        i == row[t].result.msg
    IN c # NoChat /\ i # None => home[log[i].session] = c

\* A task of a channel without a chat never shares a session, so what it
\* completes with was written in answer to its own prompt.
AnswersOwnPrompt ==
  \A t \in Tasks :
    LET i == row[t].result.msg
    IN row[t].source.chat = NoChat /\ i # None => log[i].task = t

\* What the channel was told about a task is its status, was said once, and
\* stays true: no task is taken up again after its outcome was reported.
ReportsAreFinal ==
  \A t \in Tasks : told[t] # <<>> => told[t] = <<row[t].status>>

\* No running row is left behind while the workers are up, whatever died
\* before and however many processes share the table: either a worker works on
\* it or has listed it for recovery, or it has a session whose server accepted a
\* prompt of the attempt counted on it, so polling that session decides it.
RunningIsOwned ==
  \A t \in WithStatus("running") :
    \/ \E w \in Workers : At(w, "down") \/ t \in job[w].stale \/ job[w].task = t
    \/ row[t].session # None /\ prompts[t][row[t].attempts] > 0

\* The queue implements the lifecycle of TaskLifecycle: statuses move along
\* its graph, attempts are bounded, terminal rows stay as they are.
Lifecycle ==
  INSTANCE TaskLifecycle WITH
    status   <- [t \in Tasks |-> row[t].status],
    attempts <- [t \in Tasks |-> row[t].attempts]

LifecycleSpec == Lifecycle!Spec

\* Every task that was created comes to an end, if the agent server finishes
\* what it runs, whatever is retried, interrupted or lost on the way; and its
\* outcome is reported, unless a worker died.
EveryTaskEnds ==
  \A t \in Tasks :
    row[t].status = "pending"
      ~> row[t].status \in Terminal /\ (told[t] # <<>> \/ crashes > 0)

-----------------------------------------------------------------------------
(* Statements of the repository that the code does not keep. *)

\* docs/SCHEMA.md:296: the tasks of one channel are run one after the other.
PerChatSequential ==
  \A t, u \in WithStatus("running") :
    t # u => row[t].source.chat = NoChat \/ row[t].source.chat # row[u].source.chat

\* x2/queue.ts:669: completion is decided by polling until the session is
\* idle; so the answer taken is not one still being written.
AnswerIsSettled ==
  \A t \in Tasks : row[t].result.msg # None => row[t].result.settled

\* x2/queue.ts:670: recovery at worker start is for stale tasks, so not for a
\* task that a live worker is dispatching.
RecoversOnlyStale ==
  [][\A w \in Workers, t \in Tasks :
       /\ At(w, "recovering") /\ row[t].status = "running"
       /\ \E v \in Workers : job[v].task = t
       => row'[t].status = "running"]_vars

=============================================================================
