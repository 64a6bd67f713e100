---------------------------- MODULE X2QueueProofs ----------------------------
(***************************************************************************)
(* Proofs about the task queue, for every set of tasks, sessions and       *)
(* sources, every retry limit, and all failures the model knows: the types *)
(* for any set of workers, the retry budget for a single one.              *)
(***************************************************************************)
EXTENDS X2Queue, TLAPS

-----------------------------------------------------------------------------
(* Type correctness. *)

LEMMA Nulls ==
  /\ None \notin Tasks /\ None \notin Sessions
  /\ NoResult \in Results /\ NoRow \in Rows /\ NoJob \in Jobs
  /\ NoJob.task = None
  /\ \A S \in SUBSET Tasks : [NoJob EXCEPT !.stale = S] \in Jobs
<1>1. NoFailure \in Failures
  BY DEF NoFailure, Failures
<1>. QED
  BY <1>1, QueueAssumption
  DEF None, NoResult, NoRow, NoJob, Results, Rows, Jobs, AllSources

\* A cycle that moves to a label with a proper job keeps the workers' types.
LEMMA GotoType ==
  ASSUME WorkersOK, NEW w \in Workers, NEW label \in Labels, NEW j \in Jobs,
         label \notin Unassigned => j.task \in Tasks,
         Goto(w, label, j)
  PROVE  WorkersOK'
BY DEF WorkersOK, Goto

LEMMA SnapshotType ==
  ASSUME NEW t \in Tasks, NEW r \in Rows
  PROVE  SnapshotOf(t, r) \in Jobs /\ SnapshotOf(t, r).task = t
<1>1. NoFailure \in Failures
  BY DEF NoFailure, Failures
<1>. QED
  BY <1>1, Nulls DEF SnapshotOf, Rows, Jobs

LEMMA ReportType ==
  ASSUME ReportsOK, NEW w \in Workers, NEW t \in Tasks, NEW outcome \in Terminal,
         NEW n \in Nat, Report(w, t, outcome, n), UNCHANGED told
  PROVE  ReportsOK'
BY DEF ReportsOK, Report

LEMMA PauseType ==
  ASSUME TypeOK, NEW w \in Workers, NEW label \in Labels, NEW j \in Jobs,
         label \notin Unassigned => j.task \in Tasks,
         Pause(w, label, j)
  PROVE  TypeOK'
<1>1. WorkersOK'
  BY GotoType DEF TypeOK, Pause
<1>. QED
  BY <1>1 DEF TypeOK, Pause, TableOK, ReportsOK, ServerOK, serverVars

Statuses == {"absent", "pending", "running"} \cup Terminal

LEMMA FailedRow ==
  ASSUME NEW r \in Rows, NEW j \in Jobs
  PROVE  RowAfterFailure(r, j) \in Rows
<1>. DEFINE retry == shouldRetry(j.task, j.failure.attempts)
            st == IF retry THEN "pending" ELSE "failed"
            due == IF retry THEN "waiting" ELSE "none"
            started == IF retry THEN None ELSE j.started
            s == IF j.failure.reset THEN None ELSE j.session
            n == j.failure.attempts
<1>1. /\ st \in {"absent", "pending", "running"} \cup Terminal
      /\ due \in {"none", "waiting", "due"} /\ started \in Nat
      /\ s \in Sessions \cup {None} /\ n \in Nat
  BY DEF Terminal, Jobs, Failures, None
<1>2. RowAfterFailure(r, j) = [r EXCEPT !.status = st, !.attempts = n, !.retry = due,
                                        !.started = started, !.session = s]
  BY DEF RowAfterFailure
<1>. HIDE DEF st, due, started, s, n, retry
<1>. QED
  BY <1>1, <1>2 DEF Rows

LEMMA RowTracking ==
  ASSUME NEW r \in Rows, NEW i \in Nat
  PROVE  [r EXCEPT !.tracked = i] \in Rows
BY DEF Rows

LEMMA RowAfterCompletion ==
  ASSUME NEW r \in Rows, NEW st \in Statuses, NEW due \in {"none", "waiting", "due"},
         NEW result \in Results
  PROVE  [r EXCEPT !.status = st, !.retry = due, !.result = result] \in Rows
BY DEF Rows, Statuses

\* What a failure reads goes into the job it will be recorded from.
LEMMA FailedJob ==
  ASSUME TypeOK, NEW j \in Jobs, j.task \in Tasks, NEW reset \in BOOLEAN,
         NEW after \in {"idle", "dispatch"}, NEW thrown \in {"idle", "caught"}
  PROVE  LET k == Failed(j, reset, after, thrown)
         IN /\ k \in Jobs
            /\ k.task = j.task /\ k.attempt = j.attempt /\ k.session = j.session
            /\ k.pick = j.pick /\ k.stale = j.stale
            /\ k.failure.attempts = row[j.task].attempts + 1
<1>. DEFINE f == [attempts |-> attemptsAfterFailure(j), reset |-> reset,
                  after |-> after, thrown |-> thrown]
<1>1. attemptsAfterFailure(j) = row[j.task].attempts + 1 /\ row[j.task].attempts \in Nat
  BY DEF TypeOK, TableOK, Rows, attemptsAfterFailure
<1>2. f \in Failures /\ f.attempts = row[j.task].attempts + 1
  BY <1>1 DEF Failures
<1>3. Failed(j, reset, after, thrown) = [j EXCEPT !.failure = f]
  BY DEF Failed
<1>. HIDE DEF f
<1>. QED
  BY <1>2, <1>3 DEF Jobs

LEMMA FailureType ==
  ASSUME TypeOK, NEW w \in Workers, NEW j \in Jobs, j.task \in Tasks,
         NEW reset \in BOOLEAN, NEW after \in {"idle", "dispatch"},
         NEW thrown \in {"idle", "caught"},
         handleFailure(w, j, reset, after, thrown)
  PROVE  TypeOK'
BY FailedJob, PauseType DEF handleFailure, Labels

\* A worker that records a failure has the task, and goes on where handleFailure was
\* called, or where its exception is caught.
LEMMA RecordGoes ==
  ASSUME TypeOK, NEW w \in Workers, RecordFailure(w)
  PROVE  /\ job[w] \in Jobs /\ job[w].task \in Tasks /\ job[w].failure \in Failures
         /\ row' = [row EXCEPT ![job[w].task] = RowAfterFailure(@, job[w])]
         /\ UNCHANGED <<serverVars, told, crashes>>
         /\ \E label \in {"idle", "dispatch", "caught"}, k \in {NoJob, job[w]} :
              /\ Goto(w, label, k)
              /\ label = "caught" => k = job[w] /\ StoreMayFail
              /\ label # "caught" => k = NoJob
         /\ \/ UNCHANGED routing
            \/ /\ ~shouldRetry(job[w].task, job[w].failure.attempts)
               /\ Goto(w, "idle", NoJob)
               /\ Report(w, job[w].task, "failed", job[w].failure.attempts)
<1>1. /\ job[w] \in Jobs /\ job[w].task \in Tasks /\ job[w].failure \in Failures
  BY DEF TypeOK, WorkersOK, RecordFailure, At, Unassigned, Jobs
<1>2. job[w].failure.after \in {"idle", "dispatch"} /\ job[w].failure.thrown \in {"idle", "caught"}
  BY <1>1 DEF Failures
<1>. QED
  BY <1>1, <1>2 DEF RecordFailure, ReturnFailure

LEMMA RecordType ==
  ASSUME TypeOK, NEW w \in Workers, RecordFailure(w)
  PROVE  TypeOK'
<1>. /\ job[w] \in Jobs /\ job[w].task \in Tasks /\ job[w].failure.attempts \in Nat
     /\ UNCHANGED <<serverVars, told, crashes>>
  BY RecordGoes DEF Failures
<1>1. TableOK'
  BY FailedRow, RecordGoes DEF TypeOK, TableOK
<1>2. WorkersOK'
  <2>1. PICK label \in {"idle", "dispatch", "caught"}, k \in {NoJob, job[w]} :
           Goto(w, label, k) /\ (label = "caught" => k = job[w])
    BY RecordGoes
  <2>2. label \in Labels /\ k \in Jobs /\ (label \notin Unassigned => k.task \in Tasks)
    BY <2>1, Nulls DEF Labels, Unassigned
  <2>. QED
    BY <2>1, <2>2, GotoType DEF TypeOK
<1>3. ReportsOK'
  <2>1. CASE UNCHANGED routing
    BY <2>1 DEF TypeOK, ReportsOK
  <2>2. CASE Report(w, job[w].task, "failed", job[w].failure.attempts)
    BY <2>2, ReportType DEF TypeOK, Terminal
  <2>. QED
    BY <2>1, <2>2, RecordGoes
<1>. QED
  BY <1>1, <1>2, <1>3 DEF TypeOK, ServerOK, serverVars

LEMMA CompletedType ==
  ASSUME TypeOK, NEW w \in Workers, job[w].task \in Tasks, NEW r \in Results,
         MarkCompleted(w, r)
  PROVE  TypeOK'
<1>1. TableOK'
  <2>1. [row[job[w].task] EXCEPT !.status = "completed", !.retry = "none",
                                 !.result = r] \in Rows
    BY RowAfterCompletion DEF TypeOK, TableOK, Statuses, Terminal
  <2>. QED
    BY <2>1 DEF TypeOK, TableOK, MarkCompleted
<1>2. WorkersOK'
  BY GotoType DEF TypeOK, WorkersOK, MarkCompleted, Labels
<1>. QED
  BY <1>1, <1>2 DEF TypeOK, MarkCompleted, ReportsOK, ServerOK, serverVars

\* An action that only rewrites one row, and touches neither workers, reports,
\* server nor crash count, is type-correct if the new row is.
LEMMA RowOnlyType ==
  ASSUME TypeOK, NEW t \in Tasks, NEW r \in Rows,
         row' = [row EXCEPT ![t] = r],
         UNCHANGED <<workerVars, serverVars, routing, told, crashes>>
  PROVE  TypeOK'
BY DEF TypeOK, TableOK, WorkersOK, ReportsOK, ServerOK, workerVars, serverVars

\* The chat X4 finds for a session gives a source of the table's type.
LEMMA X4SourceType ==
  ASSUME TypeOK, NEW s \in Sessions
  PROVE  X4Source(resolvedChat(s)) \in AllSources
<1>. DEFINE S == {u \in Tasks : row[u].session = s}
<1>1. CASE HasLast(S)
  <2>1. Last(S) \in S
    BY <1>1 DEF HasLast, Last
  <2>. DEFINE src == row[Last(S)].source
  <2>2. src \in AllSources /\ resolvedChat(s) = src.chat
    BY <2>1, <1>1 DEF TypeOK, TableOK, Rows, resolvedChat
  <2>. HIDE DEF src
  <2>3. CASE src \in Sources
    BY <2>2, <2>3 DEF AllSources
  <2>4. CASE src \notin Sources
    <3>. PICK c : /\ src.chat = c /\ X4Source(c) \in AllSources
      BY <2>2, <2>4 DEF AllSources, X4Source, NoSource
    <3>. QED
      BY <2>2
  <2>. QED
    BY <2>3, <2>4
<1>2. CASE ~HasLast(S)
  BY <1>2 DEF resolvedChat, AllSources
<1>. QED
  BY <1>1, <1>2

LEMMA InsertedRow ==
  ASSUME NEW kind \in {"omo", "eq1", "report"}, NEW source \in AllSources,
         NEW session \in Sessions \cup {None}
  PROVE  [NoRow EXCEPT !.status = "pending", !.kind = kind, !.source = source,
                       !.session = session] \in Rows
BY Nulls DEF Rows

LEMMA ProducersType ==
  ASSUME TypeOK, NEW t \in Tasks,
         createTask(t) \/ createTaskInSession(t) \/ RetryDue(t)
  PROVE  TypeOK'
<1>1. CASE createTask(t)
  <2>. PICK kind \in Kinds, source \in Sources : Insert(t, kind, source, None)
    BY <1>1 DEF createTask
  <2>. QED
    BY <1>1, InsertedRow, RowOnlyType, QueueAssumption
    DEF createTask, Insert, AllSources
<1>2. CASE createTaskInSession(t)
  <2>. PICK s \in opened, kind \in Kinds \ {"eq1"} :
         Insert(t, kind, X4Source(resolvedChat(s)), s)
    BY <1>2 DEF createTaskInSession
  <2>1. s \in Sessions
    BY DEF TypeOK, ServerOK
  <2>. QED
    BY <1>2, <2>1, X4SourceType, InsertedRow, RowOnlyType, QueueAssumption
    DEF createTaskInSession, Insert
<1>3. CASE RetryDue(t)
  <2>1. [row[t] EXCEPT !.retry = "due"] \in Rows
    BY DEF TypeOK, TableOK, Rows
  <2>. QED
    BY <1>3, <2>1, RowOnlyType DEF RetryDue
<1>. QED
  BY <1>1, <1>2, <1>3

LEMMA JobType ==
  ASSUME TypeOK, NEW w \in Workers
  PROVE  /\ job[w] \in Jobs /\ pc[w] \in Labels
         /\ pc[w] \notin Unassigned => job[w].task \in Tasks
BY DEF TypeOK, WorkersOK

LEMMA TakeType ==
  ASSUME TypeOK, NEW w \in Workers, At(w, "lookup"), NEW i \in Nat, Take(w, i)
  PROVE  TypeOK'
<1>. DEFINE r == [msg |-> i, settled |-> run[job[w].session] # i]
            j == [job[w] EXCEPT !.pick = r]
<1>1. r \in Results
  BY DEF Results
<1>2. j \in Jobs /\ j.task \in Tasks
  <2>. HIDE DEF r
  <2>. QED
    BY <1>1, JobType DEF Jobs, At, Unassigned
<1>. HIDE DEF j
<1>3. Pause(w, "format", j)
  BY DEF Take, j
<1>. QED
  BY <1>2, <1>3, PauseType DEF Labels

LEMMA FinalizeType ==
  ASSUME TypeOK, NEW w \in Workers, Finalize(w)
  PROVE  TypeOK'
<1>. job[w] \in Jobs /\ (pc[w] \notin Unassigned => job[w].task \in Tasks)
  BY JobType
<1>1. CASE FinalizeNothing(w)
  BY <1>1, PauseType, Nulls DEF FinalizeNothing, Labels, Unassigned
<1>2. CASE FinalizeOrphan(w)
  BY <1>2, PauseType, SnapshotType DEF FinalizeOrphan, TypeOK, TableOK, Labels
<1>3. CASE FinalizePoll(w)
  BY <1>3, PauseType, SnapshotType DEF FinalizePoll, TypeOK, TableOK, Labels
<1>4. CASE PollFails(w)
  BY <1>4, FailureType DEF PollFails, At, Unassigned
<1>5. CASE PollBusy(w)
  BY <1>5, PauseType, Nulls DEF PollBusy, Labels, Unassigned
<1>6. CASE PollIdle(w)
  BY <1>6, PauseType DEF PollIdle, At, Labels, Unassigned
<1>7. CASE FindTracked(w)
  BY <1>7, TakeType DEF FindTracked, Answers
<1>8. CASE FindLatest(w)
  BY <1>8, TakeType DEF FindLatest, Answers
<1>9. CASE FindNothing(w)
  BY <1>9, FailureType DEF FindNothing, At, Unassigned
<1>10. CASE FinalizeFails(w)
  BY <1>10, FailureType DEF FinalizeFails, At, Unassigned
<1>11. CASE FinalizeComplete(w)
  BY <1>11, CompletedType DEF FinalizeComplete, At, Unassigned, Jobs
<1>. QED
  BY <1>1, <1>2, <1>3, <1>4, <1>5, <1>6, <1>7, <1>8, <1>9, <1>10, <1>11 DEF Finalize

\* The claimed row, and a row whose session is set.
LEMMA ClaimedRow ==
  ASSUME NEW r \in Rows, NEW n \in Nat
  PROVE  [r EXCEPT !.status = "running", !.retry = "none",
                   !.started = IF @ = None THEN n ELSE @] \in Rows
BY DEF Rows

LEMMA ClaimType ==
  ASSUME TypeOK, NEW w \in Workers, claimNextPending(w)
  PROVE  TypeOK'
<1>. DEFINE claimed(t) == [row[t] EXCEPT !.status = "running", !.retry = "none",
                             !.started = IF @ = None THEN Len(log) + 1 ELSE @]
<1>. PICK t \in Tasks : /\ row' = [row EXCEPT ![t] = claimed(t)]
                        /\ Goto(w, "claimed", SnapshotOf(t, claimed(t)))
  BY DEF claimNextPending
<1>1. claimed(t) \in Rows
  <2>. row[t] \in Rows /\ Len(log) + 1 \in Nat
    BY DEF TypeOK, TableOK, ServerOK
  <2>. QED
    BY ClaimedRow
<1>. HIDE DEF claimed
<1>2. WorkersOK'
  BY <1>1, SnapshotType, GotoType DEF TypeOK, Labels
<1>. QED
  BY <1>1, <1>2 DEF claimNextPending, TypeOK, TableOK, ReportsOK, ServerOK, serverVars

LEMMA BindType ==
  ASSUME TypeOK, NEW w \in Workers, job[w].task \in Tasks, NEW s \in Sessions,
         BindSession(w, s)
  PROVE  TableOK' /\ WorkersOK'
<1>1. TableOK'
  BY DEF TypeOK, TableOK, BindSession, Rows
<1>2. [job[w] EXCEPT !.session = s] \in Jobs /\ [job[w] EXCEPT !.session = s].task = job[w].task
  BY JobType DEF Jobs
<1>3. WorkersOK'
  BY <1>2, GotoType DEF BindSession, TypeOK, Labels
<1>. QED
  BY <1>1, <1>3

\* The session found for reuse is one that some row, or the job, holds.
LEMMA ReusedType ==
  ASSUME TypeOK, NEW w \in Workers, job[w].task \in Tasks
  PROVE  reusedSessionId(w) \in Sessions \cup {None}
<1>1. findLatestSessionIdBySource(job[w].task) \in Sessions \cup {None}
  <2>. DEFINE S == WithSessionOfSource(job[w].task)
  <2>1. CASE HasLast(S)
    <3>. Last(S) \in S
      BY <2>1 DEF HasLast, Last
    <3>. QED
      BY <2>1 DEF WithSessionOfSource, findLatestSessionIdBySource, TypeOK, TableOK, Rows
  <2>. QED
    BY <2>1 DEF findLatestSessionIdBySource
<1>. QED
  BY <1>1, JobType DEF reusedSessionId, Jobs

LEMMA DispatchType ==
  ASSUME TypeOK, NEW w \in Workers, Dispatch(w)
  PROVE  TypeOK'
<1>. job[w] \in Jobs /\ (pc[w] \notin Unassigned => job[w].task \in Tasks)
  BY JobType
<1>1. CASE claimNextPending(w)
  BY <1>1, ClaimType
<1>2. CASE ClaimNothing(w)
  BY <1>2, PauseType, Nulls DEF ClaimNothing, Labels, Unassigned
<1>3. CASE DispatchReport(w)
  BY <1>3, CompletedType, Nulls DEF DispatchReport, Holds, At, Unassigned
<1>4. CASE DispatchEq1(w)
  BY <1>4, CompletedType, FailureType, Nulls DEF DispatchEq1, Holds, At, Unassigned
<1>5. CASE ReuseSession(w)
  <2>1. job[w].task \in Tasks /\ reusedSessionId(w) \in Sessions
    BY <1>5, ReusedType DEF ReuseSession, Holds, At, Unassigned
  <2>2. TableOK' /\ WorkersOK'
    BY <1>5, <2>1, BindType DEF ReuseSession
  <2>. QED
    BY <1>5, <2>2 DEF ReuseSession, TypeOK, ReportsOK, ServerOK, serverVars
<1>6. CASE AskSession(w)
  BY <1>6, PauseType DEF AskSession, Holds, At, Labels, Unassigned
<1>7. CASE createSession(w)
  <2>. PICK s \in Sessions : /\ opened' = opened \cup {s}
                             /\ home' = [home EXCEPT ![s] = row[job[w].task].source.chat]
                             /\ BindSession(w, s)
    BY <1>7 DEF createSession
  <2>1. job[w].task \in Tasks
    BY <1>7 DEF createSession, At, Unassigned
  <2>2. TableOK' /\ WorkersOK'
    BY <2>1, BindType
  <2>3. row[job[w].task].source \in AllSources
    BY <2>1 DEF TypeOK, TableOK, Rows
  <2>4. ServerOK'
    BY <1>7, <2>3 DEF createSession, TypeOK, ServerOK
  <2>. QED
    BY <1>7, <2>2, <2>4 DEF createSession, TypeOK, ReportsOK
<1>8. CASE RouteAgent(w)
  <2>1. TableOK'
    <3>. row[job[w].task] \in Rows /\ None \in Nat
      BY <1>8 DEF RouteAgent, At, Unassigned, TypeOK, TableOK, None
    <3>. [row[job[w].task] EXCEPT !.tracked = None] \in Rows
      BY RowTracking
    <3>. QED
      BY <1>8 DEF RouteAgent, TypeOK, TableOK
  <2>2. WorkersOK'
    BY <1>8, GotoType DEF RouteAgent, At, TypeOK, Labels, Unassigned
  <2>. QED
    BY <1>8, <2>1, <2>2 DEF RouteAgent, TypeOK, ReportsOK, ServerOK, serverVars
<1>9. CASE PromptAccepted(w)
  <2>1. WorkersOK'
    BY <1>9, GotoType DEF PromptAccepted, At, TypeOK, Labels, Unassigned
  <2>2. inbox' \in [Sessions -> Seq(Tasks)]
    <3>. job[w].task \in Tasks
      BY <1>9 DEF PromptAccepted, At, Unassigned
    <3>1. \A s \in Sessions : Append(inbox[s], job[w].task) \in Seq(Tasks)
      BY DEF TypeOK, ServerOK
    <3>. QED
      BY <1>9, <3>1 DEF PromptAccepted, TypeOK, ServerOK
  <2>3. prompts' \in [Tasks -> [0..MaxRetries -> Nat]]
    <3>. DEFINE p == [prompts[job[w].task] EXCEPT ![job[w].attempt] = @ + 1]
    <3>. job[w].task \in Tasks
      BY <1>9 DEF PromptAccepted, At, Unassigned
    <3>1. p \in [0..MaxRetries -> Nat]
      <4>. DEFINE f == prompts[job[w].task]
      <4>1. f \in [0..MaxRetries -> Nat]
        BY DEF TypeOK, ServerOK
      <4>. HIDE DEF f
      <4>2. \A k \in 0..MaxRetries : f[k] + 1 \in Nat
        BY <4>1
      <4>3. [f EXCEPT ![job[w].attempt] = f[job[w].attempt] + 1] \in [0..MaxRetries -> Nat]
        BY <4>1, <4>2
      <4>. QED
        BY <4>3 DEF f
    <3>2. prompts' = [prompts EXCEPT ![job[w].task] = p]
      BY <1>9 DEF PromptAccepted
    <3>. HIDE DEF p
    <3>. QED
      BY <3>1, <3>2 DEF TypeOK, ServerOK
  <2>. QED
    BY <1>9, <2>1, <2>2, <2>3 DEF PromptAccepted, TypeOK, TableOK, ReportsOK, ServerOK
<1>10. CASE PromptReturns(w)
  BY <1>10, PauseType, Nulls DEF PromptReturns, Labels, Unassigned
<1>11. CASE DispatchFails(w)
  BY <1>11, FailureType DEF DispatchFails, Holds, At, Unassigned
<1>. QED
  BY <1>1, <1>2, <1>3, <1>4, <1>5, <1>6, <1>7, <1>8, <1>9, <1>10, <1>11 DEF Dispatch

LEMMA CycleEndType ==
  ASSUME TypeOK, NEW w \in Workers,
         CycleReturns(w) \/ MetricFails(w) \/ CycleThrows(w)
  PROVE  TypeOK'
<1>. job[w] \in Jobs /\ (pc[w] \notin Unassigned => job[w].task \in Tasks)
  BY JobType
<1>1. CASE CycleReturns(w)
  <2>1. WorkersOK'
    BY <1>1, GotoType, Nulls DEF CycleReturns, TypeOK, Labels, Unassigned
  <2>2. ReportsOK'
    BY <1>1, ReportType DEF CycleReturns, TypeOK, At, Unassigned, Terminal, Jobs
  <2>. QED
    BY <1>1, <2>1, <2>2 DEF CycleReturns, TypeOK, TableOK, ServerOK, serverVars
<1>2. CASE MetricFails(w)
  BY <1>2, PauseType, FailureType, Nulls DEF MetricFails, At, Labels, Unassigned
<1>3. CASE CycleThrows(w)
  BY <1>3, PauseType, Nulls DEF CycleThrows, Labels, Unassigned
<1>. QED
  BY <1>1, <1>2, <1>3

LEMMA ProcessType ==
  ASSUME TypeOK, NEW w \in Workers,
         \/ Deliver(w) \/ Crash(w) \/ Start(w) \/ bindEventMessageToRunningTask(w)
  PROVE  TypeOK'
<1>1. CASE Deliver(w)
  <2>. PICK r \in routing[w] : /\ routing' = [routing EXCEPT ![w] = @ \ {r}]
                               /\ told' = [told EXCEPT ![r.task] = Append(@, r.outcome)]
    BY <1>1 DEF Deliver
  <2>1. r \in [task : Tasks, outcome : Terminal, attempts : Nat]
    BY DEF TypeOK, ReportsOK
  <2>2. ReportsOK'
    BY <2>1 DEF TypeOK, ReportsOK
  <2>. QED
    BY <1>1, <2>2 DEF Deliver, TypeOK, TableOK, WorkersOK, ServerOK, tableVars, workerVars, serverVars
<1>2. CASE Crash(w)
  <2>1. WorkersOK'
    BY <1>2, GotoType, Nulls DEF Crash, TypeOK, Labels, Unassigned
  <2>2. crashes' \in 0..MaxCrashes
    BY <1>2, QueueAssumption DEF Crash, TypeOK
  <2>3. ReportsOK'
    BY <1>2 DEF Crash, TypeOK, ReportsOK
  <2>. QED
    BY <1>2, <2>1, <2>2, <2>3 DEF Crash, TypeOK, TableOK, ServerOK, tableVars, serverVars
<1>3. CASE Boot(w) \/ Recovered(w)
  <2>1. WithStatus("running") \in SUBSET Tasks
    BY DEF WithStatus
  <2>. QED
    BY <1>3, <2>1, PauseType, Nulls DEF Boot, Recovered, Labels, Unassigned
<1>5. CASE recoverRunningTasks(w)
  <2>. PICK t \in Tasks :
         /\ row' = [row EXCEPT ![t] = [@ EXCEPT !.status = "failed", !.retry = "none"]]
         /\ Goto(w, "recovering", [job[w] EXCEPT !.stale = @ \ {t}])
    BY <1>5, JobType DEF recoverRunningTasks, Jobs
  <2>1. [row[t] EXCEPT !.status = "failed", !.retry = "none"] \in Rows
    BY DEF TypeOK, TableOK, Rows, Terminal
  <2>2. TableOK'
    BY <2>1 DEF TypeOK, TableOK
  <2>3. [job[w] EXCEPT !.stale = @ \ {t}] \in Jobs
    BY JobType DEF Jobs
  <2>4. WorkersOK'
    BY <2>3, GotoType DEF TypeOK, Labels, Unassigned
  <2>. QED
    BY <1>5, <2>2, <2>4 DEF recoverRunningTasks, TypeOK, ReportsOK, ServerOK, serverVars
<1>4. CASE bindEventMessageToRunningTask(w)
  <2>. PICK i \in 1..Len(log), t \in Tasks : row' = [row EXCEPT ![t].tracked = i]
    BY <1>4 DEF bindEventMessageToRunningTask
  <2>1. [row[t] EXCEPT !.tracked = i] \in Rows
    BY RowTracking DEF TypeOK, TableOK, ServerOK
  <2>. QED
    BY <1>4, <2>1, RowOnlyType DEF bindEventMessageToRunningTask
<1>. QED
  BY <1>1, <1>2, <1>3, <1>4, <1>5 DEF Start

LEMMA ServerType ==
  ASSUME TypeOK, NEW s \in Sessions, ServerBegins(s) \/ ServerFinishes(s)
  PROVE  TypeOK'
<1>1. CASE Serve(s)
  <2>. PICK n \in 1..Len(inbox[s]) :
         /\ log' = Append(log, [session |-> s, task |-> inbox[s][n]])
         /\ run' = [run EXCEPT ![s] = Len(log) + 1]
         /\ inbox' = [inbox EXCEPT ![s] = SubSeq(@, n + 1, Len(@))]
    BY <1>1 DEF Serve
  <2>1. inbox[s] \in Seq(Tasks) /\ inbox[s][n] \in Tasks
    BY DEF TypeOK, ServerOK
  <2>2. log' \in Seq([session : Sessions, task : Tasks]) /\ run' \in [Sessions -> Nat]
    BY <2>1 DEF TypeOK, ServerOK
  <2>3. SubSeq(inbox[s], n + 1, Len(inbox[s])) \in Seq(Tasks)
    BY <2>1
  <2>4. ServerOK'
    BY <2>2, <2>3 DEF ServerBegins, ServerFinishes, TypeOK, ServerOK
  <2>. QED
    BY <2>4 DEF ServerBegins, ServerFinishes, TypeOK, TableOK, WorkersOK, ReportsOK, workerVars
<1>2. CASE run' = [run EXCEPT ![s] = None] /\ UNCHANGED <<log, inbox>> /\ ServerFinishes(s)
  BY <1>2 DEF ServerFinishes, TypeOK, TableOK, WorkersOK, ReportsOK, ServerOK, workerVars, None
<1>. QED
  BY <1>1, <1>2 DEF ServerBegins, ServerFinishes

LEMMA InitType == Init => TypeOK
<1>. SUFFICES ASSUME Init PROVE TypeOK
  OBVIOUS
<1>1. TableOK /\ WorkersOK
  BY Nulls DEF Init, TableOK, WorkersOK, Labels, Unassigned
<1>2. ReportsOK
  BY DEF Init, ReportsOK
<1>3. NoChat \in {s.chat : s \in AllSources}
  <2>. NoSource \in AllSources /\ NoSource.chat = NoChat
    BY DEF AllSources, NoSource
  <2>. QED
    OBVIOUS
<1>4. ServerOK
  BY <1>3 DEF Init, ServerOK, None
<1>. QED
  BY <1>1, <1>2, <1>4, QueueAssumption DEF Init, TypeOK

LEMMA NextType == TypeOK /\ [Next]_vars => TypeOK'
<1>1. ASSUME TypeOK, Next PROVE TypeOK'
  BY <1>1, ProducersType, FinalizeType, DispatchType, RecordType, CycleEndType,
     ProcessType, ServerType
  DEF Next, processCycle
<1>2. ASSUME TypeOK, UNCHANGED vars PROVE TypeOK'
  BY <1>2 DEF vars, TypeOK, TableOK, WorkersOK, ReportsOK, ServerOK
<1>. QED
  BY <1>1, <1>2

\* Rows, snapshots, reports and the server's records keep their types in every
\* execution, for every value of the constants.
THEOREM TypeCorrect == Spec => []TypeOK
BY InitType, NextType, PTL DEF Spec

-----------------------------------------------------------------------------
(* The retry budget: BudgetInv is inductive if there is one worker.         *)

\* No worker gets hold of an attempt, or of a failure to count.
NothingTaken ==
  \A w \in Workers :
    /\ pc'[w] \in Dispatching =>
         /\ pc[w] \in Dispatching
         /\ job'[w].task = job[w].task
         /\ job'[w].attempt = job[w].attempt
    /\ pc'[w] = "failing" => pc[w] = "failing" /\ job'[w] = job[w]

\* What every step but a claim, an accepted prompt and a counted failure does:
\* no row gets a new attempt, and no worker gets hold of one.
Neutral ==
  /\ \A t \in Tasks :
       /\ row'[t].attempts = row[t].attempts
       /\ NotYetClaimed(t)' => NotYetClaimed(t)
       /\ row'[t].status = "absent" => row[t].status = "absent"
  /\ prompts' = prompts
  /\ NothingTaken

LEMMA NeutralKeepsBudget ==
  ASSUME TypeOK, BudgetInv, Neutral
  PROVE  BudgetInv'
<1>0. \A w \in Workers, t \in Tasks :
        Holding(w, t)' => Holding(w, t) /\ job'[w].attempt = job[w].attempt
  BY DEF Neutral, NothingTaken, Holding
<1>1. EachAttemptPromptedOnce'
  BY DEF BudgetInv, EachAttemptPromptedOnce, Neutral
<1>2. HeldOnce'
  BY <1>0 DEF BudgetInv, HeldOnce, Neutral
<1>3. PromptsCounted'
  BY DEF BudgetInv, PromptsCounted, Neutral
<1>4. NextAttemptFree'
  BY <1>0 DEF BudgetInv, NextAttemptFree, Neutral
<1>5. AbsentUncounted'
  BY DEF BudgetInv, AbsentUncounted, Neutral
<1>6. FailureCounted'
  <2>. SUFFICES ASSUME NEW w \in Workers, pc'[w] = "failing"
                PROVE  job'[w].failure.attempts = row'[job'[w].task].attempts + 1
    BY DEF FailureCounted, At
  <2>1. pc[w] = "failing" /\ job'[w] = job[w]
    BY DEF Neutral, NothingTaken
  <2>2. job[w].task \in Tasks
    BY <2>1, JobType DEF Unassigned
  <2>. QED
    BY <2>1, <2>2 DEF Neutral, BudgetInv, FailureCounted, At
<1>. QED
  BY <1>1, <1>2, <1>3, <1>4, <1>5, <1>6 DEF BudgetInv

\* A worker that leaves the dispatching labels, or stays in them with its job,
\* gets hold of nothing.
LEMMA GotoHolds ==
  ASSUME WorkersOK, NEW w \in Workers, NEW label, NEW j, Goto(w, label, j),
         label # "failing",
         \/ label \notin Dispatching
         \/ /\ pc[w] \in Dispatching
            /\ j.task = job[w].task /\ j.attempt = job[w].attempt
  PROVE  NothingTaken
BY DEF WorkersOK, Goto, NothingTaken

LEMMA PauseBudget ==
  ASSUME TypeOK, BudgetInv, NEW w \in Workers, NEW label, NEW j, Pause(w, label, j),
         label # "failing",
         \/ label \notin Dispatching
         \/ /\ pc[w] \in Dispatching
            /\ j.task = job[w].task /\ j.attempt = job[w].attempt
  PROVE  BudgetInv'
<1>. Neutral
  BY GotoHolds DEF Neutral, Pause, serverVars, NotYetClaimed, TypeOK
<1>. QED
  BY NeutralKeepsBudget

LEMMA CompletedBudget ==
  ASSUME TypeOK, BudgetInv, NEW w \in Workers, job[w].task \in Tasks, NEW r,
         MarkCompleted(w, r)
  PROVE  BudgetInv'
<1>1. \A t \in Tasks : /\ row'[t].attempts = row[t].attempts
                       /\ row'[t].status \in {row[t].status, "completed"}
  BY DEF MarkCompleted, TypeOK, TableOK, Rows
<1>2. NothingTaken
  BY GotoHolds DEF MarkCompleted, Dispatching, TypeOK
<1>. Neutral
  BY <1>1, <1>2 DEF Neutral, MarkCompleted, NotYetClaimed, serverVars
<1>. QED
  BY NeutralKeepsBudget

\* A failure that is about to be recorded counts one more than the row as it was read.
LEMMA FailureBudget ==
  ASSUME TypeOK, BudgetInv, NEW w \in Workers, NEW j \in Jobs, j.task \in Tasks,
         NEW reset \in BOOLEAN, NEW after \in {"idle", "dispatch"},
         NEW thrown \in {"idle", "caught"},
         handleFailure(w, j, reset, after, thrown)
  PROVE  BudgetInv'
<1>. PICK k : k = Failed(j, reset, after, thrown)
  OBVIOUS
<1>1. k.task = j.task /\ k.failure.attempts = row[j.task].attempts + 1
  BY FailedJob
<1>2. /\ pc'[w] = "failing" /\ job'[w] = k
      /\ \A v \in Workers \ {w} : pc'[v] = pc[v] /\ job'[v] = job[v]
      /\ row' = row /\ prompts' = prompts
  BY DEF handleFailure, Pause, Goto, serverVars, TypeOK, WorkersOK
<1>3. \A v \in Workers, t \in Tasks :
        Holding(v, t)' => Holding(v, t) /\ job'[v].attempt = job[v].attempt
  BY <1>2 DEF Holding, Dispatching
<1>4. EachAttemptPromptedOnce' /\ PromptsCounted' /\ AbsentUncounted'
  BY <1>2 DEF BudgetInv, EachAttemptPromptedOnce, PromptsCounted, AbsentUncounted
<1>5. HeldOnce'
  BY <1>2, <1>3 DEF BudgetInv, HeldOnce
<1>6. NextAttemptFree'
  BY <1>2, <1>3 DEF BudgetInv, NextAttemptFree, NotYetClaimed
<1>7. FailureCounted'
  <2>. SUFFICES ASSUME NEW v \in Workers, pc'[v] = "failing"
                PROVE  job'[v].failure.attempts = row'[job'[v].task].attempts + 1
    BY DEF FailureCounted, At
  <2>1. CASE v = w
    BY <2>1, <1>1, <1>2
  <2>2. CASE v # w
    BY <2>2, <1>2 DEF BudgetInv, FailureCounted, At
  <2>. QED
    BY <2>1, <2>2
<1>. QED
  BY <1>4, <1>5, <1>6, <1>7 DEF BudgetInv

\* Its record counts the attempt: whoever still holds one holds an older one, so the
\* row's next attempt is free; and no other worker is about to record a failure.
LEMMA RecordBudget ==
  ASSUME OneWorker, TypeOK, BudgetInv, NEW w \in Workers, RecordFailure(w)
  PROVE  BudgetInv'
<1>. DEFINE t0 == job[w].task
            n == row[t0].attempts + 1
<1>0. /\ t0 \in Tasks /\ job[w].failure.attempts = n
      /\ row' = [row EXCEPT ![t0] = RowAfterFailure(@, job[w])]
  BY RecordGoes DEF BudgetInv, FailureCounted, RecordFailure, At
<1>1. /\ n \in Nat /\ n > row[t0].attempts
      /\ \A t \in Tasks : row[t].attempts \in Nat
  BY <1>0 DEF TypeOK, TableOK, Rows
<1>2. /\ row'[t0].attempts = n
      /\ row'[t0].status \in {"pending", "failed"}
      /\ row'[t0].status = "pending" => n <= MaxRetries
      /\ \A t \in Tasks \ {t0} : row'[t] = row[t]
  BY <1>0 DEF RowAfterFailure, shouldRetry, TypeOK, TableOK, Rows
<1>3. prompts' = prompts
  BY RecordGoes DEF serverVars
<1>4. NothingTaken
  <2>1. PICK label \in {"idle", "dispatch", "caught"}, k \in {NoJob, job[w]} : Goto(w, label, k)
    BY RecordGoes
  <2>. QED
    BY <2>1, GotoHolds DEF Dispatching, TypeOK
<1>. HIDE DEF n
<1>5. \A v \in Workers, t \in Tasks :
        Holding(v, t)' => Holding(v, t) /\ job'[v].attempt = job[v].attempt
  BY <1>4 DEF NothingTaken, Holding
<1>6. \A t \in Tasks : row'[t].attempts \in Nat /\ row'[t].attempts >= row[t].attempts
  BY <1>1, <1>2
<1>7. EachAttemptPromptedOnce'
  BY <1>3 DEF BudgetInv, EachAttemptPromptedOnce
<1>8. HeldOnce'
  <2>. SUFFICES ASSUME NEW v \in Workers, NEW t \in Tasks, Holding(v, t)'
                PROVE  /\ job'[v].attempt \in 0..MaxRetries
                       /\ job'[v].attempt <= row'[t].attempts
                       /\ prompts'[t][job'[v].attempt] = 0
                       /\ \A u \in Workers : Holding(u, t)' /\ job'[u].attempt = job'[v].attempt => u = v
    BY DEF HeldOnce
  <2>1. /\ job[v].attempt \in 0..MaxRetries
        /\ job[v].attempt <= row[t].attempts
        /\ prompts[t][job[v].attempt] = 0
        /\ \A u \in Workers : Holding(u, t) /\ job[u].attempt = job[v].attempt => u = v
    BY <1>5 DEF BudgetInv, HeldOnce
  <2>. QED
    BY <2>1, <1>1, <1>3, <1>5, <1>6
<1>9. PromptsCounted'
  BY <1>1, <1>3, <1>6 DEF BudgetInv, PromptsCounted
<1>10. NextAttemptFree'
  <2>. SUFFICES ASSUME NEW t \in Tasks, NotYetClaimed(t)'
                PROVE  /\ row'[t].attempts \in 0..MaxRetries
                       /\ prompts'[t][row'[t].attempts] = 0
                       /\ \A v \in Workers : Holding(v, t)' => job'[v].attempt # row'[t].attempts
    BY DEF NextAttemptFree
  <2>1. CASE t = t0
    <3>1. n \in 0..MaxRetries
      BY <2>1, <1>1, <1>2, QueueAssumption DEF NotYetClaimed
    <3>2. prompts[t0][n] = 0
      BY <3>1, <1>0, <1>1 DEF BudgetInv, PromptsCounted
    <3>3. \A v \in Workers : Holding(v, t0) => job[v].attempt \in 0..MaxRetries /\ job[v].attempt <= row[t0].attempts
      BY <1>0 DEF BudgetInv, HeldOnce
    <3>. QED
      BY <2>1, <3>1, <3>2, <3>3, <1>1, <1>2, <1>3, <1>5
  <2>2. CASE t # t0
    BY <2>2, <1>2, <1>3, <1>5 DEF BudgetInv, NextAttemptFree, NotYetClaimed
  <2>. QED
    BY <2>1, <2>2
<1>11. AbsentUncounted'
  BY <1>2 DEF BudgetInv, AbsentUncounted
<1>12. FailureCounted'
  <2>1. pc[w] = "failing" /\ Workers = {w}
    BY DEF RecordFailure, At, OneWorker
  <2>2. pc'[w] # "failing"
    BY RecordGoes DEF Goto, TypeOK, WorkersOK
  <2>. QED
    BY <2>1, <2>2 DEF FailureCounted, At
<1>. QED
  BY <1>7, <1>8, <1>9, <1>10, <1>11, <1>12 DEF BudgetInv

\* A claim takes the free next attempt of a waiting row.
LEMMA ClaimBudget ==
  ASSUME TypeOK, BudgetInv, NEW w \in Workers, claimNextPending(w)
  PROVE  BudgetInv'
<1>. DEFINE claimed(t) == [row[t] EXCEPT !.status = "running", !.retry = "none",
                             !.started = IF @ = None THEN Len(log) + 1 ELSE @]
<1>. PICK t0 \in Tasks : /\ Claimable(t0)
                         /\ row' = [row EXCEPT ![t0] = claimed(t0)]
                         /\ Goto(w, "claimed", SnapshotOf(t0, claimed(t0)))
  BY DEF claimNextPending
<1>1. NotYetClaimed(t0) /\ row[t0].status = "pending"
  BY DEF Claimable, First, WithStatus, NotYetClaimed
<1>2. /\ \A t \in Tasks : row'[t].attempts = row[t].attempts
      /\ \A t \in Tasks \ {t0} : row'[t] = row[t]
      /\ row'[t0].status = "running"
  BY DEF TypeOK, TableOK, Rows
<1>3. prompts' = prompts
  BY DEF claimNextPending, serverVars
<1>4. /\ pc'[w] = "claimed" /\ job'[w].task = t0 /\ job'[w].attempt = row[t0].attempts
      /\ \A v \in Workers \ {w} : pc'[v] = pc[v] /\ job'[v] = job[v]
  <2>1. claimed(t0).attempts = row[t0].attempts
    BY DEF TypeOK, TableOK, Rows
  <2>. HIDE DEF claimed
  <2>. QED
    BY <2>1 DEF Goto, SnapshotOf, TypeOK, WorkersOK
<1>. HIDE DEF claimed
<1>5. \A v \in Workers, t \in Tasks : Holding(v, t)' =>
        \/ v = w /\ t = t0 /\ job'[v].attempt = row[t0].attempts
        \/ v # w /\ Holding(v, t) /\ job'[v].attempt = job[v].attempt
  BY <1>4 DEF Holding
<1>6. /\ row[t0].attempts \in 0..MaxRetries
      /\ prompts[t0][row[t0].attempts] = 0
      /\ \A v \in Workers : Holding(v, t0) => job[v].attempt # row[t0].attempts
  BY <1>1 DEF BudgetInv, NextAttemptFree
<1>7. EachAttemptPromptedOnce' /\ PromptsCounted' /\ AbsentUncounted'
  BY <1>2, <1>3 DEF BudgetInv, EachAttemptPromptedOnce, PromptsCounted, AbsentUncounted
<1>8. HeldOnce'
  <2>. SUFFICES ASSUME NEW v \in Workers, NEW t \in Tasks, Holding(v, t)'
                PROVE  /\ job'[v].attempt \in 0..MaxRetries
                       /\ job'[v].attempt <= row'[t].attempts
                       /\ prompts'[t][job'[v].attempt] = 0
                       /\ \A u \in Workers : Holding(u, t)' /\ job'[u].attempt = job'[v].attempt => u = v
    BY DEF HeldOnce
  <2>1. CASE v = w
    BY <2>1, <1>2, <1>3, <1>4, <1>5, <1>6
  <2>2. CASE v # w
    <3>1. /\ job[v].attempt \in 0..MaxRetries
          /\ job[v].attempt <= row[t].attempts
          /\ prompts[t][job[v].attempt] = 0
          /\ \A u \in Workers : Holding(u, t) /\ job[u].attempt = job[v].attempt => u = v
      BY <2>2, <1>5 DEF BudgetInv, HeldOnce
    <3>. QED
      BY <2>2, <3>1, <1>2, <1>3, <1>5, <1>6
  <2>. QED
    BY <2>1, <2>2
<1>9. NextAttemptFree'
  BY <1>2, <1>3, <1>4, <1>5 DEF BudgetInv, NextAttemptFree, NotYetClaimed
<1>10. FailureCounted'
  BY <1>2, <1>4, JobType DEF BudgetInv, FailureCounted, At, Unassigned
<1>. QED
  BY <1>7, <1>8, <1>9, <1>10 DEF BudgetInv

\* An accepted prompt uses up the attempt its worker held alone.
LEMMA AcceptBudget ==
  ASSUME TypeOK, BudgetInv, NEW w \in Workers, PromptAccepted(w)
  PROVE  BudgetInv'
<1>. DEFINE t0 == job[w].task
            k0 == job[w].attempt
<1>1. Holding(w, t0) /\ t0 \in Tasks /\ pc[w] = "prompt"
  BY JobType DEF PromptAccepted, At, Holding, Dispatching, Unassigned
<1>2. /\ k0 \in 0..MaxRetries /\ k0 <= row[t0].attempts /\ prompts[t0][k0] = 0
      /\ \A v \in Workers : Holding(v, t0) /\ job[v].attempt = k0 => v = w
  BY <1>1 DEF BudgetInv, HeldOnce
<1>3. /\ prompts'[t0][k0] = 1
      /\ \A t \in Tasks, k \in 0..MaxRetries :
           t # t0 \/ k # k0 => prompts'[t][k] = prompts[t][k]
  <2>. DEFINE f == prompts[t0]
              p == [f EXCEPT ![k0] = f[k0] + 1]
  <2>1. f \in [0..MaxRetries -> Nat] /\ f[k0] = 0
    BY <1>1, <1>2 DEF TypeOK, ServerOK
  <2>2. prompts' = [prompts EXCEPT ![t0] = p]
    BY DEF PromptAccepted
  <2>3. prompts' = [t \in Tasks |-> IF t = t0 THEN p ELSE prompts[t]]
    <3>. HIDE DEF p
    <3>. QED
      BY <2>2 DEF TypeOK, ServerOK
  <2>. HIDE DEF f
  <2>4. p[k0] = 1 /\ \A k \in 0..MaxRetries : k # k0 => p[k] = f[k]
    BY <2>1, <1>2
  <2>. HIDE DEF p, t0, k0
  <2>. QED
    BY <2>3, <2>4, <1>1 DEF f
<1>4. row' = row
  BY DEF PromptAccepted
<1>5. \A v \in Workers, t \in Tasks : Holding(v, t)' =>
        v # w /\ Holding(v, t) /\ job'[v].attempt = job[v].attempt
  BY DEF PromptAccepted, Goto, Holding, Dispatching, TypeOK, WorkersOK
<1>. HIDE DEF t0, k0
<1>6. \A t \in Tasks : row[t].attempts \in Nat
  BY DEF TypeOK, TableOK, Rows
<1>7. EachAttemptPromptedOnce'
  BY <1>3 DEF BudgetInv, EachAttemptPromptedOnce
<1>8. HeldOnce'
  <2>. SUFFICES ASSUME NEW v \in Workers, NEW t \in Tasks, Holding(v, t)'
                PROVE  /\ job'[v].attempt \in 0..MaxRetries
                       /\ job'[v].attempt <= row'[t].attempts
                       /\ prompts'[t][job'[v].attempt] = 0
                       /\ \A u \in Workers : Holding(u, t)' /\ job'[u].attempt = job'[v].attempt => u = v
    BY DEF HeldOnce
  <2>1. /\ job[v].attempt \in 0..MaxRetries
        /\ job[v].attempt <= row[t].attempts
        /\ prompts[t][job[v].attempt] = 0
        /\ \A u \in Workers : Holding(u, t) /\ job[u].attempt = job[v].attempt => u = v
    BY <1>5 DEF BudgetInv, HeldOnce
  <2>2. t # t0 \/ job[v].attempt # k0
    BY <1>2, <1>5
  <2>. QED
    BY <2>1, <2>2, <1>3, <1>4, <1>5
<1>9. PromptsCounted'
  BY <1>2, <1>3, <1>4, <1>6 DEF BudgetInv, PromptsCounted
<1>10. NextAttemptFree'
  <2>1. NotYetClaimed(t0) => row[t0].attempts # k0
    BY <1>1, <1>2 DEF BudgetInv, NextAttemptFree, k0
  <2>. QED
    BY <2>1, <1>3, <1>4, <1>5 DEF BudgetInv, NextAttemptFree, NotYetClaimed
<1>11. AbsentUncounted'
  BY <1>4 DEF BudgetInv, AbsentUncounted
<1>12. FailureCounted'
  <2>1. NothingTaken
    BY GotoHolds DEF PromptAccepted, Dispatching, TypeOK
  <2>. QED
    BY <1>4, <2>1 DEF NothingTaken, BudgetInv, FailureCounted, At
<1>. QED
  BY <1>7, <1>8, <1>9, <1>10, <1>11, <1>12 DEF BudgetInv

LEMMA ProducersBudget ==
  ASSUME TypeOK, BudgetInv, NEW t \in Tasks,
         createTask(t) \/ createTaskInSession(t) \/ RetryDue(t)
  PROVE  BudgetInv'
<1>1. UNCHANGED <<workerVars, serverVars>>
  BY DEF createTask, createTaskInSession, RetryDue
<1>2. CASE createTask(t) \/ createTaskInSession(t)
  <2>. PICK kind, source, session : Insert(t, kind, source, session)
    BY <1>2 DEF createTask, createTaskInSession
  <2>1. row[t].status = "absent" /\ row[t].attempts = 0
    BY DEF Insert, First, WithStatus, BudgetInv, AbsentUncounted
  <2>2. row' = [row EXCEPT ![t] = [NoRow EXCEPT !.status = "pending", !.kind = kind,
                                      !.source = source, !.session = session]]
    BY DEF Insert
  <2>3. /\ row'[t].status = "pending" /\ row'[t].attempts = 0
        /\ \A u \in Tasks \ {t} : row'[u] = row[u]
    BY <2>2 DEF TypeOK, TableOK, NoRow
  <2>. Neutral
    BY <1>1, <2>1, <2>3 DEF Neutral, NothingTaken, NotYetClaimed, workerVars, serverVars
  <2>. QED
    BY NeutralKeepsBudget
<1>3. CASE RetryDue(t)
  <2>1. \A u \in Tasks : row'[u].status = row[u].status /\ row'[u].attempts = row[u].attempts
    BY <1>3 DEF RetryDue, TypeOK, TableOK, Rows
  <2>. Neutral
    BY <1>1, <2>1 DEF Neutral, NothingTaken, NotYetClaimed, workerVars, serverVars
  <2>. QED
    BY NeutralKeepsBudget
<1>. QED
  BY <1>2, <1>3

LEMMA FinalizeBudget ==
  ASSUME TypeOK, BudgetInv, NEW w \in Workers, Finalize(w)
  PROVE  BudgetInv'
<1>. job[w] \in Jobs /\ (pc[w] \notin Unassigned => job[w].task \in Tasks)
  BY JobType
<1>1. CASE FinalizeNothing(w)
  BY <1>1, PauseBudget DEF FinalizeNothing, Dispatching
<1>2. CASE FinalizeOrphan(w)
  BY <1>2, PauseBudget DEF FinalizeOrphan, Dispatching
<1>3. CASE FinalizePoll(w)
  BY <1>3, PauseBudget DEF FinalizePoll, Dispatching
<1>4. CASE PollFails(w)
  BY <1>4, FailureBudget DEF PollFails, At, Unassigned
<1>5. CASE PollBusy(w)
  BY <1>5, PauseBudget DEF PollBusy, Dispatching
<1>6. CASE PollIdle(w)
  BY <1>6, PauseBudget DEF PollIdle, Dispatching
<1>7. CASE FindTracked(w)
  BY <1>7, PauseBudget DEF FindTracked, Take, Dispatching
<1>8. CASE FindLatest(w)
  BY <1>8, PauseBudget DEF FindLatest, Take, Dispatching
<1>9. CASE FindNothing(w)
  BY <1>9, FailureBudget DEF FindNothing, At, Unassigned
<1>10. CASE FinalizeFails(w)
  BY <1>10, FailureBudget DEF FinalizeFails, At, Unassigned
<1>11. CASE FinalizeComplete(w)
  BY <1>11, CompletedBudget DEF FinalizeComplete, At, Unassigned
<1>. QED
  BY <1>1, <1>2, <1>3, <1>4, <1>5, <1>6, <1>7, <1>8, <1>9, <1>10, <1>11 DEF Finalize

LEMMA BindNeutral ==
  ASSUME TypeOK, NEW w \in Workers, job[w].task \in Tasks, NEW s,
         pc[w] \in Dispatching, BindSession(w, s), UNCHANGED prompts
  PROVE  Neutral
<1>1. \A t \in Tasks : row'[t].status = row[t].status /\ row'[t].attempts = row[t].attempts
  BY DEF BindSession, TypeOK, TableOK, Rows
<1>2. [job[w] EXCEPT !.session = s].task = job[w].task /\ [job[w] EXCEPT !.session = s].attempt = job[w].attempt
  BY JobType DEF Jobs
<1>3. NothingTaken
  BY <1>2, GotoHolds DEF BindSession, TypeOK
<1>. QED
  BY <1>1, <1>3 DEF Neutral, NotYetClaimed

LEMMA DispatchBudget ==
  ASSUME TypeOK, BudgetInv, NEW w \in Workers, Dispatch(w)
  PROVE  BudgetInv'
<1>. job[w] \in Jobs /\ (pc[w] \notin Unassigned => job[w].task \in Tasks)
  BY JobType
<1>1. CASE claimNextPending(w)
  BY <1>1, ClaimBudget
<1>2. CASE ClaimNothing(w)
  BY <1>2, PauseBudget DEF ClaimNothing, Dispatching
<1>3. CASE DispatchReport(w)
  BY <1>3, CompletedBudget DEF DispatchReport, Holds, At, Unassigned
<1>4. CASE DispatchEq1(w)
  BY <1>4, CompletedBudget, FailureBudget DEF DispatchEq1, Holds, At, Unassigned
<1>5. CASE ReuseSession(w)
  BY <1>5, BindNeutral, NeutralKeepsBudget
  DEF ReuseSession, Holds, At, Unassigned, Dispatching, serverVars
<1>6. CASE AskSession(w)
  BY <1>6, PauseBudget DEF AskSession, Holds, At, Dispatching
<1>7. CASE createSession(w)
  BY <1>7, BindNeutral, NeutralKeepsBudget
  DEF createSession, At, Unassigned, Dispatching
<1>8. CASE RouteAgent(w)
  <2>1. \A t \in Tasks : row'[t].status = row[t].status /\ row'[t].attempts = row[t].attempts
    BY <1>8 DEF RouteAgent, TypeOK, TableOK, Rows
  <2>2. NothingTaken
    BY <1>8, GotoHolds DEF RouteAgent, At, Dispatching, TypeOK
  <2>. Neutral
    BY <1>8, <2>1, <2>2 DEF RouteAgent, Neutral, NotYetClaimed, serverVars
  <2>. QED
    BY NeutralKeepsBudget
<1>9. CASE PromptAccepted(w)
  BY <1>9, AcceptBudget
<1>10. CASE PromptReturns(w)
  BY <1>10, PauseBudget DEF PromptReturns, Dispatching
<1>11. CASE DispatchFails(w)
  BY <1>11, FailureBudget DEF DispatchFails, Holds, At, Unassigned
<1>. QED
  BY <1>1, <1>2, <1>3, <1>4, <1>5, <1>6, <1>7, <1>8, <1>9, <1>10, <1>11 DEF Dispatch

LEMMA CycleEndBudget ==
  ASSUME TypeOK, BudgetInv, NEW w \in Workers,
         CycleReturns(w) \/ MetricFails(w) \/ CycleThrows(w)
  PROVE  BudgetInv'
<1>. job[w] \in Jobs /\ (pc[w] \notin Unassigned => job[w].task \in Tasks)
  BY JobType
<1>1. CASE CycleReturns(w)
  <2>. Neutral
    BY <1>1, GotoHolds
    DEF CycleReturns, Dispatching, Neutral, NotYetClaimed, serverVars, TypeOK
  <2>. QED
    BY NeutralKeepsBudget
<1>2. CASE MetricFails(w)
  BY <1>2, PauseBudget, FailureBudget DEF MetricFails, At, Dispatching, Unassigned
<1>3. CASE CycleThrows(w)
  BY <1>3, PauseBudget DEF CycleThrows, Dispatching
<1>. QED
  BY <1>1, <1>2, <1>3

\* A row given up by recovery keeps its count.
LEMMA RecoveredRow ==
  ASSUME TypeOK, NEW w \in Workers, recoverRunningTasks(w)
  PROVE  \A t \in Tasks : /\ row'[t].attempts = row[t].attempts
                          /\ row'[t].source = row[t].source
                          /\ row'[t].session = row[t].session
                          /\ row'[t].result = row[t].result
                          /\ \/ row'[t].status = row[t].status
                             \/ row'[t].status = "failed" /\ t \in job[w].stale
BY DEF recoverRunningTasks, TypeOK, TableOK, Rows

LEMMA ProcessBudget ==
  ASSUME TypeOK, BudgetInv, NEW w \in Workers,
         \/ Deliver(w) \/ Crash(w) \/ Start(w) \/ bindEventMessageToRunningTask(w)
  PROVE  BudgetInv'
<1>1. prompts' = prompts
  BY DEF Deliver, Crash, bindEventMessageToRunningTask, Start, Boot, recoverRunningTasks,
         Recovered, Pause, serverVars
<1>2. NothingTaken
  <2>1. CASE Crash(w) \/ Start(w)
    <3>1. ASSUME NEW label \in {"down", "recovering", "idle"}, NEW k, Goto(w, label, k)
          PROVE  NothingTaken
      BY <3>1, GotoHolds DEF Dispatching, TypeOK
    <3>2. CASE Crash(w)
      BY <3>1, <3>2 DEF Crash
    <3>3. CASE Boot(w) \/ Recovered(w)
      BY <3>1, <3>3 DEF Boot, Recovered, Pause
    <3>4. CASE recoverRunningTasks(w)
      BY <3>1, <3>4 DEF recoverRunningTasks
    <3>. QED
      BY <2>1, <3>2, <3>3, <3>4 DEF Start
  <2>2. CASE Deliver(w) \/ bindEventMessageToRunningTask(w)
    BY <2>2 DEF Deliver, bindEventMessageToRunningTask, workerVars, NothingTaken
  <2>. QED
    BY <2>1, <2>2
<1>3. \A t \in Tasks : /\ row'[t].attempts = row[t].attempts
                       /\ row'[t].status \in {row[t].status, "failed"}
  <2>1. CASE recoverRunningTasks(w)
    BY <2>1, RecoveredRow
  <2>2. CASE bindEventMessageToRunningTask(w)
    BY <2>2 DEF bindEventMessageToRunningTask, TypeOK, TableOK, Rows
  <2>. QED
    BY <2>1, <2>2 DEF Deliver, Crash, Start, Boot, Recovered, Pause, tableVars
<1>. Neutral
  BY <1>1, <1>2, <1>3 DEF Neutral, NotYetClaimed
<1>. QED
  BY NeutralKeepsBudget

LEMMA ServerBudget ==
  ASSUME TypeOK, BudgetInv, NEW s \in Sessions, ServerBegins(s) \/ ServerFinishes(s)
  PROVE  BudgetInv'
<1>. Neutral
  BY DEF ServerBegins, ServerFinishes, Neutral, NothingTaken, NotYetClaimed, workerVars
<1>. QED
  BY NeutralKeepsBudget

LEMMA InitBudget == Init => BudgetInv
BY QueueAssumption
DEF Init, BudgetInv, EachAttemptPromptedOnce, HeldOnce, PromptsCounted, NextAttemptFree,
    AbsentUncounted, FailureCounted, At, Holding, Dispatching, NotYetClaimed, NoRow

LEMMA NextBudget == OneWorker /\ TypeOK /\ BudgetInv /\ [Next]_vars => BudgetInv'
<1>1. ASSUME OneWorker, TypeOK, BudgetInv, Next PROVE BudgetInv'
  BY <1>1, ProducersBudget, FinalizeBudget, DispatchBudget, RecordBudget, CycleEndBudget,
     ProcessBudget, ServerBudget
  DEF Next, processCycle
<1>2. ASSUME TypeOK, BudgetInv, UNCHANGED vars PROVE BudgetInv'
  <2>. Neutral
    BY <1>2 DEF vars, Neutral, NothingTaken, NotYetClaimed
  <2>. QED
    BY <1>2, NeutralKeepsBudget
<1>. QED
  BY <1>1, <1>2

\* The accounts of the attempts are kept by every step of a single worker: while it
\* dispatches it alone holds its attempt, no attempt beyond the row's counter was prompted,
\* the next attempt of a waiting row is free, and a failure about to be recorded counts
\* what the row holds.
THEOREM AttemptsAccounted == OneWorker => (Spec => []BudgetInv)
<1>. SUFFICES ASSUME OneWorker PROVE Spec => []BudgetInv
  OBVIOUS
<1>1. TypeOK /\ BudgetInv /\ [Next]_vars => BudgetInv'
  BY NextBudget
<1>. QED
  BY <1>1, TypeCorrect, InitBudget, PTL DEF Spec

\* Whatever crashes, is recovered, throws or is answered late in the one worker of a
\* table, no attempt of a task is prompted twice: every failure is counted on the row
\* before the row can be claimed again.
THEOREM RetryBudget == OneWorker => (Spec => []EachAttemptPromptedOnce)
<1>. SUFFICES ASSUME OneWorker PROVE Spec => []EachAttemptPromptedOnce
  OBVIOUS
<1>1. BudgetInv => EachAttemptPromptedOnce
  BY DEF BudgetInv
<1>. QED
  BY <1>1, AttemptsAccounted, PTL

=============================================================================
