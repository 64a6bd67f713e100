---------------------------- MODULE X2TaskProofs ----------------------------
(***************************************************************************)
(* What a task uses and what becomes of it, for every set of tasks,        *)
(* workers, sessions and sources.  A session is used by the chat it was    *)
(* opened for (ChatIsolation) and, unless X4 binds rows to it, by no       *)
(* second task of a channel that has no chat (AnswersOwnPrompt), whatever  *)
(* is reused, reset, retried or recovered.  No running row is left behind  *)
(* while writes to state.db succeed (RunningIsOwned).  With one worker,    *)
(* what was reported of a row stays true (ReportsAreFinal), and while      *)
(* writes succeed the queue implements TaskLifecycle.                      *)
(***************************************************************************)
EXTENDS X2QueueProofs

ChatOf(t) == row[t].source.chat

Present(t) == row[t].status # "absent"

\* A task uses a session if its row or a snapshot of it is bound to the session or was
\* given one of its messages, and if one of its prompts was sent there.
RowUses(r, s) ==
  \/ r.session = s
  \/ \E i \in 1..Len(log) : log[i].session = s /\ r.result.msg = i

JobUses(j, s) ==
  \/ j.session = s
  \/ \E i \in 1..Len(log) : log[i].session = s /\ j.pick.msg = i

PromptUses(s, t) ==
  \/ \E n \in 1..Len(inbox[s]) : inbox[s][n] = t
  \/ \E i \in 1..Len(log) : log[i].session = s /\ log[i].task = t

Uses(s, t) ==
  \/ RowUses(row[t], s)
  \/ \E w \in Workers : job[w].task = t /\ JobUses(job[w], s)
  \/ PromptUses(s, t)

AnswersExist ==
  /\ \A t \in Tasks : row[t].result.msg \in {None} \cup 1..Len(log)
  /\ \A w \in Workers : job[w].pick.msg \in {None} \cup 1..Len(log)

JobsExist == \A w \in Workers, t \in Tasks : job[w].task = t => Present(t)

UsersAtHome ==
  \A s \in Sessions, t \in Tasks : Uses(s, t) =>
    s \in opened /\ Present(t) /\ (ChatOf(t) # NoChat => home[s] = ChatOf(t))

ChatlessAlone ==
  \A s \in Sessions, t \in Tasks, u \in Tasks :
    ~X4Enqueues /\ Uses(s, t) /\ Uses(s, u) /\ ChatOf(t) = NoChat => u = t

\* Neither property is inductive: both speak of answers only, which come from the
\* sessions that rows and snapshots are bound to, and reuse hands those from row to row.
SessionInv == AnswersExist /\ JobsExist /\ UsersAtHome /\ ChatlessAlone

-----------------------------------------------------------------------------
(* What a task may be bound to and answered with.                          *)

SessionsOf(t) == {None} \cup {s \in Sessions : Uses(s, t)}

AnswersTo(t) == {None} \cup {i \in 1..Len(log) : Uses(log[i].session, t)}

JobFits(j) ==
  \A t \in Tasks : j.task = t =>
    Present(t) /\ j.session \in SessionsOf(t) /\ j.pick.msg \in AnswersTo(t)

LEMMA InSeq ==
  ASSUME NEW S, NEW q \in Seq(S), NEW i \in 1..Len(q)
  PROVE  q[i] \in S
OBVIOUS

LEMMA AppendKeeps ==
  ASSUME NEW S, NEW q \in Seq(S), NEW m \in S
  PROVE  /\ Len(Append(q, m)) = Len(q) + 1 /\ Append(q, m)[Len(q) + 1] = m
         /\ \A i \in 1..Len(q) : Append(q, m)[i] = q[i]
OBVIOUS

LEMMA LogType ==
  ASSUME TypeOK
  PROVE  \A i \in 1..Len(log) : log[i].session \in Sessions /\ log[i].task \in Tasks
<1>. SUFFICES ASSUME NEW i \in 1..Len(log)
              PROVE  log[i].session \in Sessions /\ log[i].task \in Tasks
  OBVIOUS
<1>1. log[i] \in [session : Sessions, task : Tasks]
  BY InSeq DEF TypeOK, ServerOK
<1>. QED
  BY <1>1

LEMMA RowsFit ==
  ASSUME TypeOK, SessionInv, NEW t \in Tasks
  PROVE  row[t].session \in SessionsOf(t) /\ row[t].result.msg \in AnswersTo(t)
<1>1. row[t].session \in {None} \cup Sessions
  BY DEF TypeOK, TableOK, Rows
<1>2. row[t].session \in SessionsOf(t)
  BY <1>1 DEF SessionsOf, Uses, RowUses
<1>3. row[t].result.msg \in AnswersTo(t)
  BY DEF SessionInv, AnswersExist, AnswersTo, Uses, RowUses
<1>. QED
  BY <1>2, <1>3

LEMMA JobsFit ==
  ASSUME TypeOK, SessionInv, NEW w \in Workers
  PROVE  JobFits(job[w])
<1>. SUFFICES ASSUME NEW t \in Tasks, job[w].task = t
              PROVE  /\ Present(t) /\ job[w].session \in SessionsOf(t)
                     /\ job[w].pick.msg \in AnswersTo(t)
  BY DEF JobFits
<1>1. job[w].session \in {None} \cup Sessions
  BY JobType DEF Jobs
<1>2. job[w].session \in SessionsOf(t)
  BY <1>1 DEF SessionsOf, Uses, JobUses
<1>3. job[w].pick.msg \in AnswersTo(t)
  BY DEF SessionInv, AnswersExist, AnswersTo, Uses, JobUses
<1>. QED
  BY <1>2, <1>3 DEF SessionInv, JobsExist

LEMMA NoJobFits ==
  /\ JobFits(NoJob) /\ NoJob.pick.msg = None
  /\ \A S : JobFits([NoJob EXCEPT !.stale = S]) /\ [NoJob EXCEPT !.stale = S].pick.msg = None
BY Nulls DEF JobFits, NoJob, NoResult

LEMMA Empty ==
  \A t : None \in SessionsOf(t) /\ None \in AnswersTo(t) /\ NoResult.msg = None
BY DEF SessionsOf, AnswersTo, NoResult

-----------------------------------------------------------------------------
(* Steps that leave sessions, prompts and messages as they are.            *)

\* Nothing is used that was not before.
LEMMA UsesStay ==
  ASSUME SessionInv, AnswersExist', JobsExist',
         UNCHANGED <<opened, home>>,
         \A t \in Tasks : /\ row'[t].source = row[t].source
                          /\ Present(t) => row'[t].status # "absent",
         \A s \in Sessions, t \in Tasks : Uses(s, t)' => Uses(s, t)
  PROVE  SessionInv'
<1>1. \A t \in Tasks : ChatOf(t)' = ChatOf(t) /\ (Present(t) => Present(t)')
  BY DEF ChatOf, Present
<1>2. UsersAtHome'
  BY <1>1 DEF SessionInv, UsersAtHome
<1>3. ChatlessAlone'
  BY <1>1 DEF SessionInv, ChatlessAlone
<1>. QED
  BY <1>2, <1>3 DEF SessionInv

LEMMA QuietStep ==
  ASSUME TypeOK, SessionInv, UNCHANGED <<opened, home, log, inbox>>,
         \A t \in Tasks : /\ row'[t].source = row[t].source
                          /\ Present(t) => row'[t].status # "absent"
                          /\ row'[t].session \in SessionsOf(t)
                          /\ row'[t].result.msg \in AnswersTo(t),
         \A w \in Workers : \/ job'[w] = job[w]
                            \/ JobFits(job'[w]) /\ job'[w].pick.msg \in {None} \cup 1..Len(log)
  PROVE  SessionInv'
<1>1. AnswersExist'
  BY DEF SessionInv, AnswersExist, AnswersTo
<1>2. \A w \in Workers, t \in Tasks : job'[w].task = t =>
        Present(t) /\ job'[w].session \in SessionsOf(t) /\ job'[w].pick.msg \in AnswersTo(t)
  BY JobsFit DEF JobFits
<1>3. JobsExist'
  BY <1>2 DEF JobsExist, Present
<1>4. ASSUME NEW s \in Sessions, NEW t \in Tasks, Uses(s, t)' PROVE Uses(s, t)
  <2>1. /\ s \in SessionsOf(t) => Uses(s, t)
        /\ \A i \in 1..Len(log) : i \in AnswersTo(t) /\ log[i].session = s => Uses(s, t)
    BY Nulls, QueueAssumption DEF SessionsOf, AnswersTo, None
  <2>2. CASE RowUses(row[t], s)'
    BY <2>1, <2>2 DEF RowUses
  <2>3. ASSUME NEW w \in Workers, job'[w].task = t, JobUses(job[w], s)' PROVE Uses(s, t)
    BY <2>1, <2>3, <1>2 DEF JobUses
  <2>4. CASE PromptUses(s, t)'
    BY <2>4 DEF PromptUses, Uses
  <2>. QED
    BY <1>4, <2>2, <2>3, <2>4 DEF Uses
<1>. QED
  BY <1>1, <1>3, <1>4, UsesStay

\* A worker that goes on with a fitting snapshot leaves the others theirs.
LEMMA GotoFits ==
  ASSUME WorkersOK, NEW w \in Workers, NEW label, NEW j, Goto(w, label, j),
         JobFits(j), j.pick.msg \in {None} \cup 1..Len(log)
  PROVE  \A v \in Workers : \/ job'[v] = job[v]
                            \/ JobFits(job'[v]) /\ job'[v].pick.msg \in {None} \cup 1..Len(log)
<1>. SUFFICES ASSUME NEW v \in Workers
              PROVE  \/ job'[v] = job[v]
                     \/ JobFits(job'[v]) /\ job'[v].pick.msg \in {None} \cup 1..Len(log)
  OBVIOUS
<1>1. job'[v] = job[v] \/ job'[v] = j
  BY DEF WorkersOK, Goto
<1>. QED
  BY <1>1

LEMMA PauseKeeps ==
  ASSUME TypeOK, SessionInv, NEW w \in Workers, NEW label, NEW j, Pause(w, label, j),
         JobFits(j), j.pick.msg \in {None} \cup 1..Len(log)
  PROVE  SessionInv'
<1>1. \A v \in Workers : \/ job'[v] = job[v]
                         \/ JobFits(job'[v]) /\ job'[v].pick.msg \in {None} \cup 1..Len(log)
  BY GotoFits DEF Pause, TypeOK
<1>. QED
  BY <1>1, QuietStep, RowsFit DEF Pause, serverVars, Present

\* A failure about to be recorded is one of the snapshot's task.
LEMMA FailureKeeps ==
  ASSUME TypeOK, SessionInv, NEW w \in Workers, NEW j \in Jobs, j.task \in Tasks,
         JobFits(j), j.pick.msg \in {None} \cup 1..Len(log),
         NEW reset \in BOOLEAN, NEW after \in {"idle", "dispatch"},
         NEW thrown \in {"idle", "caught"},
         handleFailure(w, j, reset, after, thrown)
  PROVE  SessionInv'
<1>. PICK k : k = Failed(j, reset, after, thrown)
  OBVIOUS
<1>1. k.task = j.task /\ k.session = j.session /\ k.pick = j.pick
  BY FailedJob
<1>. QED
  BY <1>1, PauseKeeps DEF handleFailure, JobFits

\* Recording it leaves the row the snapshot's session, or none.
LEMMA RecordKeeps ==
  ASSUME TypeOK, SessionInv, NEW w \in Workers, RecordFailure(w)
  PROVE  SessionInv'
<1>. DEFINE j == job[w]
<1>1. /\ j \in Jobs /\ j.task \in Tasks /\ JobFits(j) /\ j.pick.msg \in {None} \cup 1..Len(log)
      /\ row' = [row EXCEPT ![j.task] = RowAfterFailure(@, j)]
      /\ UNCHANGED <<opened, home, log, inbox>>
  BY RecordGoes, JobsFit DEF SessionInv, AnswersExist, serverVars
<1>2. \A t \in Tasks : /\ row'[t].source = row[t].source
                       /\ Present(t) => row'[t].status # "absent"
                       /\ row'[t].result = row[t].result
                       /\ \/ row'[t].session = row[t].session
                          \/ row'[t].session = None
                          \/ t = j.task /\ row'[t].session = j.session
  BY <1>1 DEF RowAfterFailure, Present, TypeOK, TableOK, Rows
<1>3. \A t \in Tasks : row'[t].session \in SessionsOf(t) /\ row'[t].result.msg \in AnswersTo(t)
  BY <1>1, <1>2, RowsFit, Empty DEF JobFits
<1>4. \A v \in Workers : \/ job'[v] = job[v]
                         \/ JobFits(job'[v]) /\ job'[v].pick.msg \in {None} \cup 1..Len(log)
  <2>1. PICK label \in {"idle", "dispatch", "caught"}, k \in {NoJob, j} : Goto(w, label, k)
    BY RecordGoes
  <2>. QED
    BY <2>1, <1>1, NoJobFits, GotoFits DEF TypeOK
<1>. QED
  BY <1>1, <1>2, <1>3, <1>4, QuietStep

\* A completed task is given what its snapshot picked, or nothing.
LEMMA CompletedKeeps ==
  ASSUME TypeOK, SessionInv, NEW w \in Workers, job[w].task \in Tasks, NEW r,
         r = NoResult \/ r = job[w].pick, MarkCompleted(w, r)
  PROVE  SessionInv'
<1>1. \A t \in Tasks : /\ row'[t].source = row[t].source
                       /\ row'[t].status \in {row[t].status, "completed"}
                       /\ row'[t].session = row[t].session
                       /\ \/ row'[t].result = row[t].result
                          \/ t = job[w].task /\ row'[t].result = r
  BY DEF MarkCompleted, TypeOK, TableOK, Rows
<1>2. \A t \in Tasks : row'[t].session \in SessionsOf(t) /\ row'[t].result.msg \in AnswersTo(t)
  BY <1>1, RowsFit, JobsFit, Empty DEF JobFits
<1>3. \A v \in Workers : \/ job'[v] = job[v]
                         \/ JobFits(job'[v]) /\ job'[v].pick.msg \in {None} \cup 1..Len(log)
  BY GotoFits, JobsFit DEF MarkCompleted, SessionInv, AnswersExist, TypeOK
<1>. QED
  BY <1>1, <1>2, <1>3, QuietStep DEF MarkCompleted, serverVars, Present

-----------------------------------------------------------------------------
(* The cycle. *)

LEMMA SnapshotFits ==
  ASSUME TypeOK, SessionInv, NEW t \in Tasks, Present(t)
  PROVE  JobFits(SnapshotOf(t, row[t])) /\ SnapshotOf(t, row[t]).pick.msg = None
BY RowsFit, Empty DEF JobFits, SnapshotOf

LEMMA TakeKeeps ==
  ASSUME TypeOK, SessionInv, NEW w \in Workers, At(w, "lookup"), NEW i \in Answers(job[w]),
         Take(w, i)
  PROVE  SessionInv'
<1>. DEFINE r == [msg |-> i, settled |-> run[job[w].session] # i]
            j == [job[w] EXCEPT !.pick = r]
<1>1. job[w] \in Jobs /\ JobFits(job[w])
  BY JobType, JobsFit
<1>2. j.task = job[w].task /\ j.session = job[w].session /\ j.pick.msg = i
  BY <1>1 DEF Jobs
<1>3. i \in 1..Len(log) /\ log[i].session = job[w].session
  BY DEF Answers
<1>4. log[i].session \in Sessions
  BY <1>3, LogType
<1>5. \A t : job[w].session \in SessionsOf(t) => i \in AnswersTo(t)
  BY <1>3, <1>4, Nulls DEF SessionsOf, AnswersTo
<1>. HIDE DEF j
<1>6. JobFits(j)
  BY <1>1, <1>2, <1>5 DEF JobFits
<1>7. Pause(w, "format", j)
  BY DEF Take, j
<1>. QED
  BY <1>2, <1>3, <1>6, <1>7, PauseKeeps

LEMMA FinalizeKeeps ==
  ASSUME TypeOK, SessionInv, NEW w \in Workers, Finalize(w)
  PROVE  SessionInv'
<1>. /\ job[w] \in Jobs /\ JobFits(job[w])
     /\ pc[w] \notin Unassigned => job[w].task \in Tasks
     /\ job[w].pick.msg \in {None} \cup 1..Len(log)
  BY JobType, JobsFit DEF SessionInv, AnswersExist
<1>0. \A t \in Tasks : First(t, WithStatus("running")) => Present(t)
  BY DEF First, WithStatus, Present
<1>1. CASE FinalizeNothing(w)
  BY <1>1, PauseKeeps, NoJobFits DEF FinalizeNothing
<1>2. CASE FinalizeOrphan(w)
  BY <1>0, <1>2, PauseKeeps, SnapshotFits DEF FinalizeOrphan
<1>3. CASE FinalizePoll(w)
  BY <1>0, <1>3, PauseKeeps, SnapshotFits DEF FinalizePoll
<1>4. CASE PollFails(w)
  BY <1>4, FailureKeeps DEF PollFails, At, Unassigned
<1>5. CASE PollBusy(w)
  BY <1>5, PauseKeeps, NoJobFits DEF PollBusy
<1>6. CASE PollIdle(w)
  BY <1>6, PauseKeeps DEF PollIdle
<1>7. CASE FindTracked(w)
  BY <1>7, TakeKeeps DEF FindTracked
<1>8. CASE FindLatest(w)
  BY <1>8, TakeKeeps DEF FindLatest
<1>9. CASE FindNothing(w)
  BY <1>9, FailureKeeps DEF FindNothing, At, Unassigned
<1>10. CASE FinalizeFails(w)
  BY <1>10, FailureKeeps DEF FinalizeFails, At, Unassigned
<1>11. CASE FinalizeComplete(w)
  BY <1>11, CompletedKeeps DEF FinalizeComplete, At, Unassigned
<1>. QED
  BY <1>1, <1>2, <1>3, <1>4, <1>5, <1>6, <1>7, <1>8, <1>9, <1>10, <1>11 DEF Finalize

LEMMA ClaimKeeps ==
  ASSUME TypeOK, SessionInv, NEW w \in Workers, claimNextPending(w)
  PROVE  SessionInv'
<1>. DEFINE claimed(t) == [row[t] EXCEPT !.status = "running", !.retry = "none",
                             !.started = IF @ = None THEN Len(log) + 1 ELSE @]
<1>. PICK t \in Tasks : /\ Claimable(t)
                        /\ row' = [row EXCEPT ![t] = claimed(t)]
                        /\ Goto(w, "claimed", SnapshotOf(t, claimed(t)))
  BY DEF claimNextPending
<1>1. row[t].status = "pending" /\ row[t] \in Rows
  BY DEF Claimable, First, WithStatus, TypeOK, TableOK
<1>2. /\ claimed(t).source = row[t].source /\ claimed(t).session = row[t].session
      /\ claimed(t).result = row[t].result /\ claimed(t).status = "running"
  BY <1>1 DEF Rows
<1>. HIDE DEF claimed
<1>3. JobFits(SnapshotOf(t, claimed(t))) /\ SnapshotOf(t, claimed(t)).pick.msg = None
  BY <1>1, <1>2, RowsFit, Empty DEF JobFits, SnapshotOf, Present
<1>4. \A u \in Tasks : /\ row'[u].source = row[u].source
                       /\ Present(u) => row'[u].status # "absent"
                       /\ row'[u].session = row[u].session
                       /\ row'[u].result = row[u].result
  BY <1>2 DEF TypeOK, TableOK, Present
<1>5. \A v \in Workers : \/ job'[v] = job[v]
                         \/ JobFits(job'[v]) /\ job'[v].pick.msg \in {None} \cup 1..Len(log)
  BY <1>3, GotoFits DEF TypeOK
<1>. QED
  BY <1>4, <1>5, RowsFit, QuietStep DEF claimNextPending, serverVars

\* Binding a session the task does not use yet: it is one of its chat, and used by no
\* chatless task.
LEMMA BindKeeps ==
  ASSUME TypeOK, SessionInv, NEW w \in Workers, NEW t \in Tasks, job[w].task = t,
         NEW s \in Sessions, BindSession(w, s), UNCHANGED <<log, inbox>>,
         opened \subseteq opened', s \in opened',
         \A x \in opened : home'[x] = home[x],
         ChatOf(t) # NoChat => home'[s] = ChatOf(t),
         \A u \in Tasks : ~X4Enqueues /\ Uses(s, u) /\ u # t =>
                             ChatOf(u) # NoChat /\ ChatOf(t) # NoChat
  PROVE  SessionInv'
<1>1. \A u \in Tasks : /\ row'[u].source = row[u].source
                       /\ row'[u].status = row[u].status
                       /\ row'[u].result = row[u].result
                       /\ row'[u].session = IF u = t THEN s ELSE row[u].session
  BY DEF BindSession, TypeOK, TableOK, Rows
<1>2. \A v \in Workers : /\ job'[v].task = job[v].task /\ job'[v].pick = job[v].pick
                         /\ job'[v].session = IF v = w THEN s ELSE job[v].session
  <2>1. job' = [job EXCEPT ![w] = [job[w] EXCEPT !.session = s]]
    BY DEF BindSession, Goto
  <2>. job \in [Workers -> Jobs]
    BY DEF TypeOK, WorkersOK
  <2>. SUFFICES ASSUME NEW v \in Workers
                PROVE  /\ job'[v].task = job[v].task /\ job'[v].pick = job[v].pick
                       /\ job'[v].session = IF v = w THEN s ELSE job[v].session
    OBVIOUS
  <2>2. CASE v = w
    BY <2>1, <2>2 DEF Jobs
  <2>3. CASE v # w
    BY <2>1, <2>3
  <2>. QED
    BY <2>2, <2>3
<1>3. AnswersExist' /\ JobsExist'
  BY <1>1, <1>2 DEF SessionInv, AnswersExist, JobsExist, Present
<1>4. ASSUME NEW x \in Sessions, NEW u \in Tasks, Uses(x, u)'
      PROVE  Uses(x, u) \/ (x = s /\ u = t)
  <2>1. CASE RowUses(row[u], x)'
    BY <2>1, <1>1 DEF RowUses, Uses
  <2>2. ASSUME NEW v \in Workers, job'[v].task = u, JobUses(job[v], x)'
        PROVE  Uses(x, u) \/ (x = s /\ u = t)
    BY <2>2, <1>2 DEF JobUses, Uses
  <2>3. CASE PromptUses(x, u)'
    BY <2>3 DEF PromptUses, Uses
  <2>. QED
    BY <1>4, <2>1, <2>2, <2>3 DEF Uses
<1>5. Present(t) /\ \A u \in Tasks : ChatOf(u)' = ChatOf(u) /\ (Present(u) => Present(u)')
  BY <1>1 DEF SessionInv, JobsExist, ChatOf, Present
<1>6. UsersAtHome'
  <2>. SUFFICES ASSUME NEW x \in Sessions, NEW u \in Tasks, Uses(x, u)'
                PROVE  x \in opened' /\ Present(u)' /\ (ChatOf(u)' # NoChat => home'[x] = ChatOf(u)')
    BY DEF UsersAtHome
  <2>1. CASE Uses(x, u)
    BY <2>1, <1>5 DEF SessionInv, UsersAtHome
  <2>2. CASE x = s /\ u = t
    BY <2>2, <1>5
  <2>. QED
    BY <2>1, <2>2, <1>4
<1>7. ChatlessAlone'
  <2>. SUFFICES ASSUME NEW x \in Sessions, NEW u \in Tasks, NEW v \in Tasks,
                       ~X4Enqueues, Uses(x, u)', Uses(x, v)', ChatOf(u)' = NoChat
                PROVE  v = u
    BY DEF ChatlessAlone
  <2>1. (Uses(x, u) \/ (x = s /\ u = t)) /\ (Uses(x, v) \/ (x = s /\ v = t)) /\ ChatOf(u) = NoChat
    BY <1>4, <1>5
  <2>. QED
    BY <2>1 DEF SessionInv, ChatlessAlone
<1>. QED
  BY <1>3, <1>6, <1>7 DEF SessionInv

\* A session found for reuse is the job's, or that of a row of the same source, which
\* then names a chat.
LEMMA ReuseKeeps ==
  ASSUME TypeOK, SessionInv, NEW w \in Workers, ReuseSession(w)
  PROVE  SessionInv'
<1>. DEFINE t == job[w].task
            s == reusedSessionId(w)
<1>1. t \in Tasks /\ s # None /\ BindSession(w, s) /\ UNCHANGED <<log, inbox, opened, home>>
  BY JobType DEF ReuseSession, Holds, At, Unassigned, serverVars
<1>2. PICK u \in Tasks : /\ s \in Sessions /\ Uses(s, u) /\ ChatOf(u) = ChatOf(t)
                         /\ u = t \/ ChatOf(t) # NoChat
  <2>1. CASE job[w].session # None
    <3>1. s = job[w].session
      BY <2>1 DEF reusedSessionId
    <3>2. s \in Sessions /\ Uses(s, t)
      BY <1>1, <3>1, JobsFit DEF JobFits, SessionsOf
    <3>. QED
      BY <1>1, <3>2
  <2>2. CASE job[w].session = None
    <3>1. ChatOf(t) # NoChat /\ s = findLatestSessionIdBySource(t)
      BY <1>1, <2>2 DEF reusedSessionId, ChatOf
    <3>2. HasLast(WithSessionOfSource(t)) /\ s = row[Last(WithSessionOfSource(t))].session
      BY <1>1, <3>1 DEF findLatestSessionIdBySource
    <3>3. Last(WithSessionOfSource(t)) \in WithSessionOfSource(t)
      BY <3>2 DEF HasLast, Last
    <3>4. PICK u \in Tasks : row[u].source = row[t].source /\ s = row[u].session
      BY <3>2, <3>3 DEF WithSessionOfSource
    <3>5. s \in Sessions /\ Uses(s, u)
      BY <1>1, <3>4, RowsFit DEF SessionsOf
    <3>. QED
      BY <3>1, <3>4, <3>5 DEF ChatOf
  <2>. QED
    BY <2>1, <2>2
<1>. HIDE DEF s
<1>3. s \in opened /\ (ChatOf(t) # NoChat => home[s] = ChatOf(t))
  BY <1>2 DEF SessionInv, UsersAtHome
<1>4. \A v \in Tasks : ~X4Enqueues /\ Uses(s, v) /\ v # t => ChatOf(v) # NoChat /\ ChatOf(t) # NoChat
  BY <1>2 DEF SessionInv, ChatlessAlone
<1>. QED
  BY <1>1, <1>2, <1>3, <1>4, BindKeeps

\* A session that is created is used by nobody yet.
LEMMA CreateKeeps ==
  ASSUME TypeOK, SessionInv, NEW w \in Workers, createSession(w)
  PROVE  SessionInv'
<1>. DEFINE t == job[w].task
<1>. PICK s \in Sessions : /\ First(s, Sessions \ opened)
                           /\ opened' = opened \cup {s}
                           /\ home' = [home EXCEPT ![s] = ChatOf(t)]
                           /\ BindSession(w, s)
  BY DEF createSession, ChatOf
<1>1. t \in Tasks /\ UNCHANGED <<log, inbox>>
  BY JobType DEF createSession, At, Unassigned
<1>2. s \notin opened /\ home'[s] = ChatOf(t) /\ \A x \in opened : home'[x] = home[x]
  BY DEF First, TypeOK, ServerOK
<1>3. \A u \in Tasks : ~Uses(s, u)
  BY <1>2 DEF SessionInv, UsersAtHome
<1>. QED
  BY <1>1, <1>2, <1>3, BindKeeps

\* A prompt is sent to the session of its task.
LEMMA PromptKeeps ==
  ASSUME TypeOK, SessionInv, NEW w \in Workers, PromptAccepted(w)
  PROVE  SessionInv'
<1>. DEFINE j == job[w]
<1>1. /\ j.task \in Tasks /\ UNCHANGED <<row, log, opened, home>>
      /\ inbox' = [inbox EXCEPT ![j.session] = Append(@, j.task)]
      /\ \A v \in Workers : job'[v] = job[v]
  BY JobType DEF PromptAccepted, Goto, At, Unassigned, TypeOK, WorkersOK
<1>2. AnswersExist' /\ JobsExist'
  BY <1>1 DEF SessionInv, AnswersExist, JobsExist, Present
<1>3. ASSUME NEW s \in Sessions, NEW t \in Tasks, Uses(s, t)' PROVE Uses(s, t)
  <2>1. CASE RowUses(row[t], s)'
    BY <2>1, <1>1 DEF RowUses, Uses
  <2>2. ASSUME NEW v \in Workers, job'[v].task = t, JobUses(job[v], s)' PROVE Uses(s, t)
    BY <2>2, <1>1 DEF JobUses, Uses
  <2>3. CASE PromptUses(s, t)'
    <3>1. inbox[s] \in Seq(Tasks) /\ inbox \in [Sessions -> Seq(Tasks)]
      BY DEF TypeOK, ServerOK
    <3>2. CASE s = j.session
      <4>1. inbox'[s] = Append(inbox[s], j.task) /\ Uses(s, j.task)
        BY <1>1, <3>1, <3>2 DEF Uses, JobUses
      <4>2. \A n \in 1..Len(inbox'[s]) :
              inbox'[s][n] = j.task \/ \E m \in 1..Len(inbox[s]) : inbox[s][m] = inbox'[s][n]
        BY <4>1, <3>1, <1>1, AppendKeeps
      <4>. QED
        BY <2>3, <4>1, <4>2, <1>1 DEF PromptUses, Uses
    <3>3. CASE s # j.session
      <4>1. inbox'[s] = inbox[s]
        BY <1>1, <3>1, <3>3
      <4>. QED
        BY <2>3, <4>1, <1>1 DEF PromptUses, Uses
    <3>. QED
      BY <3>2, <3>3
  <2>. QED
    BY <1>3, <2>1, <2>2, <2>3 DEF Uses
<1>. QED
  BY <1>1, <1>2, <1>3, UsesStay DEF Present

LEMMA DispatchKeeps ==
  ASSUME TypeOK, SessionInv, NEW w \in Workers, Dispatch(w)
  PROVE  SessionInv'
<1>. /\ job[w] \in Jobs /\ JobFits(job[w])
     /\ pc[w] \notin Unassigned => job[w].task \in Tasks
     /\ job[w].pick.msg \in {None} \cup 1..Len(log)
  BY JobType, JobsFit DEF SessionInv, AnswersExist
<1>1. CASE claimNextPending(w)
  BY <1>1, ClaimKeeps
<1>2. CASE ClaimNothing(w)
  BY <1>2, PauseKeeps, NoJobFits DEF ClaimNothing
<1>3. CASE DispatchReport(w)
  BY <1>3, CompletedKeeps DEF DispatchReport, Holds, At, Unassigned
<1>4. CASE DispatchEq1(w)
  BY <1>4, CompletedKeeps, FailureKeeps DEF DispatchEq1, Holds, At, Unassigned
<1>5. CASE ReuseSession(w)
  BY <1>5, ReuseKeeps
<1>6. CASE AskSession(w)
  BY <1>6, PauseKeeps DEF AskSession
<1>7. CASE createSession(w)
  BY <1>7, CreateKeeps
<1>8. CASE RouteAgent(w)
  <2>1. \A t \in Tasks : /\ row'[t].source = row[t].source
                         /\ row'[t].status = row[t].status
                         /\ row'[t].session = row[t].session
                         /\ row'[t].result = row[t].result
    BY <1>8 DEF RouteAgent, TypeOK, TableOK, Rows
  <2>2. \A v \in Workers : \/ job'[v] = job[v]
                           \/ JobFits(job'[v]) /\ job'[v].pick.msg \in {None} \cup 1..Len(log)
    BY <1>8, GotoFits DEF RouteAgent, TypeOK
  <2>. QED
    BY <1>8, <2>1, <2>2, RowsFit, QuietStep DEF RouteAgent, serverVars, Present
<1>9. CASE PromptAccepted(w)
  BY <1>9, PromptKeeps
<1>10. CASE PromptReturns(w)
  BY <1>10, PauseKeeps, NoJobFits DEF PromptReturns
<1>11. CASE DispatchFails(w)
  BY <1>11, FailureKeeps DEF DispatchFails, Holds, At, Unassigned
<1>. QED
  BY <1>1, <1>2, <1>3, <1>4, <1>5, <1>6, <1>7, <1>8, <1>9, <1>10, <1>11 DEF Dispatch

LEMMA CycleEndKeeps ==
  ASSUME TypeOK, SessionInv, NEW w \in Workers,
         CycleReturns(w) \/ MetricFails(w) \/ CycleThrows(w)
  PROVE  SessionInv'
<1>. /\ job[w] \in Jobs /\ JobFits(job[w])
     /\ pc[w] \notin Unassigned => job[w].task \in Tasks
     /\ job[w].pick.msg \in {None} \cup 1..Len(log)
  BY JobType, JobsFit DEF SessionInv, AnswersExist
<1>1. CASE CycleReturns(w)
  <2>1. \A v \in Workers : \/ job'[v] = job[v]
                           \/ JobFits(job'[v]) /\ job'[v].pick.msg \in {None} \cup 1..Len(log)
    BY <1>1, GotoFits, NoJobFits DEF CycleReturns, TypeOK
  <2>. QED
    BY <1>1, <2>1, RowsFit, QuietStep DEF CycleReturns, serverVars, Present
<1>2. CASE MetricFails(w)
  BY <1>2, PauseKeeps, NoJobFits, FailureKeeps DEF MetricFails, At, Unassigned
<1>3. CASE CycleThrows(w)
  BY <1>3, PauseKeeps, NoJobFits DEF CycleThrows
<1>. QED
  BY <1>1, <1>2, <1>3

-----------------------------------------------------------------------------
(* Producers, processes, the server. *)

\* An inserted row brings no answer; X4 names the chat of a row bound to the session, or
\* none.
LEMMA InsertKeeps ==
  ASSUME TypeOK, SessionInv, NEW t \in Tasks, NEW kind, NEW source, NEW s,
         Insert(t, kind, source, s),
         \/ s = None
         \/ X4Enqueues /\ s \in opened /\ (source.chat # NoChat => home[s] = source.chat),
         UNCHANGED <<opened, home, log, inbox, job>>
  PROVE  SessionInv'
<1>1. /\ ~Present(t) /\ row'[t].status = "pending" /\ row'[t].source = source
      /\ row'[t].session = s /\ row'[t].result = NoResult
      /\ \A u \in Tasks \ {t} : row'[u] = row[u]
  BY DEF Insert, First, WithStatus, NoRow, Present, TypeOK, TableOK
<1>2. AnswersExist' /\ JobsExist'
  BY <1>1, Empty DEF SessionInv, AnswersExist, JobsExist, Present
<1>3. ASSUME NEW x \in Sessions, NEW u \in Tasks, Uses(x, u)'
      PROVE  IF u = t THEN x = s ELSE Uses(x, u)
  <2>1. ~Uses(x, t)
    BY <1>1 DEF SessionInv, UsersAtHome
  <2>2. CASE RowUses(row[u], x)'
    <3>1. CASE u = t
      BY <2>2, <3>1, <1>1, Empty DEF RowUses, None
    <3>2. CASE u # t
      BY <2>2, <3>2, <1>1 DEF RowUses, Uses
    <3>. QED
      BY <3>1, <3>2
  <2>3. ASSUME NEW v \in Workers, job'[v].task = u, JobUses(job[v], x)' PROVE Uses(x, u)
    BY <2>3 DEF JobUses, Uses
  <2>4. ASSUME PromptUses(x, u)' PROVE Uses(x, u)
    BY <2>4 DEF PromptUses, Uses
  <2>5. RowUses(row[u], x)' \/ Uses(x, u)
    BY <1>3, <2>3, <2>4 DEF Uses
  <2>. QED
    BY <2>1, <2>2, <2>5
<1>4. /\ ChatOf(t)' = source.chat /\ Present(t)'
      /\ \A u \in Tasks \ {t} : ChatOf(u)' = ChatOf(u) /\ Present(u)' = Present(u)
  BY <1>1 DEF ChatOf, Present
<1>5. UsersAtHome'
  <2>. SUFFICES ASSUME NEW x \in Sessions, NEW u \in Tasks, Uses(x, u)'
                PROVE  x \in opened /\ Present(u)' /\ (ChatOf(u)' # NoChat => home[x] = ChatOf(u)')
    BY DEF UsersAtHome
  <2>1. CASE u = t
    BY <2>1, <1>3, <1>4, Nulls
  <2>2. CASE u # t
    BY <2>2, <1>3, <1>4 DEF SessionInv, UsersAtHome
  <2>. QED
    BY <2>1, <2>2
<1>6. ChatlessAlone'
  <2>. SUFFICES ASSUME NEW x \in Sessions, NEW u \in Tasks, NEW v \in Tasks,
                       ~X4Enqueues, Uses(x, u)', Uses(x, v)', ChatOf(u)' = NoChat
                PROVE  v = u
    BY DEF ChatlessAlone
  <2>1. u # t /\ v # t
    BY <1>3, Nulls
  <2>2. Uses(x, u) /\ Uses(x, v) /\ ChatOf(u) = NoChat
    BY <2>1, <1>3, <1>4
  <2>. QED
    BY <2>2 DEF SessionInv, ChatlessAlone
<1>. QED
  BY <1>2, <1>5, <1>6 DEF SessionInv

LEMMA ResolvedChat ==
  ASSUME TypeOK, SessionInv, NEW s \in opened
  PROVE  resolvedChat(s) # NoChat => home[s] = resolvedChat(s)
<1>. DEFINE S == {u \in Tasks : row[u].session = s}
<1>1. CASE HasLast(S)
  <2>1. Last(S) \in S
    BY <1>1 DEF HasLast, Last
  <2>2. PICK u \in Tasks : u = Last(S) /\ row[u].session = s
    BY <2>1
  <2>3. s \in Sessions /\ Uses(s, u)
    BY <2>2 DEF Uses, RowUses, TypeOK, ServerOK
  <2>4. resolvedChat(s) = ChatOf(u)
    BY <1>1, <2>2 DEF resolvedChat, ChatOf
  <2>. QED
    BY <2>3, <2>4 DEF SessionInv, UsersAtHome
<1>2. CASE ~HasLast(S)
  BY <1>2 DEF resolvedChat
<1>. QED
  BY <1>1, <1>2

LEMMA ProducersKeep ==
  ASSUME TypeOK, SessionInv, NEW t \in Tasks,
         createTask(t) \/ createTaskInSession(t) \/ RetryDue(t)
  PROVE  SessionInv'
<1>. UNCHANGED <<opened, home, log, inbox, job>>
  BY DEF createTask, createTaskInSession, RetryDue, serverVars, workerVars
<1>1. CASE createTask(t)
  BY <1>1, InsertKeeps DEF createTask
<1>2. CASE createTaskInSession(t)
  <2>. PICK s \in opened, kind \in Kinds \ {"eq1"} : Insert(t, kind, X4Source(resolvedChat(s)), s)
    BY <1>2 DEF createTaskInSession
  <2>1. X4Enqueues /\ X4Source(resolvedChat(s)).chat = resolvedChat(s)
    BY <1>2 DEF createTaskInSession, X4Source
  <2>. QED
    BY <2>1, ResolvedChat, InsertKeeps
<1>3. CASE RetryDue(t)
  <2>1. \A u \in Tasks : /\ row'[u].source = row[u].source
                         /\ row'[u].status = row[u].status
                         /\ row'[u].session = row[u].session
                         /\ row'[u].result = row[u].result
    BY <1>3 DEF RetryDue, TypeOK, TableOK, Rows
  <2>. QED
    BY <2>1, RowsFit, QuietStep DEF Present
<1>. QED
  BY <1>1, <1>2, <1>3

LEMMA StartKeeps ==
  ASSUME TypeOK, SessionInv, NEW w \in Workers, Start(w)
  PROVE  SessionInv'
<1>1. CASE Boot(w) \/ Recovered(w)
  BY <1>1, PauseKeeps, NoJobFits DEF Boot, Recovered
<1>2. CASE recoverRunningTasks(w)
  <2>1. PICK t \in job[w].stale : Goto(w, "recovering", [job[w] EXCEPT !.stale = @ \ {t}])
    BY <1>2 DEF recoverRunningTasks
  <2>2. PICK k : k = [job[w] EXCEPT !.stale = @ \ {t}]
    OBVIOUS
  <2>3. k.task = job[w].task /\ k.session = job[w].session /\ k.pick = job[w].pick
    BY <2>2, JobType DEF Jobs
  <2>4. JobFits(k) /\ k.pick.msg \in {None} \cup 1..Len(log)
    BY <2>3, JobsFit DEF JobFits, SessionInv, AnswersExist
  <2>5. \A v \in Workers : \/ job'[v] = job[v]
                           \/ JobFits(job'[v]) /\ job'[v].pick.msg \in {None} \cup 1..Len(log)
    BY <2>1, <2>2, <2>4, GotoFits DEF TypeOK
  <2>6. UNCHANGED <<opened, home, log, inbox>>
    BY <1>2 DEF recoverRunningTasks, serverVars
  <2>. QED
    BY <1>2, <2>5, <2>6, RecoveredRow, RowsFit, QuietStep DEF Present
<1>. QED
  BY <1>1, <1>2 DEF Start

LEMMA ProcessKeeps ==
  ASSUME TypeOK, SessionInv, NEW w \in Workers,
         Deliver(w) \/ Crash(w) \/ bindEventMessageToRunningTask(w)
  PROVE  SessionInv'
<1>1. UNCHANGED <<opened, home, log, inbox>>
  BY DEF Deliver, Crash, bindEventMessageToRunningTask, serverVars
<1>2. \A v \in Workers : \/ job'[v] = job[v]
                         \/ JobFits(job'[v]) /\ job'[v].pick.msg \in {None} \cup 1..Len(log)
  BY GotoFits, NoJobFits
  DEF Deliver, Crash, bindEventMessageToRunningTask, workerVars, TypeOK
<1>3. \A t \in Tasks : /\ row'[t].source = row[t].source
                       /\ row'[t].status = row[t].status
                       /\ row'[t].session = row[t].session
                       /\ row'[t].result = row[t].result
  <2>1. CASE bindEventMessageToRunningTask(w)
    BY <2>1 DEF bindEventMessageToRunningTask, TypeOK, TableOK, Rows
  <2>. QED
    BY <2>1 DEF Deliver, Crash, tableVars
<1>. QED
  BY <1>1, <1>2, <1>3, RowsFit, QuietStep DEF Present

\* What the server writes answers a prompt that was sent to the session.
LEMMA ServeKeeps ==
  ASSUME TypeOK, SessionInv, NEW s \in Sessions, Serve(s),
         UNCHANGED <<row, job, opened, home>>
  PROVE  SessionInv'
<1>. DEFINE M == [session : Sessions, task : Tasks]
<1>. PICK n \in 1..Len(inbox[s]) :
       /\ log' = Append(log, [session |-> s, task |-> inbox[s][n]])
       /\ inbox' = [inbox EXCEPT ![s] = SubSeq(@, n + 1, Len(@))]
  BY DEF Serve
<1>1. inbox \in [Sessions -> Seq(Tasks)] /\ inbox[s] \in Seq(Tasks) /\ log \in Seq(M)
  BY DEF TypeOK, ServerOK
<1>2. inbox[s][n] \in Tasks /\ Uses(s, inbox[s][n])
  BY <1>1, InSeq DEF Uses, PromptUses
<1>3. /\ Len(log') = Len(log) + 1 /\ log'[Len(log) + 1] = [session |-> s, task |-> inbox[s][n]]
      /\ \A i \in 1..Len(log) : log'[i] = log[i]
  <2>1. [session |-> s, task |-> inbox[s][n]] \in M
    BY <1>2
  <2>. HIDE DEF M
  <2>. QED
    BY <1>1, <2>1, AppendKeeps
<1>4. Len(log) \in Nat /\ 1..Len(log') = 1..Len(log) \cup {Len(log) + 1}
  BY <1>1, <1>3
<1>5. AnswersExist' /\ JobsExist'
  BY <1>4 DEF SessionInv, AnswersExist, JobsExist, Present
<1>6. \A x \in Sessions : \A m \in 1..Len(inbox'[x]) :
        \E k \in 1..Len(inbox[x]) : inbox[x][k] = inbox'[x][m]
  <2>. SUFFICES ASSUME NEW x \in Sessions, NEW m \in 1..Len(inbox'[x])
                PROVE  \E k \in 1..Len(inbox[x]) : inbox[x][k] = inbox'[x][m]
    OBVIOUS
  <2>1. CASE x = s
    <3>1. inbox'[x] = SubSeq(inbox[s], n + 1, Len(inbox[s]))
      BY <1>1, <2>1
    <3>2. n + m \in 1..Len(inbox[s]) /\ inbox'[x][m] = inbox[s][n + m]
      BY <1>1, <3>1
    <3>. QED
      BY <2>1, <3>2
  <2>2. CASE x # s
    BY <1>1, <2>2
  <2>. QED
    BY <2>1, <2>2
<1>7. ASSUME NEW x \in Sessions, NEW t \in Tasks, Uses(x, t)' PROVE Uses(x, t)
  <2>1. CASE RowUses(row[t], x)'
    <3>1. row[t].result.msg # Len(log) + 1
      BY <1>4 DEF SessionInv, AnswersExist, None
    <3>. QED
      BY <2>1, <3>1, <1>3, <1>4 DEF RowUses, Uses
  <2>2. ASSUME NEW v \in Workers, job'[v].task = t, JobUses(job[v], x)' PROVE Uses(x, t)
    <3>1. job[v].pick.msg # Len(log) + 1
      BY <1>4 DEF SessionInv, AnswersExist, None
    <3>. QED
      BY <2>2, <3>1, <1>3, <1>4 DEF JobUses, Uses
  <2>3. CASE PromptUses(x, t)'
    <3>1. CASE \E m \in 1..Len(inbox'[x]) : inbox'[x][m] = t
      BY <3>1, <1>6 DEF PromptUses, Uses
    <3>2. CASE \E i \in 1..Len(log') : log'[i].session = x /\ log'[i].task = t
      <4>. PICK i \in 1..Len(log') : log'[i].session = x /\ log'[i].task = t
        BY <3>2
      <4>1. CASE i \in 1..Len(log)
        BY <4>1, <1>3 DEF PromptUses, Uses
      <4>2. CASE i = Len(log) + 1
        BY <4>2, <1>2, <1>3
      <4>. QED
        BY <4>1, <4>2, <1>4
    <3>. QED
      BY <2>3, <3>1, <3>2 DEF PromptUses
  <2>4. \/ RowUses(row[t], x)' \/ PromptUses(x, t)'
        \/ \E v \in Workers : job'[v].task = t /\ JobUses(job[v], x)'
    BY <1>7 DEF Uses
  <2>. QED
    BY <2>1, <2>2, <2>3, <2>4
<1>. QED
  BY <1>5, <1>7, UsesStay DEF Present

LEMMA ServerKeeps ==
  ASSUME TypeOK, SessionInv, NEW s \in Sessions, ServerBegins(s) \/ ServerFinishes(s)
  PROVE  SessionInv'
<1>1. UNCHANGED <<row, job, opened, home>>
  BY DEF ServerBegins, ServerFinishes, workerVars
<1>2. CASE Serve(s)
  BY <1>1, <1>2, ServeKeeps
<1>3. CASE UNCHANGED <<log, inbox>>
  BY <1>1, <1>3, RowsFit, QuietStep DEF Present
<1>. QED
  BY <1>2, <1>3 DEF ServerBegins, ServerFinishes

LEMMA InitSessions == Init => SessionInv
<1>. SUFFICES ASSUME Init PROVE SessionInv
  OBVIOUS
<1>1. AnswersExist /\ JobsExist
  BY Nulls DEF Init, AnswersExist, JobsExist, NoRow, NoJob, NoResult
<1>2. ASSUME NEW s \in Sessions, NEW t \in Tasks PROVE ~Uses(s, t)
  <2>1. 1..Len(log) = {} /\ 1..Len(inbox[s]) = {}
    BY DEF Init
  <2>2. row[t].session # s /\ \A w \in Workers : job[w].task # t
    BY Nulls DEF Init, NoRow, NoJob
  <2>. QED
    BY <2>1, <2>2 DEF Uses, RowUses, PromptUses
<1>. QED
  BY <1>1, <1>2 DEF SessionInv, UsersAtHome, ChatlessAlone

LEMMA NextSessions == TypeOK /\ SessionInv /\ [Next]_vars => SessionInv'
<1>1. ASSUME TypeOK, SessionInv, Next PROVE SessionInv'
  BY <1>1, ProducersKeep, FinalizeKeeps, DispatchKeeps, RecordKeeps, CycleEndKeeps, StartKeeps,
     ProcessKeeps, ServerKeeps
  DEF Next, processCycle
<1>2. ASSUME TypeOK, SessionInv, UNCHANGED vars PROVE SessionInv'
  BY <1>2, RowsFit, QuietStep DEF vars, Present
<1>. QED
  BY <1>1, <1>2

-----------------------------------------------------------------------------
\* Whatever is reused by source, inherited from interactions or reset, and whatever is
\* retried, recovered or lost, a session is used by tasks of the chat it was opened for;
\* and a task of a channel without a chat has it for itself, unless X4 adds rows to it.
THEOREM SessionsAreKept == Spec => []SessionInv
BY TypeCorrect, InitSessions, NextSessions, PTL DEF Spec

\* So no chat is given what was written in a session of another.
THEOREM ChatsAreIsolated == Spec => []ChatIsolation
<1>1. TypeOK /\ SessionInv => ChatIsolation
  <2>. SUFFICES ASSUME TypeOK, SessionInv, NEW t \in Tasks, row[t].result.msg # None,
                       ChatOf(t) # NoChat
                PROVE  home[log[row[t].result.msg].session] = ChatOf(t)
    BY DEF ChatIsolation, ChatOf
  <2>1. row[t].result.msg \in 1..Len(log) /\ Uses(log[row[t].result.msg].session, t)
    BY RowsFit DEF AnswersTo
  <2>. QED
    BY <2>1, LogType DEF SessionInv, UsersAtHome
<1>. QED
  BY <1>1, TypeCorrect, SessionsAreKept, PTL

\* And a chatless task completes with what was written in answer to its own prompt, as
\* long as X4 adds no rows to its session.
THEOREM OwnPromptsAnswered == Spec => [](~X4Enqueues => AnswersOwnPrompt)
<1>1. TypeOK /\ SessionInv => (~X4Enqueues => AnswersOwnPrompt)
  <2>. SUFFICES ASSUME TypeOK, SessionInv, ~X4Enqueues, NEW t \in Tasks,
                       row[t].result.msg # None, ChatOf(t) = NoChat
                PROVE  log[row[t].result.msg].task = t
    BY DEF AnswersOwnPrompt, ChatOf
  <2>. DEFINE i == row[t].result.msg
  <2>1. i \in 1..Len(log) /\ Uses(log[i].session, t)
    BY RowsFit DEF AnswersTo
  <2>2. Uses(log[i].session, log[i].task)
    BY <2>1 DEF Uses, PromptUses
  <2>. QED
    BY <2>1, <2>2, LogType DEF SessionInv, ChatlessAlone
<1>. QED
  BY <1>1, TypeCorrect, SessionsAreKept, PTL

-----------------------------------------------------------------------------
(* What becomes of a row.                                                *)

\* Worker w is dispatching the attempt that is counted on the row, and where it is past its
\* session the row knows one.
Routed == {"route", "prompt"}

Live(w, t) ==
  /\ Holding(w, t) /\ job[w].attempt = row[t].attempts
  /\ pc[w] \in Routed => row[t].session # None

\* The server has accepted a prompt of this attempt, and the row knows its session.
Polled(t) == row[t].session # None /\ prompts[t][row[t].attempts] > 0

\* What worker w does next ends the row, or hands it on to somebody who will.
Keeps(w, t) ==
  \/ At(w, "down")
  \/ At(w, "recovering") /\ t \in job[w].stale
  \/ At(w, "failing") /\ job[w].task = t
  \/ Live(w, t)

Owned(t) == Polled(t) \/ \E w \in Workers : Keeps(w, t)

Claimed == {"pending", "running"}

\* RunningIsOwned would let a worker with an old snapshot stand for the row; such a
\* worker leaves without a trace, so the owner must hold the attempt that counts.
OwnedInv ==
  /\ \A t \in Tasks : row[t].status \in Claimed => row[t].attempts \in 0..MaxRetries
  /\ ~StoreMayFail => \A t \in WithStatus("running") : Owned(t)

-----------------------------------------------------------------------------
(* Steps that neither claim a row nor are given a prompt.                  *)

\* A row may be left as it was, as far as its owner goes.
RowStays(t) ==
  /\ row'[t].status = row[t].status \/ row'[t].status \in Terminal
  /\ row'[t].attempts = row[t].attempts
  /\ row[t].session # None => row'[t].session # None

\* Or it stops running.
RowEnds(t) ==
  /\ row'[t].status # "running"
  /\ row'[t].status = "pending" => row'[t].attempts \in 0..MaxRetries

\* A worker keeps what it kept, unless that is not running any more.
WorkerStays(w) ==
  \A t \in Tasks : Keeps(w, t) /\ RowStays(t) /\ row'[t].status = "running" => Keeps(w, t)'

LEMMA SteadyStep ==
  ASSUME OwnedInv, prompts' = prompts,
         \A t \in Tasks : RowStays(t) \/ RowEnds(t),
         StoreMayFail \/ \A w \in Workers : WorkerStays(w)
  PROVE  OwnedInv'
<1>1. ASSUME NEW t \in Tasks, row'[t].status \in Claimed PROVE row'[t].attempts \in 0..MaxRetries
  BY <1>1 DEF OwnedInv, Claimed, RowStays, RowEnds, Terminal
<1>2. ASSUME ~StoreMayFail, NEW t \in WithStatus("running")' PROVE Owned(t)'
  <2>1. t \in Tasks /\ RowStays(t) /\ row'[t].status = "running"
    BY <1>2 DEF WithStatus, RowEnds
  <2>2. Owned(t)
    BY <1>2, <2>1 DEF OwnedInv, WithStatus, RowStays, Terminal
  <2>3. CASE Polled(t)
    BY <2>1, <2>3 DEF Owned, Polled, RowStays
  <2>4. ASSUME NEW w \in Workers, Keeps(w, t) PROVE Owned(t)'
    BY <1>2, <2>1, <2>4 DEF Owned, WorkerStays
  <2>. QED
    BY <2>2, <2>3, <2>4 DEF Owned
<1>. QED
  BY <1>1, <1>2 DEF OwnedInv

\* A worker whose label and snapshot stay keeps what it kept.
LEMMA SameWorker ==
  ASSUME NEW w \in Workers, pc'[w] = pc[w], job'[w] = job[w]
  PROVE  WorkerStays(w)
BY DEF WorkerStays, Keeps, At, Live, Holding, RowStays

\* Steps that only rewrite what does not matter here.
LEMMA SameStep ==
  ASSUME OwnedInv, prompts' = prompts, UNCHANGED workerVars,
         \A t \in Tasks : RowStays(t) \/ RowEnds(t)
  PROVE  OwnedInv'
<1>1. \A w \in Workers : WorkerStays(w)
  BY SameWorker DEF workerVars
<1>. QED
  BY <1>1, SteadyStep

\* The others stay while one worker moves.
LEMMA GotoStays ==
  ASSUME WorkersOK, NEW w \in Workers, NEW label, NEW j, Goto(w, label, j)
  PROVE  /\ pc'[w] = label /\ job'[w] = j
         /\ \A v \in Workers \ {w} : WorkerStays(v) /\ pc'[v] = pc[v] /\ job'[v] = job[v]
<1>1. /\ pc'[w] = label /\ job'[w] = j
      /\ \A v \in Workers \ {w} : pc'[v] = pc[v] /\ job'[v] = job[v]
  BY DEF WorkersOK, Goto
<1>. QED
  BY <1>1, SameWorker

\* One worker moves, and leaves nothing that it kept.
LEMMA MoveOwned ==
  ASSUME TypeOK, OwnedInv, NEW w \in Workers, NEW label, NEW j, Goto(w, label, j),
         prompts' = prompts, \A t \in Tasks : RowStays(t) \/ RowEnds(t),
         StoreMayFail \/ WorkerStays(w)
  PROVE  OwnedInv'
<1>1. \A v \in Workers \ {w} : WorkerStays(v)
  BY GotoStays DEF TypeOK
<1>. QED
  BY <1>1, SteadyStep

\* The labels at which a worker may keep a row.
Keeping == {"down", "recovering", "failing"} \cup Dispatching

LEMMA PauseOwned ==
  ASSUME TypeOK, OwnedInv, NEW w \in Workers, NEW label, NEW j, Pause(w, label, j),
         \/ pc[w] \notin Keeping
         \/ StoreMayFail
         \/ label = "create" /\ pc[w] \in Dispatching /\ j = job[w]
  PROVE  OwnedInv'
<1>1. /\ pc'[w] = label /\ job'[w] = j /\ row' = row /\ prompts' = prompts /\ Goto(w, label, j)
  BY GotoStays DEF Pause, serverVars, TypeOK
<1>2. StoreMayFail \/ WorkerStays(w)
  BY <1>1 DEF WorkerStays, Keeps, Keeping, At, Live, Holding, Dispatching, Routed
<1>3. \A t \in Tasks : RowStays(t)
  BY <1>1 DEF RowStays
<1>. QED
  BY <1>1, <1>2, <1>3, MoveOwned

\* A worker about to record a failure keeps the row that it was dispatching.
LEMMA FailureOwned ==
  ASSUME TypeOK, OwnedInv, NEW w \in Workers, NEW j \in Jobs, j.task \in Tasks,
         pc[w] \notin {"down", "recovering", "failing"},
         pc[w] \in Dispatching => j = job[w],
         NEW reset \in BOOLEAN, NEW after \in {"idle", "dispatch"},
         NEW thrown \in {"idle", "caught"},
         handleFailure(w, j, reset, after, thrown)
  PROVE  OwnedInv'
<1>. PICK k : k = Failed(j, reset, after, thrown)
  OBVIOUS
<1>1. k.task = j.task
  BY FailedJob
<1>2. /\ pc'[w] = "failing" /\ job'[w] = k /\ row' = row /\ prompts' = prompts
      /\ Goto(w, "failing", k)
  BY GotoStays DEF handleFailure, Pause, serverVars, TypeOK
<1>3. WorkerStays(w)
  BY <1>1, <1>2 DEF WorkerStays, Keeps, At, Live, Holding
<1>4. \A t \in Tasks : RowStays(t)
  BY <1>2 DEF RowStays
<1>. QED
  BY <1>2, <1>3, <1>4, MoveOwned

LEMMA RecordedRow ==
  ASSUME TypeOK, NEW w \in Workers, RecordFailure(w)
  PROVE  LET t == job[w].task
             n == job[w].failure.attempts
         IN /\ t \in Tasks /\ n \in Nat
            /\ row'[t].status = IF shouldRetry(t, n) THEN "pending" ELSE "failed"
            /\ row'[t].attempts = n
            /\ \A u \in Tasks \ {t} : row'[u] = row[u]
            /\ UNCHANGED <<prompts, told>>
<1>. DEFINE j == job[w]
<1>1. /\ j \in Jobs /\ j.task \in Tasks /\ j.failure.attempts \in Nat
      /\ row' = [row EXCEPT ![j.task] = RowAfterFailure(@, j)]
      /\ UNCHANGED <<prompts, told>>
  BY RecordGoes DEF Failures, serverVars
<1>. QED
  BY <1>1 DEF RowAfterFailure, TypeOK, TableOK, Rows

\* It ends the row when it does.
LEMMA RecordOwned ==
  ASSUME TypeOK, OwnedInv, NEW w \in Workers, RecordFailure(w)
  PROVE  OwnedInv'
<1>. DEFINE j == job[w]
            n == j.failure.attempts
<1>1. j.task \in Tasks /\ n \in Nat /\ prompts' = prompts
  BY RecordedRow
<1>2. /\ row'[j.task].status = IF shouldRetry(j.task, n) THEN "pending" ELSE "failed"
      /\ row'[j.task].attempts = n
      /\ \A t \in Tasks \ {j.task} : row'[t] = row[t]
  BY RecordedRow
<1>3. shouldRetry(j.task, n) => n \in 0..MaxRetries
  BY <1>1, QueueAssumption DEF shouldRetry
<1>4. RowEnds(j.task)
  BY <1>2, <1>3 DEF RowEnds
<1>5. \A t \in Tasks : RowStays(t) \/ RowEnds(t)
  BY <1>2, <1>4 DEF RowStays
<1>6. WorkerStays(w)
  <2>1. pc[w] = "failing"
    BY DEF RecordFailure, At
  <2>2. \A t \in Tasks : Keeps(w, t) => t = j.task
    BY <2>1 DEF Keeps, At, Live, Holding, Dispatching
  <2>. QED
    BY <1>2, <2>2 DEF WorkerStays
<1>7. PICK label, k : Goto(w, label, k)
  BY RecordGoes
<1>. QED
  BY <1>1, <1>5, <1>6, <1>7, MoveOwned

LEMMA CompletedOwned ==
  ASSUME TypeOK, OwnedInv, NEW w \in Workers, job[w].task \in Tasks,
         pc[w] \notin {"down", "recovering", "failing"},
         NEW r, MarkCompleted(w, r)
  PROVE  OwnedInv'
<1>1. /\ row'[job[w].task].status = "completed" /\ prompts' = prompts
      /\ \A t \in Tasks : /\ row'[t].status \in {row[t].status, "completed"}
                          /\ row'[t].attempts = row[t].attempts
                          /\ row'[t].session = row[t].session
  BY DEF MarkCompleted, serverVars, TypeOK, TableOK, Rows
<1>2. \A t \in Tasks : RowStays(t)
  BY <1>1 DEF RowStays, Terminal
<1>3. WorkerStays(w)
  BY <1>1 DEF WorkerStays, Keeps, At, Live, Holding
<1>4. Goto(w, "log", job[w])
  BY DEF MarkCompleted
<1>. QED
  BY <1>1, <1>2, <1>3, <1>4, MoveOwned

\* A worker binds its session to the row before it goes on.
LEMMA BindOwned ==
  ASSUME TypeOK, OwnedInv, NEW w \in Workers, job[w].task \in Tasks, NEW s, s # None,
         pc[w] \in Dispatching, BindSession(w, s), prompts' = prompts
  PROVE  OwnedInv'
<1>1. /\ row'[job[w].task].session = s
      /\ \A t \in Tasks : /\ row'[t].status = row[t].status
                          /\ row'[t].attempts = row[t].attempts
                          /\ row'[t].session \in {row[t].session, s}
  BY DEF BindSession, TypeOK, TableOK, Rows
<1>2. PICK j : j = [job[w] EXCEPT !.session = s]
  OBVIOUS
<1>3. j.task = job[w].task /\ j.attempt = job[w].attempt
  BY <1>2, JobType DEF Jobs
<1>4. pc'[w] = "route" /\ job'[w] = j /\ Goto(w, "route", j)
  BY <1>2, GotoStays DEF BindSession, TypeOK
<1>5. WorkerStays(w)
  BY <1>1, <1>3, <1>4 DEF WorkerStays, Keeps, At, Live, Holding, RowStays, Dispatching
<1>6. \A t \in Tasks : RowStays(t)
  BY <1>1 DEF RowStays
<1>. QED
  BY <1>4, <1>5, <1>6, MoveOwned

-----------------------------------------------------------------------------
(* A claim and an accepted prompt. *)

LEMMA ClaimOwned ==
  ASSUME TypeOK, OwnedInv, NEW w \in Workers, claimNextPending(w)
  PROVE  OwnedInv'
<1>. DEFINE claimed(t) == [row[t] EXCEPT !.status = "running", !.retry = "none",
                             !.started = IF @ = None THEN Len(log) + 1 ELSE @]
<1>. PICK t0 \in Tasks : /\ Claimable(t0)
                         /\ row' = [row EXCEPT ![t0] = claimed(t0)]
                         /\ Goto(w, "claimed", SnapshotOf(t0, claimed(t0)))
  BY DEF claimNextPending
<1>1. claimed(t0).attempts = row[t0].attempts /\ claimed(t0).session = row[t0].session
  BY DEF TypeOK, TableOK, Rows
<1>. HIDE DEF claimed
<1>2. /\ \A t \in Tasks \ {t0} : row'[t] = row[t]
      /\ row'[t0] = claimed(t0) /\ prompts' = prompts
  BY DEF claimNextPending, serverVars, TypeOK, TableOK
<1>3. /\ pc'[w] = "claimed" /\ job'[w].task = t0 /\ job'[w].attempt = row[t0].attempts
      /\ \A v \in Workers \ {w} : WorkerStays(v)
  BY <1>1, GotoStays DEF SnapshotOf, TypeOK
<1>4. pc[w] = "dispatch"
  BY DEF claimNextPending, At
<1>5. row[t0].status = "pending"
  BY DEF Claimable, First, WithStatus
<1>6. \A t \in Tasks \ {t0} : RowStays(t)
  BY <1>2 DEF RowStays
<1>7. ASSUME NEW t \in Tasks, row'[t].status \in Claimed PROVE row'[t].attempts \in 0..MaxRetries
  BY <1>1, <1>2, <1>5, <1>7 DEF OwnedInv, Claimed
<1>8. ASSUME ~StoreMayFail, NEW t \in WithStatus("running")' PROVE Owned(t)'
  <2>1. CASE t = t0
    <3>1. Keeps(w, t)'
      BY <2>1, <1>1, <1>2, <1>3 DEF Keeps, Live, Holding, Dispatching, Routed
    <3>. QED
      BY <3>1 DEF Owned
  <2>2. CASE t # t0
    <3>1. t \in Tasks /\ Owned(t) /\ row'[t].status = "running"
      BY <1>2, <1>8, <2>2 DEF WithStatus, OwnedInv
    <3>2. ~Keeps(w, t)
      BY <1>4 DEF Keeps, Live, Holding, Dispatching, At
    <3>3. CASE Polled(t)
      BY <3>1, <3>3, <2>2, <1>2 DEF Owned, Polled
    <3>4. ASSUME NEW v \in Workers \ {w}, Keeps(v, t) PROVE Owned(t)'
      BY <3>1, <3>4, <2>2, <1>3, <1>6 DEF Owned, WorkerStays
    <3>. QED
      BY <3>1, <3>2, <3>3, <3>4 DEF Owned
  <2>. QED
    BY <2>1, <2>2
<1>. QED
  BY <1>7, <1>8 DEF OwnedInv

\* Once its prompt is accepted the row is polled, if the attempt is still the row's.
LEMMA AcceptOwned ==
  ASSUME TypeOK, OwnedInv, NEW w \in Workers, PromptAccepted(w)
  PROVE  OwnedInv'
<1>. DEFINE t0 == job[w].task
            k0 == job[w].attempt
<1>1. t0 \in Tasks /\ pc[w] = "prompt" /\ row' = row
  BY JobType DEF PromptAccepted, At, Unassigned
<1>2. \A t \in Tasks, k \in 0..MaxRetries :
        prompts'[t][k] = IF t = t0 /\ k = k0 THEN prompts[t][k] + 1 ELSE prompts[t][k]
  <2>. PICK f : f = prompts[t0]
    OBVIOUS
  <2>. DEFINE p == [f EXCEPT ![k0] = f[k0] + 1]
  <2>1. f \in [0..MaxRetries -> Nat] /\ prompts \in [Tasks -> [0..MaxRetries -> Nat]]
    BY <1>1 DEF TypeOK, ServerOK
  <2>2. prompts' = [prompts EXCEPT ![t0] = p]
    BY DEF PromptAccepted
  <2>3. \A k \in 0..MaxRetries : p[k] = IF k = k0 THEN f[k] + 1 ELSE f[k]
    BY <2>1
  <2>. HIDE DEF p
  <2>4. prompts'[t0] = p /\ \A t \in Tasks : t # t0 => prompts'[t] = prompts[t]
    BY <2>1, <2>2, <1>1
  <2>. QED
    BY <2>3, <2>4
<1>3. \A t \in Tasks, k \in 0..MaxRetries : prompts[t][k] \in Nat
  BY DEF TypeOK, ServerOK
<1>4. \A v \in Workers \ {w} : WorkerStays(v)
  BY GotoStays DEF PromptAccepted, TypeOK
<1>. HIDE DEF t0, k0
<1>5. ASSUME ~StoreMayFail, NEW t \in WithStatus("running")' PROVE Owned(t)'
  <2>1. /\ t \in Tasks /\ Owned(t) /\ row[t].attempts \in 0..MaxRetries /\ row'[t] = row[t]
        /\ row'[t].status = "running"
    BY <1>1, <1>5 DEF WithStatus, OwnedInv, Claimed
  <2>2. CASE Polled(t)
    <3>1. prompts'[t][row[t].attempts] > 0
      BY <1>2, <1>3, <2>1, <2>2 DEF Polled
    <3>. QED
      BY <3>1, <1>1, <2>2 DEF Owned, Polled
  <2>3. CASE Keeps(w, t)
    <3>1. t = t0 /\ row[t].attempts = k0 /\ row[t].session # None
      BY <1>1, <2>3 DEF Keeps, At, Live, Holding, Routed, t0, k0
    <3>2. prompts'[t][row[t].attempts] = prompts[t][row[t].attempts] + 1
      BY <3>1, <2>1, <1>2
    <3>3. prompts'[t][row[t].attempts] > 0
      BY <3>2, <2>1, <1>3
    <3>. QED
      BY <3>1, <3>3, <1>1 DEF Owned, Polled
  <2>4. ASSUME NEW v \in Workers \ {w}, Keeps(v, t) PROVE Owned(t)'
    BY <2>1, <2>4, <1>4 DEF Owned, WorkerStays, RowStays
  <2>. QED
    BY <2>1, <2>2, <2>3, <2>4 DEF Owned
<1>. QED
  BY <1>1, <1>5 DEF OwnedInv

-----------------------------------------------------------------------------
(* The steps together. *)

LEMMA FinalizeOwned ==
  ASSUME TypeOK, OwnedInv, NEW w \in Workers, Finalize(w)
  PROVE  OwnedInv'
<1>. job[w] \in Jobs /\ (pc[w] \notin Unassigned => job[w].task \in Tasks)
  BY JobType
<1>1. CASE FinalizeNothing(w)
  BY <1>1, PauseOwned DEF FinalizeNothing, At, Keeping, Dispatching
<1>2. CASE FinalizeOrphan(w)
  BY <1>2, PauseOwned DEF FinalizeOrphan, At, Keeping, Dispatching
<1>3. CASE FinalizePoll(w)
  BY <1>3, PauseOwned DEF FinalizePoll, At, Keeping, Dispatching
<1>4. CASE PollFails(w)
  BY <1>4, FailureOwned DEF PollFails, At, Unassigned, Dispatching
<1>5. CASE PollBusy(w)
  BY <1>5, PauseOwned DEF PollBusy, At, Keeping, Dispatching
<1>6. CASE PollIdle(w)
  BY <1>6, PauseOwned DEF PollIdle, At, Keeping, Dispatching
<1>7. CASE FindTracked(w)
  BY <1>7, PauseOwned DEF FindTracked, Take, At, Keeping, Dispatching
<1>8. CASE FindLatest(w)
  BY <1>8, PauseOwned DEF FindLatest, Take, At, Keeping, Dispatching
<1>9. CASE FindNothing(w)
  BY <1>9, FailureOwned DEF FindNothing, At, Unassigned, Dispatching
<1>10. CASE FinalizeFails(w)
  BY <1>10, FailureOwned DEF FinalizeFails, At, Unassigned, Dispatching
<1>11. CASE FinalizeComplete(w)
  BY <1>11, CompletedOwned DEF FinalizeComplete, At, Unassigned
<1>. QED
  BY <1>1, <1>2, <1>3, <1>4, <1>5, <1>6, <1>7, <1>8, <1>9, <1>10, <1>11 DEF Finalize

LEMMA DispatchOwned ==
  ASSUME TypeOK, OwnedInv, NEW w \in Workers, Dispatch(w)
  PROVE  OwnedInv'
<1>. job[w] \in Jobs /\ (pc[w] \notin Unassigned => job[w].task \in Tasks)
  BY JobType
<1>1. CASE claimNextPending(w)
  BY <1>1, ClaimOwned
<1>2. CASE ClaimNothing(w)
  BY <1>2, PauseOwned DEF ClaimNothing, At, Keeping, Dispatching
<1>3. CASE DispatchReport(w)
  BY <1>3, CompletedOwned DEF DispatchReport, Holds, At, Unassigned
<1>4. CASE DispatchEq1(w)
  BY <1>4, CompletedOwned, FailureOwned DEF DispatchEq1, Holds, At, Unassigned
<1>5. CASE ReuseSession(w)
  BY <1>5, BindOwned DEF ReuseSession, Holds, At, Unassigned, Dispatching, serverVars
<1>6. CASE AskSession(w)
  BY <1>6, PauseOwned DEF AskSession, Holds, At, Dispatching
<1>7. CASE createSession(w)
  BY <1>7, BindOwned, Nulls DEF createSession, At, Unassigned, Dispatching
<1>8. CASE RouteAgent(w)
  <2>1. \A t \in Tasks : /\ row'[t].status = row[t].status /\ row'[t].attempts = row[t].attempts
                         /\ row'[t].session = row[t].session
    BY <1>8 DEF RouteAgent, TypeOK, TableOK, Rows
  <2>2. \A t \in Tasks : RowStays(t)
    BY <2>1 DEF RowStays
  <2>3. pc[w] = "route" /\ pc'[w] = "prompt" /\ job'[w] = job[w] /\ Goto(w, "prompt", job[w])
    BY <1>8, GotoStays DEF RouteAgent, At, TypeOK
  <2>4. WorkerStays(w)
    BY <2>1, <2>3 DEF WorkerStays, Keeps, At, Live, Holding, Dispatching, Routed
  <2>. QED
    BY <1>8, <2>2, <2>3, <2>4, MoveOwned DEF RouteAgent, serverVars
<1>9. CASE PromptAccepted(w)
  BY <1>9, AcceptOwned
<1>10. CASE PromptReturns(w)
  BY <1>10, PauseOwned DEF PromptReturns, At, Keeping, Dispatching
<1>11. CASE DispatchFails(w)
  BY <1>11, FailureOwned DEF DispatchFails, Holds, At, Unassigned
<1>. QED
  BY <1>1, <1>2, <1>3, <1>4, <1>5, <1>6, <1>7, <1>8, <1>9, <1>10, <1>11 DEF Dispatch

LEMMA CycleEndOwned ==
  ASSUME TypeOK, OwnedInv, NEW w \in Workers,
         CycleReturns(w) \/ MetricFails(w) \/ CycleThrows(w)
  PROVE  OwnedInv'
<1>. job[w] \in Jobs /\ (pc[w] \notin Unassigned => job[w].task \in Tasks)
  BY JobType
<1>1. CASE CycleReturns(w)
  <2>1. pc[w] = "log" /\ Goto(w, "idle", NoJob) /\ row' = row /\ prompts' = prompts
    BY <1>1 DEF CycleReturns, At, serverVars
  <2>2. WorkerStays(w) /\ \A t \in Tasks : RowStays(t)
    BY <2>1 DEF WorkerStays, Keeps, At, Live, Holding, RowStays, Dispatching
  <2>. QED
    BY <2>1, <2>2, MoveOwned
<1>2. CASE MetricFails(w)
  BY <1>2, PauseOwned, FailureOwned DEF MetricFails, At, Dispatching, Unassigned
<1>3. CASE CycleThrows(w)
  BY <1>3, PauseOwned DEF CycleThrows
<1>. QED
  BY <1>1, <1>2, <1>3

\* A worker that starts lists every running row, and strikes off only what it gives up.
LEMMA StartOwned ==
  ASSUME TypeOK, OwnedInv, NEW w \in Workers, Start(w)
  PROVE  OwnedInv'
<1>1. CASE Boot(w)
  <2>1. PICK k : k = [NoJob EXCEPT !.stale = WithStatus("running")]
    OBVIOUS
  <2>2. k.stale = WithStatus("running")
    BY <2>1 DEF NoJob
  <2>3. /\ pc'[w] = "recovering" /\ job'[w] = k /\ row' = row /\ prompts' = prompts
        /\ Goto(w, "recovering", k)
    BY <1>1, <2>1, GotoStays DEF Boot, Pause, serverVars, TypeOK
  <2>4. WorkerStays(w) /\ \A t \in Tasks : RowStays(t)
    BY <2>2, <2>3 DEF WorkerStays, Keeps, At, WithStatus, RowStays
  <2>. QED
    BY <2>3, <2>4, MoveOwned
<1>2. CASE recoverRunningTasks(w)
  <2>1. PICK t0 \in job[w].stale :
          /\ row' = [row EXCEPT ![t0] = [@ EXCEPT !.status = "failed", !.retry = "none"]]
          /\ Goto(w, "recovering", [job[w] EXCEPT !.stale = @ \ {t0}])
    BY <1>2 DEF recoverRunningTasks
  <2>2. PICK k : k = [job[w] EXCEPT !.stale = @ \ {t0}]
    OBVIOUS
  <2>3. k.stale = job[w].stale \ {t0} /\ t0 \in Tasks
    BY <2>2, JobType DEF Jobs
  <2>4. pc[w] = "recovering" /\ pc'[w] = "recovering" /\ job'[w] = k /\ prompts' = prompts
    BY <1>2, <2>1, <2>2, GotoStays DEF recoverRunningTasks, At, serverVars, TypeOK
  <2>5. row'[t0].status = "failed"
    BY <2>1, <2>3 DEF TypeOK, TableOK, Rows
  <2>6. \A t \in Tasks : RowStays(t)
    BY <1>2, RecoveredRow DEF RowStays, Terminal
  <2>7. WorkerStays(w)
    BY <2>3, <2>4, <2>5 DEF WorkerStays, Keeps, At, Live, Holding, Dispatching
  <2>. QED
    BY <2>1, <2>4, <2>6, <2>7, MoveOwned
<1>3. CASE Recovered(w)
  <2>1. /\ pc[w] = "recovering" /\ job[w].stale = {} /\ row' = row /\ prompts' = prompts
        /\ Goto(w, "idle", NoJob)
    BY <1>3 DEF Recovered, Pause, At, serverVars
  <2>2. WorkerStays(w) /\ \A t \in Tasks : RowStays(t)
    BY <2>1 DEF WorkerStays, Keeps, At, Live, Holding, Dispatching, RowStays
  <2>. QED
    BY <2>1, <2>2, MoveOwned
<1>. QED
  BY <1>1, <1>2, <1>3 DEF Start

LEMMA ProcessOwned ==
  ASSUME TypeOK, OwnedInv, NEW w \in Workers,
         Deliver(w) \/ Crash(w) \/ bindEventMessageToRunningTask(w)
  PROVE  OwnedInv'
<1>1. prompts' = prompts
  BY DEF Deliver, Crash, bindEventMessageToRunningTask, serverVars
<1>2. \A t \in Tasks : RowStays(t)
  <2>1. CASE bindEventMessageToRunningTask(w)
    BY <2>1 DEF bindEventMessageToRunningTask, RowStays, TypeOK, TableOK, Rows
  <2>. QED
    BY <2>1 DEF Deliver, Crash, tableVars, RowStays
<1>3. CASE Deliver(w) \/ bindEventMessageToRunningTask(w)
  BY <1>1, <1>2, <1>3, SameStep DEF Deliver, bindEventMessageToRunningTask
<1>4. CASE Crash(w)
  <2>1. pc'[w] = "down" /\ Goto(w, "down", NoJob)
    BY <1>4, GotoStays DEF Crash, TypeOK
  <2>2. WorkerStays(w)
    BY <2>1 DEF WorkerStays, Keeps, At
  <2>. QED
    BY <1>1, <1>2, <2>1, <2>2, MoveOwned
<1>. QED
  BY <1>3, <1>4

\* A row that is inserted was in nobody's hands, and waits.
LEMMA ProducersOwned ==
  ASSUME TypeOK, OwnedInv, NEW t \in Tasks,
         createTask(t) \/ createTaskInSession(t) \/ RetryDue(t)
  PROVE  OwnedInv'
<1>1. UNCHANGED workerVars /\ prompts' = prompts
  BY DEF createTask, createTaskInSession, RetryDue, serverVars
<1>2. ASSUME NEW kind, NEW source, NEW s, Insert(t, kind, source, s)
      PROVE  \A u \in Tasks : RowStays(u) \/ RowEnds(u)
  <2>1. /\ row'[t].status = "pending" /\ row'[t].attempts = 0
        /\ \A u \in Tasks \ {t} : row'[u] = row[u]
    BY <1>2 DEF Insert, First, WithStatus, NoRow, TypeOK, TableOK
  <2>. QED
    BY <2>1, QueueAssumption DEF RowStays, RowEnds
<1>3. ASSUME RetryDue(t) PROVE \A u \in Tasks : RowStays(u)
  BY <1>3 DEF RetryDue, RowStays, TypeOK, TableOK, Rows
<1>4. \A u \in Tasks : RowStays(u) \/ RowEnds(u)
  BY <1>2, <1>3 DEF createTask, createTaskInSession
<1>. QED
  BY <1>1, <1>4, SameStep

LEMMA InitOwned == Init => OwnedInv
BY DEF Init, OwnedInv, WithStatus, Claimed, NoRow

LEMMA NextOwned == TypeOK /\ OwnedInv /\ [Next]_vars => OwnedInv'
<1>1. ASSUME OwnedInv, UNCHANGED <<row, workerVars, prompts>> PROVE OwnedInv'
  BY <1>1, SameStep DEF RowStays
<1>2. ASSUME TypeOK, OwnedInv, NEW s \in Sessions, ServerBegins(s) \/ ServerFinishes(s)
      PROVE  OwnedInv'
  BY <1>1, <1>2 DEF ServerBegins, ServerFinishes
<1>3. ASSUME TypeOK, OwnedInv, Next PROVE OwnedInv'
  BY <1>2, <1>3, ProducersOwned, FinalizeOwned, DispatchOwned, RecordOwned, CycleEndOwned,
     StartOwned, ProcessOwned
  DEF Next, processCycle
<1>4. ASSUME OwnedInv, UNCHANGED vars PROVE OwnedInv'
  BY <1>1, <1>4 DEF vars, workerVars
<1>. QED
  BY <1>3, <1>4

\* While no write fails, a running row is polled under its own attempt, or a worker is
\* dispatching that attempt, is about to record that it failed, has listed the row for
\* recovery, or is down and will list it when it is back.
THEOREM RunningRowsAreOwned == Spec => []OwnedInv
BY TypeCorrect, InitOwned, NextOwned, PTL DEF Spec

\* So whatever dies, fails or is answered late, no running row is left behind; and not
\* with any number of workers either, although each reads a row and writes it in two
\* statements with the others' statements in between.
THEOREM NothingLeftRunning == Spec => [](~StoreMayFail => RunningIsOwned)
<1>1. OwnedInv => (~StoreMayFail => RunningIsOwned)
  BY DEF OwnedInv, Owned, Polled, Keeps, Live, Holding, RunningIsOwned
<1>. QED
  BY <1>1, RunningRowsAreOwned, PTL

-----------------------------------------------------------------------------
(* One worker. *)

AtWork == {"orphan", "status", "lookup", "format", "prompted"} \cup Dispatching

\* Nothing was said of the row, and nothing is being said.
Untold(w, t) == told[t] = <<>> /\ \A r \in routing[w] : r.task # t

\* A report under way is the only one of its row and says what the row says; what was
\* told is what the row says; and of a row that has not ended nothing was.
ReportsFit(w) ==
  /\ \A t \in Tasks : row[t].status \notin Terminal => Untold(w, t)
  /\ \A r \in routing[w] : told[r.task] = <<>> /\ row[r.task].status = r.outcome
  /\ \A r, q \in routing[w] : r.task = q.task => r = q
  /\ \A t \in Tasks : told[t] # <<>> => told[t] = <<row[t].status>>

\* The worker's row runs, under the attempt it has in hand, until the worker writes its
\* outcome; of that nothing is said before the cycle returns.  A failure that a failing
\* write led to may be of a row that has ended, unsaid.
WorkFits(w) ==
  /\ pc[w] \in AtWork => /\ row[job[w].task].status = "running"
                         /\ job[w].attempt = row[job[w].task].attempts
  /\ pc[w] = "log" => row[job[w].task].status = "completed" /\ Untold(w, job[w].task)
  /\ pc[w] = "caught" => /\ StoreMayFail /\ Untold(w, job[w].task)
                         /\ row[job[w].task].status \in {"pending", "failed"}
  /\ pc[w] = "failing" => /\ Untold(w, job[w].task)
                          /\ StoreMayFail \/ row[job[w].task].status = "running"
  /\ pc[w] = "recovering" => \A t \in job[w].stale : row[t].status = "running"

\* ReportsAreFinal is not inductive: it does not know what is still to be said, nor that
\* the worker takes up no row that ended.
Solo(w) == WorkFits(w) /\ ReportsFit(w)

SoloInv == \A w \in Workers : Workers = {w} => Solo(w)

LEMMA ReportsStay ==
  ASSUME NEW w \in Workers, ReportsFit(w), UNCHANGED <<routing, told>>,
         \A t \in Tasks : row'[t].status = row[t].status \/ Untold(w, t),
         TypeOK
  PROVE  ReportsFit(w)' /\ \A t \in Tasks : Untold(w, t)' <=> Untold(w, t)
<1>1. \A t \in Tasks : Untold(w, t)' <=> Untold(w, t)
  BY DEF Untold
<1>2. \A r \in routing[w] : r.task \in Tasks
  BY DEF TypeOK, ReportsOK
<1>3. \A r \in routing[w] : row'[r.task].status = row[r.task].status
  BY <1>2 DEF Untold
<1>4. \A t \in Tasks : told[t] # <<>> => row'[t].status = row[t].status
  BY DEF Untold
<1>. QED
  BY <1>1, <1>2, <1>3, <1>4 DEF ReportsFit

\* A report of a row that was just ended.
LEMMA ReportAdded ==
  ASSUME TypeOK, NEW w \in Workers, ReportsFit(w), NEW t0 \in Tasks, Untold(w, t0),
         NEW outcome \in Terminal, NEW n, Report(w, t0, outcome, n), told' = told,
         row'[t0].status = outcome,
         \A t \in Tasks \ {t0} : row'[t].status = row[t].status
  PROVE  ReportsFit(w)'
<1>1. routing'[w] = routing[w] \cup {[task |-> t0, outcome |-> outcome, attempts |-> n]}
  BY DEF Report, TypeOK, ReportsOK
<1>2. \A r \in routing[w] : r.task \in Tasks \ {t0}
  BY DEF TypeOK, ReportsOK, Untold
<1>3. \A t \in Tasks \ {t0} : Untold(w, t) => Untold(w, t)'
  BY <1>1 DEF Untold
<1>4. told[t0] = <<>>
  BY DEF Untold
<1>. QED
  BY <1>1, <1>2, <1>3, <1>4 DEF ReportsFit

LEMMA PauseSolo ==
  ASSUME TypeOK, NEW w \in Workers, Solo(w), NEW label, NEW j, Pause(w, label, j),
         label \notin {"log", "caught", "failing", "recovering"},
         label \in AtWork => row[j.task].status = "running" /\ j.attempt = row[j.task].attempts
  PROVE  Solo(w)'
<1>1. pc'[w] = label /\ job'[w] = j /\ UNCHANGED <<row, routing, told>>
  BY GotoStays DEF Pause, TypeOK
<1>2. ReportsFit(w)'
  BY <1>1, ReportsStay DEF Solo
<1>3. WorkFits(w)'
  BY <1>1 DEF WorkFits
<1>. QED
  BY <1>2, <1>3 DEF Solo

LEMMA FailureSolo ==
  ASSUME TypeOK, NEW w \in Workers, Solo(w), NEW j \in Jobs, j.task \in Tasks, Untold(w, j.task),
         StoreMayFail \/ row[j.task].status = "running",
         NEW reset \in BOOLEAN, NEW after \in {"idle", "dispatch"},
         NEW thrown \in {"idle", "caught"},
         handleFailure(w, j, reset, after, thrown)
  PROVE  Solo(w)'
<1>. PICK k : k = Failed(j, reset, after, thrown)
  OBVIOUS
<1>1. k.task = j.task
  BY FailedJob
<1>2. pc'[w] = "failing" /\ job'[w] = k /\ UNCHANGED <<row, routing, told>>
  BY GotoStays DEF handleFailure, Pause, TypeOK
<1>3. ReportsFit(w)' /\ Untold(w, j.task)'
  BY <1>2, ReportsStay DEF Solo
<1>4. WorkFits(w)'
  BY <1>1, <1>2, <1>3 DEF WorkFits, AtWork, Dispatching
<1>. QED
  BY <1>3, <1>4 DEF Solo

LEMMA RecordSolo ==
  ASSUME TypeOK, NEW w \in Workers, Solo(w), RecordFailure(w)
  PROVE  Solo(w)'
<1>. DEFINE j == job[w]
            n == j.failure.attempts
<1>0. j.task \in Tasks /\ n \in Nat /\ Untold(w, j.task)
  BY RecordedRow DEF RecordFailure, At, Solo, WorkFits
<1>1. /\ row'[j.task].status = IF shouldRetry(j.task, n) THEN "pending" ELSE "failed"
      /\ \A t \in Tasks \ {j.task} : row'[t].status = row[t].status
      /\ told' = told
  BY RecordedRow
<1>2. CASE UNCHANGED routing
  <2>1. PICK t0 : t0 = j.task
    OBVIOUS
  <2>5. \A t \in Tasks : row'[t].status = row[t].status \/ Untold(w, t)
    BY <1>0, <1>1
  <2>6. ReportsFit(w)' /\ \A t \in Tasks : Untold(w, t)' <=> Untold(w, t)
    BY <1>1, <1>2, <2>5, ReportsStay DEF Solo
  <2>7. Untold(w, t0)'
    BY <1>0, <2>1, <2>6
  <2>2. PICK label \in {"idle", "dispatch", "caught"}, k \in {NoJob, j} :
          Goto(w, label, k) /\ (label = "caught" => k = j /\ StoreMayFail)
    BY RecordGoes
  <2>3. pc'[w] = label /\ job'[w] = k
    BY <2>2, GotoStays DEF TypeOK
  <2>4. WorkFits(w)'
    BY <1>1, <2>1, <2>2, <2>3, <2>7 DEF WorkFits, AtWork, Dispatching
  <2>. QED
    BY <2>6, <2>4 DEF Solo
<1>3. CASE ~shouldRetry(j.task, n) /\ Goto(w, "idle", NoJob) /\ Report(w, j.task, "failed", n)
  <2>1. ReportsFit(w)'
    BY <1>0, <1>1, <1>3, ReportAdded DEF Solo, Terminal
  <2>2. pc'[w] = "idle"
    BY <1>3, GotoStays DEF TypeOK
  <2>3. WorkFits(w)'
    BY <2>2 DEF WorkFits, AtWork, Dispatching
  <2>. QED
    BY <2>1, <2>3 DEF Solo
<1>. QED
  BY <1>2, <1>3, RecordGoes

LEMMA CompletedSolo ==
  ASSUME TypeOK, NEW w \in Workers, Solo(w), pc[w] \in AtWork, job[w].task \in Tasks, NEW r,
         MarkCompleted(w, r)
  PROVE  Solo(w)'
<1>1. /\ row'[job[w].task].status = "completed"
      /\ \A t \in Tasks \ {job[w].task} : row'[t].status = row[t].status
      /\ UNCHANGED <<routing, told>>
  BY DEF MarkCompleted, TypeOK, TableOK, Rows
<1>2. Untold(w, job[w].task)
  BY DEF Solo, WorkFits, ReportsFit, Terminal
<1>3. pc'[w] = "log" /\ job'[w] = job[w]
  BY GotoStays DEF MarkCompleted, TypeOK
<1>4. ReportsFit(w)' /\ Untold(w, job[w].task)'
  <2>1. ReportsFit(w)' /\ \A t \in Tasks : Untold(w, t)' <=> Untold(w, t)
    BY <1>1, <1>2, ReportsStay DEF Solo
  <2>. QED
    BY <2>1, <1>2, <1>3 DEF Untold
<1>5. WorkFits(w)'
  BY <1>1, <1>3, <1>4 DEF WorkFits, AtWork, Dispatching
<1>. QED
  BY <1>4, <1>5 DEF Solo

\* A worker that stays at work on its row.
LEMMA StillAtWork ==
  ASSUME TypeOK, NEW w \in Workers, Solo(w), pc[w] \in AtWork,
         NEW label \in AtWork, NEW j, Goto(w, label, j), UNCHANGED <<routing, told>>,
         j.task = job[w].task, j.attempt = job[w].attempt, job[w].task \in Tasks,
         \A t \in Tasks : row'[t].status = row[t].status /\ row'[t].attempts = row[t].attempts
  PROVE  Solo(w)'
<1>1. pc'[w] = label /\ job'[w] = j
  BY GotoStays DEF TypeOK
<1>2. ReportsFit(w)'
  BY ReportsStay DEF Solo
<1>3. WorkFits(w)'
  BY <1>1 DEF Solo, WorkFits, AtWork, Dispatching
<1>. QED
  BY <1>2, <1>3 DEF Solo

LEMMA UntoldAtWork ==
  ASSUME NEW w \in Workers, Solo(w), job[w].task \in Tasks, pc[w] \in AtWork \cup {"log", "caught"}
  PROVE  Untold(w, job[w].task)
BY DEF Solo, WorkFits, ReportsFit, Terminal

LEMMA FinalizeSolo ==
  ASSUME TypeOK, NEW w \in Workers, Solo(w), Finalize(w)
  PROVE  Solo(w)'
<1>. /\ job[w] \in Jobs /\ (pc[w] \notin Unassigned => job[w].task \in Tasks)
     /\ pc[w] \in AtWork \cup {"log", "caught"} => Untold(w, job[w].task)
     /\ pc[w] \in AtWork => row[job[w].task].status = "running"
     /\ pc[w] = "caught" => StoreMayFail
  BY JobType, UntoldAtWork DEF AtWork, Dispatching, Unassigned, Solo, WorkFits
<1>0. \A t \in Tasks : First(t, WithStatus("running")) =>
        row[t].status = "running" /\ Untold(w, t)
  BY DEF First, WithStatus, Solo, ReportsFit, Terminal
<1>1. CASE FinalizeNothing(w)
  BY <1>1, PauseSolo DEF FinalizeNothing, AtWork, Dispatching
<1>2. CASE FinalizeOrphan(w)
  BY <1>0, <1>2, PauseSolo DEF FinalizeOrphan, SnapshotOf
<1>3. CASE FinalizePoll(w)
  BY <1>0, <1>3, PauseSolo DEF FinalizePoll, SnapshotOf
<1>4. CASE PollFails(w)
  BY <1>4, FailureSolo DEF PollFails, At, Unassigned, AtWork
<1>5. CASE PollBusy(w)
  BY <1>5, PauseSolo DEF PollBusy, AtWork, Dispatching
<1>6. CASE PollIdle(w)
  BY <1>6, PauseSolo DEF PollIdle, At, AtWork, Solo, WorkFits
<1>7. ASSUME NEW i, Take(w, i), At(w, "lookup") PROVE Solo(w)'
  <2>. DEFINE r == [msg |-> i, settled |-> run[job[w].session] # i]
              j == [job[w] EXCEPT !.pick = r]
  <2>1. j.task = job[w].task /\ j.attempt = job[w].attempt
    BY DEF Jobs
  <2>. HIDE DEF j
  <2>2. Pause(w, "format", j)
    BY <1>7 DEF Take, j
  <2>. QED
    BY <1>7, <2>1, <2>2, PauseSolo DEF At, AtWork, Solo, WorkFits
<1>8. CASE FindTracked(w) \/ FindLatest(w)
  BY <1>7, <1>8 DEF FindTracked, FindLatest
<1>9. CASE FindNothing(w)
  BY <1>9, FailureSolo DEF FindNothing, At, Unassigned, AtWork
<1>10. CASE FinalizeFails(w)
  BY <1>10, FailureSolo DEF FinalizeFails, At, Unassigned, AtWork
<1>11. CASE FinalizeComplete(w)
  BY <1>11, CompletedSolo DEF FinalizeComplete, At, Unassigned, AtWork
<1>. QED
  BY <1>1, <1>2, <1>3, <1>4, <1>5, <1>6, <1>8, <1>9, <1>10, <1>11 DEF Finalize

LEMMA ClaimSolo ==
  ASSUME TypeOK, NEW w \in Workers, Solo(w), claimNextPending(w)
  PROVE  Solo(w)'
<1>. DEFINE claimed(t) == [row[t] EXCEPT !.status = "running", !.retry = "none",
                             !.started = IF @ = None THEN Len(log) + 1 ELSE @]
<1>. PICK t0 \in Tasks : /\ Claimable(t0)
                         /\ row' = [row EXCEPT ![t0] = claimed(t0)]
                         /\ Goto(w, "claimed", SnapshotOf(t0, claimed(t0)))
  BY DEF claimNextPending
<1>1. claimed(t0).status = "running"
  BY DEF TypeOK, TableOK, Rows
<1>. HIDE DEF claimed
<1>2. /\ \A t \in Tasks \ {t0} : row'[t] = row[t]
      /\ row'[t0] = claimed(t0) /\ UNCHANGED <<routing, told>>
  BY DEF claimNextPending, TypeOK, TableOK
<1>3. row[t0].status = "pending"
  BY DEF Claimable, First, WithStatus
<1>4. pc'[w] = "claimed" /\ job'[w].task = t0 /\ job'[w].attempt = claimed(t0).attempts
  BY GotoStays DEF SnapshotOf, TypeOK
<1>5. ReportsFit(w)'
  BY <1>2, <1>3, ReportsStay DEF Solo, ReportsFit, Terminal
<1>6. WorkFits(w)'
  BY <1>1, <1>2, <1>4 DEF WorkFits
<1>. QED
  BY <1>5, <1>6 DEF Solo

LEMMA DispatchSolo ==
  ASSUME TypeOK, NEW w \in Workers, Solo(w), Dispatch(w)
  PROVE  Solo(w)'
<1>. /\ job[w] \in Jobs /\ (pc[w] \notin Unassigned => job[w].task \in Tasks)
     /\ pc[w] \in AtWork \cup {"log", "caught"} => Untold(w, job[w].task)
     /\ pc[w] \in AtWork => row[job[w].task].status = "running"
  BY JobType, UntoldAtWork DEF AtWork, Dispatching, Unassigned, Solo, WorkFits
<1>0. ASSUME NEW s, BindSession(w, s), pc[w] \in AtWork, UNCHANGED <<routing, told>>
      PROVE  Solo(w)'
  <2>. DEFINE j == [job[w] EXCEPT !.session = s]
  <2>1. j.task = job[w].task /\ j.attempt = job[w].attempt
    BY DEF Jobs
  <2>2. \A t \in Tasks : row'[t].status = row[t].status /\ row'[t].attempts = row[t].attempts
    BY <1>0 DEF BindSession, TypeOK, TableOK, Rows
  <2>. HIDE DEF j
  <2>3. Goto(w, "route", j)
    BY <1>0 DEF BindSession, j
  <2>. QED
    BY <1>0, <2>1, <2>2, <2>3, StillAtWork DEF AtWork, Dispatching, Unassigned
<1>1. CASE claimNextPending(w)
  BY <1>1, ClaimSolo
<1>2. CASE ClaimNothing(w)
  BY <1>2, PauseSolo DEF ClaimNothing, AtWork, Dispatching
<1>3. CASE DispatchReport(w)
  BY <1>3, CompletedSolo DEF DispatchReport, Holds, At, Unassigned, AtWork, Dispatching
<1>4. CASE DispatchEq1(w)
  BY <1>4, CompletedSolo, FailureSolo DEF DispatchEq1, Holds, At, Unassigned, AtWork, Dispatching
<1>5. CASE ReuseSession(w)
  BY <1>0, <1>5 DEF ReuseSession, Holds, At, AtWork, Dispatching
<1>6. CASE AskSession(w)
  BY <1>6, PauseSolo DEF AskSession, Holds, At, AtWork, Dispatching, Solo, WorkFits
<1>7. CASE createSession(w)
  BY <1>0, <1>7 DEF createSession, At, AtWork, Dispatching
<1>8. CASE RouteAgent(w)
  <2>1. \A t \in Tasks : row'[t].status = row[t].status /\ row'[t].attempts = row[t].attempts
    BY <1>8 DEF RouteAgent, TypeOK, TableOK, Rows
  <2>. QED
    BY <1>8, <2>1, StillAtWork DEF RouteAgent, At, AtWork, Dispatching, Unassigned
<1>9. CASE PromptAccepted(w)
  BY <1>9, StillAtWork DEF PromptAccepted, At, AtWork, Dispatching, Unassigned
<1>10. CASE PromptReturns(w)
  BY <1>10, PauseSolo DEF PromptReturns, AtWork, Dispatching
<1>11. CASE DispatchFails(w)
  BY <1>11, FailureSolo DEF DispatchFails, Holds, At, Unassigned, AtWork, Dispatching
<1>. QED
  BY <1>1, <1>2, <1>3, <1>4, <1>5, <1>6, <1>7, <1>8, <1>9, <1>10, <1>11 DEF Dispatch

LEMMA CycleEndSolo ==
  ASSUME TypeOK, NEW w \in Workers, Solo(w),
         CycleReturns(w) \/ MetricFails(w) \/ CycleThrows(w)
  PROVE  Solo(w)'
<1>. /\ job[w] \in Jobs /\ (pc[w] \notin Unassigned => job[w].task \in Tasks)
     /\ pc[w] \in AtWork \cup {"log", "caught"} => Untold(w, job[w].task)
  BY JobType, UntoldAtWork DEF AtWork, Dispatching, Unassigned
<1>1. CASE CycleReturns(w)
  <2>1. pc[w] = "log" /\ row[job[w].task].status = "completed" /\ UNCHANGED <<row, told>>
    BY <1>1 DEF CycleReturns, At, Solo, WorkFits
  <2>2. ReportsFit(w)'
    BY <1>1, <2>1, ReportAdded DEF CycleReturns, Unassigned, Solo, Terminal
  <2>3. pc'[w] = "idle"
    BY <1>1, GotoStays DEF CycleReturns, TypeOK
  <2>. QED
    BY <2>2, <2>3 DEF Solo, WorkFits, AtWork, Dispatching
<1>2. CASE MetricFails(w)
  BY <1>2, PauseSolo, FailureSolo DEF MetricFails, At, AtWork, Dispatching, Unassigned
<1>3. CASE CycleThrows(w)
  BY <1>3, PauseSolo DEF CycleThrows, AtWork, Dispatching
<1>. QED
  BY <1>1, <1>2, <1>3

LEMMA DeliverSolo ==
  ASSUME TypeOK, NEW w \in Workers, Solo(w), Deliver(w)
  PROVE  Solo(w)'
<1>. PICK r \in routing[w] : /\ routing' = [routing EXCEPT ![w] = @ \ {r}]
                             /\ told' = [told EXCEPT ![r.task] = Append(@, r.outcome)]
  BY DEF Deliver
<1>1. UNCHANGED <<row, pc, job>>
  BY DEF Deliver, tableVars, workerVars
<1>2. /\ r.task \in Tasks /\ r.outcome \in Terminal /\ told[r.task] = <<>>
      /\ row[r.task].status = r.outcome /\ routing'[w] = routing[w] \ {r}
      /\ \A q \in routing[w] \ {r} : q.task # r.task
  BY DEF Solo, ReportsFit, TypeOK, ReportsOK
<1>3. told'[r.task] = <<r.outcome>> /\ \A t \in Tasks \ {r.task} : told'[t] = told[t]
  BY <1>2 DEF TypeOK, ReportsOK
<1>4. \A t \in Tasks : Untold(w, t) => t # r.task /\ Untold(w, t)'
  BY <1>2, <1>3 DEF Untold
<1>5. \A q \in routing[w] : q.task \in Tasks
  BY DEF TypeOK, ReportsOK
<1>6. ReportsFit(w)'
  BY <1>1, <1>2, <1>3, <1>4, <1>5 DEF Solo, ReportsFit
<1>7. WorkFits(w)'
  <2>1. pc[w] # "failing"
    BY DEF Deliver, Yields
  <2>. QED
    BY <1>1, <1>4, <2>1, JobType DEF Solo, WorkFits, Unassigned
<1>. QED
  BY <1>6, <1>7 DEF Solo

\* The one worker lists what is running while it starts, and nothing else moves it.
LEMMA StartSolo ==
  ASSUME TypeOK, NEW w \in Workers, Solo(w), Start(w)
  PROVE  Solo(w)'
<1>1. CASE Boot(w)
  <2>1. PICK k : k = [NoJob EXCEPT !.stale = WithStatus("running")]
    OBVIOUS
  <2>2. k.stale = WithStatus("running")
    BY <2>1 DEF NoJob
  <2>3. pc'[w] = "recovering" /\ job'[w] = k /\ UNCHANGED <<row, routing, told>>
    BY <1>1, <2>1, GotoStays DEF Boot, Pause, TypeOK
  <2>4. ReportsFit(w)'
    BY <2>3, ReportsStay DEF Solo
  <2>5. WorkFits(w)'
    BY <2>2, <2>3 DEF WorkFits, WithStatus, AtWork, Dispatching
  <2>. QED
    BY <2>4, <2>5 DEF Solo
<1>2. CASE recoverRunningTasks(w)
  <2>1. PICK t0 \in job[w].stale :
          /\ row' = [row EXCEPT ![t0] = [@ EXCEPT !.status = "failed", !.retry = "none"]]
          /\ Goto(w, "recovering", [job[w] EXCEPT !.stale = @ \ {t0}])
    BY <1>2 DEF recoverRunningTasks
  <2>2. PICK k : k = [job[w] EXCEPT !.stale = @ \ {t0}]
    OBVIOUS
  <2>3. k.stale = job[w].stale \ {t0} /\ job[w].stale \subseteq Tasks
    BY <2>2, JobType DEF Jobs
  <2>4. pc[w] = "recovering" /\ pc'[w] = "recovering" /\ job'[w] = k /\ UNCHANGED <<routing, told>>
    BY <1>2, <2>1, <2>2, GotoStays DEF recoverRunningTasks, At, TypeOK
  <2>5. /\ \A t \in Tasks \ {t0} : row'[t].status = row[t].status
        /\ row[t0].status = "running" /\ Untold(w, t0)
    BY <2>1, <2>3, <2>4 DEF Solo, WorkFits, ReportsFit, Terminal, TypeOK, TableOK
  <2>6. ReportsFit(w)'
    BY <2>4, <2>5, ReportsStay DEF Solo
  <2>7. WorkFits(w)'
    BY <2>3, <2>4, <2>5 DEF Solo, WorkFits, AtWork, Dispatching
  <2>. QED
    BY <2>6, <2>7 DEF Solo
<1>3. CASE Recovered(w)
  BY <1>3, PauseSolo DEF Recovered, AtWork, Dispatching
<1>. QED
  BY <1>1, <1>2, <1>3 DEF Start

LEMMA ProcessSolo ==
  ASSUME TypeOK, NEW w \in Workers, Solo(w),
         Crash(w) \/ bindEventMessageToRunningTask(w)
  PROVE  Solo(w)'
<1>1. CASE Crash(w)
  <2>1. routing'[w] = {} /\ UNCHANGED <<row, told>> /\ pc'[w] = "down"
    BY <1>1, GotoStays DEF Crash, tableVars, TypeOK, ReportsOK
  <2>2. ReportsFit(w)'
    BY <2>1 DEF Solo, ReportsFit, Untold
  <2>. QED
    BY <2>1, <2>2 DEF Solo, WorkFits, AtWork, Dispatching
<1>3. CASE bindEventMessageToRunningTask(w)
  <2>1. \A t \in Tasks : row'[t].status = row[t].status /\ row'[t].attempts = row[t].attempts
    BY <1>3 DEF bindEventMessageToRunningTask, TypeOK, TableOK, Rows
  <2>2. UNCHANGED <<pc, job, routing, told>>
    BY <1>3 DEF bindEventMessageToRunningTask, workerVars
  <2>3. ReportsFit(w)' /\ \A t \in Tasks : Untold(w, t)' <=> Untold(w, t)
    BY <2>1, <2>2, ReportsStay DEF Solo
  <2>4. WorkFits(w)'
    <3>1. pc[w] # "recovering" /\ pc[w] # "failing"
      BY <1>3 DEF bindEventMessageToRunningTask, Yields
    <3>. QED
      BY <2>1, <2>2, <2>3, <3>1, JobType
      DEF Solo, WorkFits, Unassigned, AtWork, Dispatching, Untold
  <2>. QED
    BY <2>3, <2>4 DEF Solo
<1>. QED
  BY <1>1, <1>3

LEMMA ProducersSolo ==
  ASSUME TypeOK, NEW w \in Workers, Solo(w), NEW t \in Tasks,
         createTask(t) \/ createTaskInSession(t) \/ RetryDue(t)
  PROVE  Solo(w)'
<1>1. UNCHANGED <<pc, job, routing, told>>
  BY DEF createTask, createTaskInSession, RetryDue, workerVars
<1>2. \A u \in Tasks : \/ row'[u].status = row[u].status /\ row'[u].attempts = row[u].attempts
                       \/ row[u].status = "absent"
  <2>1. ASSUME NEW kind, NEW source, NEW s, Insert(t, kind, source, s)
        PROVE  row[t].status = "absent" /\ \A u \in Tasks \ {t} : row'[u] = row[u]
    BY <2>1 DEF Insert, First, WithStatus, TypeOK, TableOK
  <2>2. ASSUME RetryDue(t)
        PROVE  \A u \in Tasks : row'[u].status = row[u].status /\ row'[u].attempts = row[u].attempts
    BY <2>2 DEF RetryDue, TypeOK, TableOK, Rows
  <2>. QED
    BY <2>1, <2>2 DEF createTask, createTaskInSession
<1>3. ReportsFit(w)' /\ \A u \in Tasks : Untold(w, u)' <=> Untold(w, u)
  BY <1>1, <1>2, ReportsStay DEF Solo, ReportsFit, Terminal
<1>4. WorkFits(w)'
  <2>. job[w] \in Jobs /\ (pc[w] \notin Unassigned => job[w].task \in Tasks)
    BY JobType
  <2>1. CASE pc[w] \in AtWork
    BY <2>1, <1>1, <1>2 DEF Solo, WorkFits, Unassigned, AtWork, Dispatching
  <2>2. CASE pc[w] \in {"log", "caught", "failing"}
    BY <2>2, <1>1, <1>2, <1>3 DEF Solo, WorkFits, Unassigned, AtWork, Dispatching, Untold
  <2>3. CASE pc[w] = "recovering"
    <3>1. job[w].stale \subseteq Tasks
      BY DEF Jobs
    <3>. QED
      BY <2>3, <3>1, <1>1, <1>2 DEF Solo, WorkFits, AtWork, Dispatching
  <2>4. CASE pc[w] \notin AtWork \cup {"log", "caught", "failing", "recovering"}
    BY <2>4, <1>1 DEF WorkFits
  <2>. QED
    BY <2>1, <2>2, <2>3, <2>4
<1>. QED
  BY <1>3, <1>4 DEF Solo

LEMMA InitSolo == Init => SoloInv
<1>. SUFFICES ASSUME Init, NEW w \in Workers, Workers = {w} PROVE Solo(w)
  BY DEF SoloInv
<1>1. pc[w] = "down" /\ routing[w] = {} /\ \A t \in Tasks : told[t] = <<>>
  BY DEF Init
<1>. QED
  BY <1>1 DEF Solo, WorkFits, ReportsFit, Untold, AtWork, Dispatching

LEMMA NextSolo == TypeOK /\ SoloInv /\ [Next]_vars => SoloInv'
<1>. SUFFICES ASSUME TypeOK, SoloInv, [Next]_vars, NEW w \in Workers, Workers = {w} PROVE Solo(w)'
  BY DEF SoloInv
<1>. w \in Workers /\ Solo(w)
  BY DEF SoloInv
<1>1. ASSUME UNCHANGED <<row, workerVars, routing, told>> PROVE Solo(w)'
  BY <1>1 DEF Solo, WorkFits, ReportsFit, Untold, workerVars
<1>2. ASSUME NEW s \in Sessions, ServerBegins(s) \/ ServerFinishes(s) PROVE Solo(w)'
  BY <1>1, <1>2 DEF ServerBegins, ServerFinishes
<1>3. ASSUME processCycle(w) \/ Deliver(w) \/ Crash(w) \/ Start(w)
               \/ bindEventMessageToRunningTask(w)
      PROVE  Solo(w)'
  BY <1>3, FinalizeSolo, DispatchSolo, RecordSolo, CycleEndSolo, DeliverSolo, StartSolo,
     ProcessSolo
  DEF processCycle
<1>4. CASE Next
  BY <1>2, <1>3, <1>4, ProducersSolo DEF Next
<1>5. CASE UNCHANGED vars
  BY <1>1, <1>5 DEF vars, workerVars
<1>. QED
  BY <1>4, <1>5

\* With one worker, even one whose writes fail, a channel is told the outcome of a task
\* once, and it stays the outcome.
THEOREM ReportsStand == Spec => [](OneWorker => ReportsAreFinal)
<1>1. SoloInv => (OneWorker => ReportsAreFinal)
  BY DEF SoloInv, OneWorker, Solo, ReportsFit, ReportsAreFinal
<1>2. Spec => []SoloInv
  BY TypeCorrect, InitSolo, NextSolo, PTL DEF Spec
<1>. QED
  BY <1>1, <1>2, PTL

-----------------------------------------------------------------------------
(* The refinement: with one worker and no failing write, each step of the queue is a   *)
(* step of TaskLifecycle or leaves what it talks about as it was.                      *)

StatusOf == [t \in Tasks |-> row[t].status]

AttemptsOf == [t \in Tasks |-> row[t].attempts]

LifecycleStep == [Lifecycle!Next]_Lifecycle!vars

RowMoves(t) ==
  \A u \in Tasks \ {t} : row'[u].status = row[u].status /\ row'[u].attempts = row[u].attempts

LEMMA MoveMaps ==
  ASSUME NEW t \in Tasks, RowMoves(t)
  PROVE  /\ StatusOf' = [StatusOf EXCEPT ![t] = row'[t].status]
         /\ AttemptsOf' = [AttemptsOf EXCEPT ![t] = row'[t].attempts]
         /\ StatusOf[t] = row[t].status /\ AttemptsOf[t] = row[t].attempts
         /\ row'[t].attempts = row[t].attempts => AttemptsOf' = AttemptsOf
BY DEF RowMoves, StatusOf, AttemptsOf

LEMMA StutterMaps ==
  ASSUME \A t \in Tasks : row'[t].status = row[t].status /\ row'[t].attempts = row[t].attempts,
         UNCHANGED <<prompts, told>>
  PROVE  LifecycleStep
<1>1. UNCHANGED <<StatusOf, AttemptsOf>>
  BY DEF StatusOf, AttemptsOf
<1>. QED
  BY <1>1 DEF LifecycleStep, Lifecycle!vars, StatusOf, AttemptsOf

\* A transition of one row with the attempts as they were.
LEMMA SubmitMaps ==
  ASSUME NEW t \in Tasks, RowMoves(t), row[t].status = "absent", row'[t].status = "pending",
         row'[t].attempts = row[t].attempts, UNCHANGED <<prompts, told>>
  PROVE  LifecycleStep
<1>1. Lifecycle!Submit(t)
  BY MoveMaps DEF Lifecycle!Submit, Lifecycle!Move, StatusOf, AttemptsOf
<1>. QED
  BY <1>1 DEF LifecycleStep, Lifecycle!Next

LEMMA StartMaps ==
  ASSUME NEW t \in Tasks, RowMoves(t), row[t].status = "pending", row'[t].status = "running",
         row'[t].attempts = row[t].attempts, UNCHANGED <<prompts, told>>
  PROVE  LifecycleStep
<1>1. Lifecycle!Start(t)
  BY MoveMaps DEF Lifecycle!Start, Lifecycle!Move, StatusOf, AttemptsOf
<1>. QED
  BY <1>1 DEF LifecycleStep, Lifecycle!Next

LEMMA CompleteMaps ==
  ASSUME TypeOK, NEW w \in Workers, job[w].task \in Tasks,
         row[job[w].task].status = "running", NEW r, MarkCompleted(w, r)
  PROVE  LifecycleStep
<1>. PICK t \in Tasks : t = job[w].task
  OBVIOUS
<1>1. /\ row'[t].status = "completed" /\ row'[t].attempts = row[t].attempts /\ RowMoves(t)
      /\ UNCHANGED <<prompts, told>>
  BY DEF MarkCompleted, RowMoves, serverVars, TypeOK, TableOK, Rows
<1>2. Lifecycle!Complete(t)
  BY <1>1, MoveMaps DEF Lifecycle!Complete, Lifecycle!Move, StatusOf, AttemptsOf
<1>. QED
  BY <1>2 DEF LifecycleStep, Lifecycle!Next

LEMMA RecordMaps ==
  ASSUME TypeOK, BudgetInv, NEW w \in Workers, Solo(w), ~StoreMayFail, RecordFailure(w)
  PROVE  LifecycleStep
<1>. PICK t, n : t = job[w].task /\ n = row[t].attempts + 1
  OBVIOUS
<1>0. job[w].failure.attempts = n /\ row[t].status = "running" /\ t \in Tasks
  BY RecordedRow DEF RecordFailure, At, BudgetInv, FailureCounted, Solo, WorkFits
<1>1. /\ row'[t].status = IF shouldRetry(t, n) THEN "pending" ELSE "failed"
      /\ row'[t].attempts = n /\ RowMoves(t) /\ UNCHANGED <<prompts, told>>
  BY <1>0, RecordedRow DEF RowMoves
<1>2. row[t].attempts \in Nat
  BY <1>0 DEF TypeOK, TableOK, Rows
<1>3. shouldRetry(t, n) => row[t].attempts < MaxRetries
  BY <1>2, QueueAssumption DEF shouldRetry
<1>4. n = row[t].attempts + 1 /\ t \in Tasks /\ row[t].status = "running"
  BY <1>0
<1>5. CASE shouldRetry(t, n)
  <2>1. Lifecycle!Retry(t)
    BY <1>1, <1>3, <1>4, <1>5, MoveMaps DEF Lifecycle!Retry, Lifecycle!Move, StatusOf, AttemptsOf
  <2>. QED
    BY <1>4, <2>1 DEF LifecycleStep, Lifecycle!Next
<1>6. CASE ~shouldRetry(t, n)
  <2>1. Lifecycle!GiveUp(t)
    BY <1>1, <1>4, <1>6, MoveMaps DEF Lifecycle!GiveUp, Lifecycle!Move, StatusOf, AttemptsOf
  <2>. QED
    BY <1>4, <2>1 DEF LifecycleStep, Lifecycle!Next
<1>. QED
  BY <1>5, <1>6

LEMMA AskMaps ==
  ASSUME TypeOK, BudgetInv, NEW w \in Workers, Solo(w), PromptAccepted(w)
  PROVE  LifecycleStep
<1>. DEFINE t == job[w].task
            k == job[w].attempt
<1>1. pc[w] = "prompt" /\ t \in Tasks
  BY DEF PromptAccepted, At, TypeOK, WorkersOK, Unassigned
<1>2. k \in 0..MaxRetries /\ prompts[t][k] = 0
  BY <1>1 DEF BudgetInv, HeldOnce, Holding, Dispatching
<1>3. row[t].status = "running" /\ k = row[t].attempts
  BY <1>1 DEF Solo, WorkFits, AtWork, Dispatching
<1>4. prompts' = [prompts EXCEPT ![t][k] = 1] /\ UNCHANGED <<row, told>>
  BY <1>2 DEF PromptAccepted
<1>. HIDE DEF t, k
<1>5. Lifecycle!Ask(t)
  BY <1>1, <1>2, <1>3, <1>4 DEF Lifecycle!Ask
<1>. QED
  BY <1>1, <1>5 DEF LifecycleStep, Lifecycle!Next

LEMMA TellMaps ==
  ASSUME TypeOK, NEW w \in Workers, Solo(w), Deliver(w)
  PROVE  LifecycleStep
<1>1. PICK r \in routing[w] : told' = [told EXCEPT ![r.task] = Append(@, r.outcome)]
  BY DEF Deliver
<1>2. /\ r.task \in Tasks /\ r.outcome \in Terminal /\ told[r.task] = <<>>
      /\ row[r.task].status = r.outcome
  BY DEF Solo, ReportsFit, TypeOK, ReportsOK
<1>3. UNCHANGED <<row, prompts>>
  BY DEF Deliver, tableVars, serverVars
<1>4. Append(<<>>, r.outcome) = <<r.outcome>>
  BY <1>2
<1>5. told' = [told EXCEPT ![r.task] = <<row[r.task].status>>]
  BY <1>1, <1>2, <1>4
<1>6. Lifecycle!Tell(r.task)
  BY <1>2, <1>3, <1>5 DEF Lifecycle!Tell, Lifecycle!Terminal, Terminal
<1>. QED
  BY <1>2, <1>6 DEF LifecycleStep, Lifecycle!Next

LEMMA InterruptMaps ==
  ASSUME TypeOK, NEW w \in Workers, Solo(w), recoverRunningTasks(w)
  PROVE  LifecycleStep
<1>1. PICK t \in job[w].stale :
        row' = [row EXCEPT ![t] = [@ EXCEPT !.status = "failed", !.retry = "none"]]
  BY DEF recoverRunningTasks
<1>2. t \in Tasks /\ row[t].status = "running" /\ UNCHANGED <<prompts, told>>
  BY JobType DEF recoverRunningTasks, At, Jobs, Solo, WorkFits, serverVars
<1>3. row'[t].status = "failed" /\ row'[t].attempts = row[t].attempts /\ RowMoves(t)
  BY <1>1, <1>2 DEF RowMoves, TypeOK, TableOK, Rows
<1>4. Lifecycle!Interrupt(t)
  BY <1>2, <1>3, MoveMaps DEF Lifecycle!Interrupt, Lifecycle!Move, StatusOf, AttemptsOf
<1>. QED
  BY <1>2, <1>4 DEF LifecycleStep, Lifecycle!Next

LEMMA ProducersMap ==
  ASSUME TypeOK, BudgetInv, NEW t \in Tasks,
         createTask(t) \/ createTaskInSession(t) \/ RetryDue(t)
  PROVE  LifecycleStep
<1>1. UNCHANGED <<prompts, told>>
  BY DEF createTask, createTaskInSession, RetryDue, serverVars
<1>2. ASSUME NEW kind, NEW source, NEW s, Insert(t, kind, source, s) PROVE LifecycleStep
  <2>1. /\ row[t].status = "absent" /\ row'[t].status = "pending" /\ row'[t].attempts = 0
        /\ RowMoves(t)
    BY <1>2 DEF Insert, First, WithStatus, NoRow, RowMoves, TypeOK, TableOK
  <2>2. row[t].attempts = 0
    BY <2>1 DEF BudgetInv, AbsentUncounted
  <2>. QED
    BY <1>1, <2>1, <2>2, SubmitMaps
<1>3. ASSUME RetryDue(t) PROVE LifecycleStep
  <2>1. \A u \in Tasks : row'[u].status = row[u].status /\ row'[u].attempts = row[u].attempts
    BY <1>3 DEF RetryDue, TypeOK, TableOK, Rows
  <2>. QED
    BY <1>1, <2>1, StutterMaps
<1>. QED
  BY <1>2, <1>3 DEF createTask, createTaskInSession

LEMMA QuietMaps ==
  ASSUME UNCHANGED <<row, prompts, told>>
  PROVE  LifecycleStep
BY StutterMaps

LEMMA PauseMaps ==
  ASSUME NEW w \in Workers, NEW label, NEW j, Pause(w, label, j)
  PROVE  LifecycleStep
BY QuietMaps DEF Pause, serverVars

LEMMA FinalizeMaps ==
  ASSUME TypeOK, NEW w \in Workers, Solo(w), ~StoreMayFail, Finalize(w)
  PROVE  LifecycleStep
<1>. pc[w] \notin Unassigned => job[w].task \in Tasks
  BY JobType
<1>1. CASE FinalizeNothing(w) \/ FinalizePoll(w) \/ PollBusy(w) \/ PollIdle(w)
  BY <1>1, PauseMaps DEF FinalizeNothing, FinalizePoll, PollBusy, PollIdle
<1>2. CASE FinalizeOrphan(w) \/ PollFails(w) \/ FindNothing(w) \/ FinalizeFails(w)
  BY <1>2, PauseMaps DEF FinalizeOrphan, PollFails, FindNothing, FinalizeFails, handleFailure
<1>3. CASE FindTracked(w) \/ FindLatest(w)
  BY <1>3, PauseMaps DEF FindTracked, FindLatest, Take
<1>6. CASE FinalizeComplete(w)
  BY <1>6, CompleteMaps DEF FinalizeComplete, At, Unassigned, Solo, WorkFits, AtWork
<1>. QED
  BY <1>1, <1>2, <1>3, <1>6 DEF Finalize

LEMMA ClaimMaps ==
  ASSUME TypeOK, NEW w \in Workers, claimNextPending(w)
  PROVE  LifecycleStep
<1>. DEFINE claimed(t) == [row[t] EXCEPT !.status = "running", !.retry = "none",
                             !.started = IF @ = None THEN Len(log) + 1 ELSE @]
<1>1. PICK t \in Tasks : Claimable(t) /\ row' = [row EXCEPT ![t] = claimed(t)]
  BY DEF claimNextPending
<1>2. claimed(t).status = "running" /\ claimed(t).attempts = row[t].attempts
  BY DEF TypeOK, TableOK, Rows
<1>. HIDE DEF claimed
<1>3. row'[t] = claimed(t) /\ RowMoves(t) /\ row[t].status = "pending"
  BY <1>1 DEF RowMoves, Claimable, First, WithStatus, TypeOK, TableOK
<1>4. UNCHANGED <<prompts, told>>
  BY DEF claimNextPending, serverVars
<1>. QED
  BY <1>2, <1>3, <1>4, StartMaps

LEMMA DispatchMaps ==
  ASSUME TypeOK, BudgetInv, NEW w \in Workers, Solo(w), ~StoreMayFail, Dispatch(w)
  PROVE  LifecycleStep
<1>. /\ pc[w] \notin Unassigned => job[w].task \in Tasks
     /\ pc[w] \in AtWork => row[job[w].task].status = "running"
  BY JobType DEF Solo, WorkFits
<1>1. CASE claimNextPending(w)
  BY <1>1, ClaimMaps
<1>2. CASE ClaimNothing(w) \/ AskSession(w) \/ PromptReturns(w)
  BY <1>2, PauseMaps DEF ClaimNothing, AskSession, PromptReturns
<1>3. CASE DispatchReport(w)
  BY <1>3, CompleteMaps DEF DispatchReport, Holds, At, Unassigned, AtWork, Dispatching
<1>4. CASE DispatchEq1(w)
  BY <1>4, CompleteMaps, PauseMaps DEF DispatchEq1, handleFailure, Holds, At, Unassigned, AtWork, Dispatching
<1>5. CASE ReuseSession(w) \/ createSession(w) \/ RouteAgent(w)
  <2>0. ASSUME NEW s, row' = [row EXCEPT ![job[w].task].session = s]
        PROVE  \A t \in Tasks : row'[t].status = row[t].status /\ row'[t].attempts = row[t].attempts
    BY <2>0 DEF TypeOK, TableOK, Rows
  <2>1. \A t \in Tasks : row'[t].status = row[t].status /\ row'[t].attempts = row[t].attempts
    <3>1. CASE ReuseSession(w) \/ createSession(w)
      BY <2>0, <3>1 DEF ReuseSession, createSession, BindSession
    <3>2. CASE RouteAgent(w)
      BY <3>2 DEF RouteAgent, TypeOK, TableOK, Rows
    <3>. QED
      BY <1>5, <3>1, <3>2
  <2>2. UNCHANGED <<prompts, told>>
    BY <1>5 DEF ReuseSession, createSession, RouteAgent, serverVars
  <2>. QED
    BY <2>1, <2>2, StutterMaps
<1>6. CASE PromptAccepted(w)
  BY <1>6, AskMaps
<1>7. CASE DispatchFails(w)
  BY <1>7, PauseMaps DEF DispatchFails, handleFailure
<1>. QED
  BY <1>1, <1>2, <1>3, <1>4, <1>5, <1>6, <1>7 DEF Dispatch

LEMMA NextMaps ==
  OneWorker /\ ~StoreMayFail /\ TypeOK /\ BudgetInv /\ SoloInv /\ [Next]_vars => LifecycleStep
<1>. SUFFICES ASSUME NEW w \in Workers, Workers = {w}, ~StoreMayFail, TypeOK, BudgetInv,
                     SoloInv, [Next]_vars
              PROVE  LifecycleStep
  BY DEF OneWorker
<1>. Solo(w)
  BY DEF SoloInv
<1>1. ASSUME processCycle(w) PROVE LifecycleStep
  <2>1. ASSUME CycleReturns(w) PROVE LifecycleStep
    BY <2>1, QuietMaps DEF CycleReturns, serverVars
  <2>. QED
    BY <1>1, <2>1, FinalizeMaps, DispatchMaps, RecordMaps DEF processCycle, MetricFails, CycleThrows
<1>2. ASSUME bindEventMessageToRunningTask(w) PROVE LifecycleStep
  <2>1. \A t \in Tasks : row'[t].status = row[t].status /\ row'[t].attempts = row[t].attempts
    BY <1>2 DEF bindEventMessageToRunningTask, TypeOK, TableOK, Rows
  <2>. QED
    BY <1>2, <2>1, StutterMaps DEF bindEventMessageToRunningTask, serverVars
<1>3. ASSUME Crash(w) PROVE LifecycleStep
  BY <1>3, QuietMaps DEF Crash, tableVars, serverVars
<1>4. ASSUME NEW s \in Sessions, ServerBegins(s) \/ ServerFinishes(s) PROVE LifecycleStep
  BY <1>4, QuietMaps DEF ServerBegins, ServerFinishes
<1>7. ASSUME Start(w) PROVE LifecycleStep
  BY <1>7, PauseMaps, InterruptMaps DEF Start, Boot, Recovered
<1>5. CASE Next
  BY <1>1, <1>2, <1>3, <1>4, <1>5, <1>7, TellMaps, ProducersMap DEF Next
<1>6. CASE UNCHANGED vars
  BY <1>6, QuietMaps DEF vars
<1>. QED
  BY <1>5, <1>6

LEMMA InitMaps == Init => Lifecycle!Init
BY DEF Init, NoRow, Lifecycle!Init

\* The queue of one worker whose writes succeed implements the lifecycle of a task, for
\* every number of tasks, sessions, channels, retries and crashes.
THEOREM QueueIsALifecycle == OneWorker /\ ~StoreMayFail => (Spec => LifecycleSpec)
<1>. SUFFICES ASSUME OneWorker, ~StoreMayFail PROVE Spec => LifecycleSpec
  OBVIOUS
<1>1. TypeOK /\ BudgetInv /\ SoloInv /\ [Next]_vars => [Lifecycle!Next]_Lifecycle!vars
  BY NextMaps DEF LifecycleStep
<1>2. Spec => []SoloInv
  BY TypeCorrect, InitSolo, NextSolo, PTL DEF Spec
<1>. QED
  BY <1>1, <1>2, TypeCorrect, AttemptsAccounted, InitMaps, PTL DEF Spec, LifecycleSpec, Lifecycle!Spec

=============================================================================
