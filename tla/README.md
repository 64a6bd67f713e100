# Verification of the Supernova dev-server

TLA+ models, TLC runs and TLAPS proofs for the task server under `src/src`: a
SQLite-backed queue of tasks (X2) in front of an OpenCode agent server, fed by
channels (X1), with a side loop that answers the agent's permission requests
and questions (X3) and escalates the rest (X4), the small model that judges
for all of them (Eq1), the page that shows it (control plane) and the processes
it runs as.

## 1. The system

| Component | State it keeps | Operations | Interacts with |
|---|---|---|---|
| **X2 queue and worker** (`x2/queue.ts`, `x2/worker.ts`) | `processingCycle`, the task snapshot a cycle holds across its awaits | `processCycle` = `finalizeRunning` then `dispatchNext`; `ingestEvent`; start-up recovery | store (synchronous), OpenCode server (HTTP), Eq1 client, router |
| **X2 store** (`x2/store.ts`) | `state.db`: `tasks`, `interactions`, `inbound_events`, `metrics_events` | one SQL statement each, one transaction (`claimNextPending`) | every process opens it |
| **X2 router** (`x2/router.ts`) | none | sends the outcome of a terminal task to Telegram, falls back to the console | worker loop |
| **X1 fronts** (`x1/*.ts`, `x1-receive.ts`) | poll offset and batch (memory), `inbound_events`; the direct chatbot's sessions by chat | webhook, long polling, one payload by hand, direct chatbot | Bot API, store, OpenCode server |
| **X3 interactions** (`x3/*.ts`) | `interactions`, ticks of a timer that may overlap | poll requests, classify by session, evaluate, reply or escalate | server, store, Eq1, X4 |
| **X4 escalation** (`x4/*.ts`) | none | summarise, route: report / new_task / auto_relay / skip | store, server, Eq1 |
| **Eq1** (`eq1/*.ts`) | none kept; runs on the server that outlive their caller | one LLM call with retries, a time limit and a fallback provider | X2, X3, X4, OpenCode server |
| **Control plane** (`control-plane/*`) | the page: selection, what is on the screen, requests under way; the registry file | load projects, overview, detail; queue a web task | store, OpenCode server |
| **Processes** (`entrypoint.sh`, `index.ts`, every `parseArgs`) | children, exit codes, the container's status | start, readiness checks, first exit ends all, restart policy; variables to options | everything |
| **OpenCode server, Telegram** (outside the repository) | sessions, messages, open requests; updates | as the code uses them | X1 to X4 |

The workers share nothing but `state.db` and the OpenCode server.  Every
handler is a chain of synchronous stretches (store calls) cut by awaits (HTTP,
LLM); what is true before an await may be false after it.  A process may die
between any two statements, and the container starts it again.

What is hard, and what makes each part correct:

* **X2.** A cycle suspended in one await while events, another worker or a
  restart change its row; failures whose effect on the server is unknown;
  retries that must not prompt twice for one attempt; sessions that are reused
  by source, inherited and reset, and must never mix two chats; outcomes that
  must be reported, once, and stay true; every task must end.
* **X3/X4.** Overlapping ticks on one pending interaction, death between an
  effect (reply, task) and its record, the origin of a request read from the
  tasks table at each poll.  No request of a foreign session may be answered; a
  request of a task's session must be.
* **X1.** Registration of an inbound event and creation of its task are two
  transactions; the poll offset lives in memory; Telegram delivers again until
  it is answered.  No event makes two tasks, a message is lost only to a fault,
  nothing is confirmed that nobody recorded, chats stay apart.
* **Eq1 and what is made of it.** Retries inside fallbacks, calls given up that
  go on: bounded calls, no late answer taken for the next one, no session left
  behind; an answer without a score must not be taken for a safe one, and a
  dangerous request must reach somebody though every call fails.
* **Control plane.** Requests that overlap and are answered in any order, two
  transactions behind one click, an overview read before and after an await.
* **Processes.** One exit must take the whole down and the restart bring it all
  up; the status must tell failure from stop; empty, missing and nonsensical
  variables reach five parsers that treat them differently.

`PROJECT.json` lists the hazards one by one, at their lines, with the properties
aimed at each.

## 2. Modules

| Module | What it is | Code |
|---|---|---|
| `X2Queue` | the tasks table, the worker's cycle, its producers, the server as the queue sees it | `x2/queue.ts`, `x2/worker.ts`, tasks half of `x2/store.ts`, `x2/router.ts` |
| `TaskLifecycle` | what the queue promises about one row; `X2Queue` implements it | – (abstract) |
| `X3Interactions` | interactions table, overlapping ticks, replies, X4's escalation | `x3/*.ts`, `x4/router.ts`, interactions half of `x2/store.ts` |
| `X1Telegram` | updates, offset and batch, parser and event ids, allow list: what all fronts share | `x1/telegram.ts`, the poll loop, the Bot API (external) |
| `X1Ingress` | webhook, poller and `x1-receive` over `inbound_events` and `tasks` | `x1/server.ts`, `x1/webhook.ts`, `x1/poller.ts`, `x1-receive.ts`, events half of `x2/store.ts` |
| `X1Direct` | the direct chatbot and the calls of the server's wrapper it uses | `x1/direct-chatbot.ts`, `opencode-server-wrapper.ts` |
| `Eq1Client` | provider chain, attempts, backoff, fallback, time limit, runs that go on | `eq1/llm-client.ts`, `eq1/providers/*`, `utils/retry.ts` |
| `Judgement` | what X3, X4 and X2 make of Eq1's answers; extends `Eq1Client`, whose steps it waits for | `x3/evaluator.ts`, `x3/policy.ts`, `x4/router.ts`, routing in `x2/queue.ts` |
| `RuntimeOptions` | variables → command lines → options of each worker, as operators | `entrypoint.sh`, `buildChildren`, every `parseArgs` |
| `Supervisor` | container, OpenCode, supervisor, workers; extends `RuntimeOptions`, from which it takes the crew | `entrypoint.sh`, `index.ts`, `compose.yaml` |
| `ControlPlane` | the page's handlers and requests, the server's, the registry | `control-plane/*` |
| `X2QueueMC`, `X3InteractionsMC`, `X1MC`, `JudgementMC`, `SupervisorMC`, `ControlPlaneMC` | instances for TLC; `X1MC` composes the three fronts behind one bot | – |
| `X2QueueProofs`, `X2TaskProofs`, `X3Proofs`, `X1Proofs`, `X1DirectProofs`, `Eq1Proofs`, `SupervisorProofs`, `ControlPlaneProofs` | the theorems of section 5 | – |

### X2Queue

| State | In the code |
|---|---|
| `row[t]` | a row of `tasks`; `session`, `tracked`, `started`, `retry` are its nullable columns (`retry` says whether `retry_at` is unset, ahead or past), `result` is the message the result was made from |
| `pc[w]`, `job[w]` | the await at which worker `w`'s `processCycle` is suspended and the `Task` object it holds there |
| `routing[w]` | calls of `router.route` under way (`onTaskProcessed` is not awaited by the cycle) |
| `log`, `run`, `inbox`, `opened`, `home`, `prompts` | the OpenCode server: messages, what each session generates, prompts accepted and waiting, sessions and the chat they were opened for, prompts accepted per attempt (external) |
| `told[t]` | outcomes sent to the channel |

Actions carry the source's names where one function is one action
(`claimNextPending`, `createSession`, `handleFailure`,
`bindEventMessageToRunningTask`).  `finalizeRunning` is `Finalize…`, `Poll…`,
`Find…`: one action per outcome of each await.  `dispatchNext` is
`claimNextPending` … `PromptReturns`.  `Crash` is the death of the process at any
label; the comment on `Labels` says which await each label stands for.

Where a second process could come between a read of a row and the write that
follows it, the two are two actions: `handleFailure` reads the row and counts,
`RecordFailure` writes; `Boot` lists the running rows, `recoverRunningTasks`
updates one, `Recovered` ends the loop; `FinalizeOrphan` lists a row and
`FinalizeFails` fails it.  No other callback of the same process runs in between
(`Yields`).  `claimNextPending` is one transaction in the code and one action.

### X3Interactions

| State | In the code |
|---|---|
| `ask[r]` | a request on the OpenCode server (external) |
| `row[<<type, r>>]` | the row of `interactions` under UNIQUE(type, request_id); `born` is `created_at`, `action` is what the `answer` column says was done |
| `tasks` | the sessions of the tasks table, as `hasTaskSession` reads them, and the tasks X4 creates, with the interaction each is for |
| `owned` | history: sessions that ever belonged to a task |
| `pc[k]`, `hold[k]` | the await tick `k` is suspended at, the lists and the interaction it holds |

The timer's callback is async and `setInterval` does not wait for it, so `Ticks`
is a set: as many ticks as have not ended, all of one process.  A second worker
process (`--once` beside the daemon) is not modelled: between its ticks and the
daemon's the stretches that are one step here are several transactions.  `consumeList` is the whole synchronous stretch after the two list
calls (both lists, every upsert).  `Escalate` is the stretch from X4's verdict
to its `createTask`; the update of the interaction follows one await later
(`record`), and the death or failing write in between is `Crash` or `WriteFails`.

### X1Telegram, X1Ingress, X1Direct

| State | In the code |
|---|---|
| `sent`, `pending` | the updates of the bot, and those Telegram has not been told are received (external) |
| `offset`, `batch`, `last` | `let offset` of the polling process, what is left of the answer to getUpdates, its last update |
| `events`, `tasks` | `inbound_events` by event id; the tasks X1 inserted |
| `at[p]`, `doing[p]` | where `enqueueTelegramUpdate` or its caller stands, with the payload in hand |
| `phase`, `turn` | the await the chatbot's loop is suspended at, and the update it is at work on |
| `chatSessions`, `sessions` | `chatSessions` of the chatbot; the sessions on the server with the prompts they still have to answer |

`registerInboundEvent`, `createTask`, `markReceived`, `recordMetric` are one
write each; a process may die, or the write throw, between any two.  Telegram
admits one front per bot, so `front` is chosen once; `x1-receive` may run beside
any of them.

### Eq1Client and Judgement

`phase`, `leg`, `attempt` are where the caller of a request is suspended
(`retryAsync`, `executeWithProvider`); `calls` is the history of the request;
`runs` are the `server.run` calls of the internal provider, which
`withTimeout` abandons (`awaited`) but does not end, and `sessions` those on the
server; a run whose creation of a session fails may have left one (`lost`).
`stage` is the await of the judgement; `evaluation`, `decision`, `dispatch` are
the source's objects, with a field that is missing or useless as the empty set.

### RuntimeOptions and Supervisor

`entry` is the line `entrypoint.sh` stands at, `status` the container's exit
status; `sup` the supervisor (`shuttingDown` is `"stopping"`), `verdict` the
code it will exit with; `kids`, `code`, `told`, `heard` are its children, their
exit codes, who was sent SIGTERM and whose exit event was handled.  `crew` says
which workers `buildChildren` makes of the environment and which of them their
own `parseArgs` will refuse.

### ControlPlane

`sel`, `ses`, `view`, `projects` are the page's `state`; `overview`, `detail`,
`result`, `prompt` what is on the screen and in the form; `calls` the requests
under way, each with the loads its handler goes on with (`then`), its snapshot
of rows (`rows`) and its answer.  `tasks` and `metrics` are two tables of each
project's `state.db`, written in two transactions.

## 3. What the runs check

| Run | Bounds | Question |
|---|---|---|
| `lifecycle` | 2 tasks (a chat or the CLI, omo or eq1), 1 worker, 1 shared session, 1 retry, 1 death, `FairSpec` | Does the queue implement `TaskLifecycle`?  Is a task without a chat completed with the answer to its own prompt (`AnswersOwnPrompt`)?  Does every task end, and is it reported unless the worker died (`EveryTaskEnds`)? |
| `kinds` | 1 task of any type, 1 worker, 2 retries, 2 deaths, events, failing writes | Is what was reported said once and never taken back (`ReportsAreFinal`)?  Is each attempt prompted at most once (`EachAttemptPromptedOnce`)? |
| `chats` | 3 tasks, 2 chats, X4 inserting tasks into sessions | Does no chat get text from another chat's session (`ChatIsolation`)? |
| `workers` | 2 worker processes on one table, 2 sessions, 1 retry, 1 death | Is no running row left without an owner, a recovery that will find it, or an accepted prompt (`RunningIsOwned`)? |
| `x3_effects` | 1 request, 2 sessions, 2 overlapping ticks, 1 fault | Answers are real, foreign requests untouched, decisions final, escalations bounded by the ticks under way. |
| `x3_settles` | 2 requests, one of them recorded before origins existed, 1 tick, `FairSpec` | Is every request of a session that keeps its task decided? |
| `x1` | 2 updates of 4 shapes, batches of 2, each front in turn, 1 use of `x1-receive`, 1 death, 1 failing write, 1 failing call | At most one task per event, at most one loss per fault, nothing confirmed unrecorded, one acknowledgement; the chatbot's prompts bounded, its chats apart, its one-shot sessions gone; every update is taken in the end. |
| `judge` | 5 provider environments, every kind of interaction and task, 5 policies, 2 requests, 1 death, nothing promised by a provider | Calls bounded, the answer that of the request's last call, sessions swept; no automatic reply without a score within the threshold, danger heard, risk not simple; every dispatch is routed. |
| `supervisor` | 10 crews and 48 settings of the poll variables, 2 faults (a death, a refused call, a start slower than the readiness checks wait), 30 hand-typed command lines | Workers live under a supervisor, the status tells why, nobody is left behind, everything comes up; waits bounded for any text, one bot reads and answers. |
| `control` | 2 registries (two projects, two ids that clash, one nobody can use), 2 handlers, 1 prompt, 2 tasks, lists of 1, 1 write of a status | The screen follows the selection, the cut lists and the statistics of an overview fit together, a task said to be queued is recorded. |
| `seq`, `token` | the smallest instance that shows it | expected violations, section 6 |

Two tasks are enough for what one running row does to another (only the oldest
is polled, claims look at the whole table); the third of `chats` is the one
that X4 inserts between two chats.  One retry makes a first and a last attempt,
two make a middle one.  Two workers or ticks are the least that overlap, and
the proved theorems hold for any number.  One or two faults put a death or a
failing write at every await once or twice.  `MaxTasks` bounds only how often
X2 gives a session to a task; with 2 instead of 1 the `x3_effects` run also
passes (3.9 million states) and is left at 1 for time.  In `x1` two updates make
a batch with a first and a last one, an update and its edit, a redelivery across
a restart.  In `judge` an attempt limit of 2 has a retry and a last attempt, and
two requests a late answer to the wrong one; policies and prompts vary with one
provider chain and chains with one policy, since what is asked does not depend
on what the answer is used for (`MCInit`).  In `supervisor` no environment starts
more than two kinds of worker: a shutdown treats all it did not hear of alike.
In `control` two handlers are the loads of the page and one click while they
are under way or after; two tasks and lists of one cut both lists, and one write
of a status, with one task more, is what may come between the two reads.  The
theorems hold for any number of them.

`lifecycle`, `kinds`, `chats`, `workers`, `x3_effects` and `x3_settles` check for
deadlock.  The others do not, because the system they show may really stop: all
updates taken and no front wanting more, a judgement made, a container asked to
stop, a page nobody clicks on.

Every property has a mutant in `PROJECT.json`: a change of one mapped
definition (a dropped guard, a stale snapshot, a query without its WHERE, an
offset one too far, a late answer taken for the awaited one) under which the
same run finds it violated.

## 4. Fairness

`X2Queue!FairSpec`: the timer of `x2/worker.ts` keeps starting cycles and each
HTTP call settles (`WF processCycle`, `WF Deliver`); `compose.yaml:36` restarts
a worker that died (`WF Start`); a retry's delay elapses (`WF RetryDue`); the
agent server finishes what it generates (`WF ServerFinishes`).  Nothing makes
it *begin* a prompt: the task must end all the same, and does, because a
session that is idle without an answer is a failed attempt.  Producers and
events have no fairness.

`X3Interactions!FairSpec`: the timer keeps starting ticks and calls settle
(`WF` on a tick's steps).  The two list calls and Eq1 may fail any number of
times but not for ever (`SF` on the complete listing and on `Evaluate`):
`processNext` looks at the oldest pending row only and an Eq1 failure ends the
tick with the row still pending, so without the second assumption one row that
Eq1 always fails on would hold up all later ones.

`X1Ingress!IngressFairness`: a process that can run does, and is restarted;
Telegram repeats a delivery until one is answered and its answer arrives (`SF`:
a delivery may be interrupted again and again, and an answer lost).
`X1Direct!DirectFairness`: the chatbot's loop goes on, and the server answers
what it accepted or fails it: `prompt()` has no time limit of its own.

`Judgement!Fairness`: timers fire (a call's time limit, a backoff) and the worker
takes its next step.  Nothing is assumed of a provider.  The summaries that X4
and X2 have an agent write (`utils/opencode-agent.ts:436`) are runs without a
time limit: that they end is assumed by making them part of a step.

`Supervisor!Fairness`: processes run and their timers fire, an OpenCode that
lives comes up in the end, the restart policy acts (`compose.yaml:36`).  That a child handles SIGTERM in
time is not assumed: the SIGKILL after the grace period is what counts.  Nor is that
OpenCode comes up before the readiness checks give up (`OPENCODE_READY_TIMEOUT_MS`,
30 s): a start slower than that is one of the finitely many faults, after which
the container is started again; were every start that slow, it would never come up.

`ControlPlane` has none: its properties are safety ones.

## 5. What is proved

TLAPS checks the following for every value of the constants that satisfies the
named assumptions (`QueueAssumption`, `InteractionsAssumption`, `X1Assumption`,
`IngressAssumption`, `DirectAssumption`, `Eq1Assumption`, `JudgementAssumption`,
`FieldsAssumption`, `SupervisorAssumption`, `ControlPlaneAssumption`): any number
of tasks, workers, sessions, requests, ticks, updates, environments, handlers,
deaths and failures.  The assumptions say of what type a constant is, that a worker has
finitely many ticks under way (`InteractionsAssumption`) and that a registry has
finitely many entries (`ControlPlaneAssumption`).

### X2Queue

* **`TypeCorrect`** in `X2QueueProofs`, as in `X3Proofs`, `X1Proofs` and
  `SupervisorProofs`, and `Eq1Proofs!ClientTypeCorrect`: type correctness of
  `X2Queue`, `X3Interactions`, `X1Ingress`, `Supervisor` and `Eq1Client`.  They
  are not checked by a run any more; those of `X1Direct` (`DirectTypeCorrect`),
  `Judgement` (`JudgementTypeCorrect`) and `ControlPlane`
  (`ControlPlaneTypeCorrect`) are proved as well as checked.
* **`X2QueueProofs!RetryBudget`**: `OneWorker => (Spec => []EachAttemptPromptedOnce)`.
  The property is not inductive: a cycle holds a snapshot of a row that an event, a
  failure or a recovery changes.  `BudgetInv` (`AttemptsAccounted`) adds what makes it
  so: a dispatching worker holds an attempt that is not prompted yet (`HeldOnce`); no
  attempt beyond the row's counter was prompted (`PromptsCounted`); the attempt a
  waiting row would start next is neither prompted nor held (`NextAttemptFree`); and
  a failure about to be written counts one attempt more than the row
  (`FailureCounted`).  The last is where the hypothesis is needed: with two workers
  a row may be claimed, or counted on, between the read and the write of
  `handleFailure`, and the property is false (section 6).
* **`X2TaskProofs!ChatsAreIsolated`**: `Spec => []ChatIsolation`, and
  **`OwnPromptsAnswered`**: `Spec => [](~X4Enqueues => AnswersOwnPrompt)`.  Both
  rest on `SessionInv` (`SessionsAreKept`): a task that uses a session, through its row,
  a snapshot, a waiting prompt or a message, has the chat the session was opened
  for or none (`UsersAtHome`), and shares it with no task if it has none, unless X4
  binds rows to sessions (`ChatlessAlone`).  Reuse by source carries it: a source
  has one chat.
* **`X2TaskProofs!NothingLeftRunning`**: `Spec => [](~StoreMayFail =>
  RunningIsOwned)`.  The property counts a worker with an old snapshot as an
  owner, and such a worker leaves without a trace; `OwnedInv`
  (`RunningRowsAreOwned`) names those that do not (`Keeps`): a worker that is down,
  one that has listed the row for recovery, one about to record its failure, and one
  that dispatches the very attempt counted on the row, which knows its session from
  the moment it is bound (`Live`).  It holds for any number of workers, although a
  read and the write after it are two steps.
* **`X2TaskProofs!ReportsStand`**: `Spec => [](OneWorker => ReportsAreFinal)`,
  with writes that fail as well.  `Solo` adds what is still to be said: a report
  under way is the only one of its row and says what the row says, of a row that
  has not ended there is none (`ReportsFit`), and a worker is at work on rows that
  run, under the attempt it has in hand (`WorkFits`).
* **`X2TaskProofs!QueueIsALifecycle`**: `OneWorker /\ ~StoreMayFail => (Spec =>
  LifecycleSpec)`, the refinement.  `Solo` and `BudgetInv` are what the simulation
  needs: a failure is recorded of a row that runs, with one attempt more
  (`RecordMaps`), and only running rows are interrupted.  With two workers it is false
  (an orphan that one fails and the other completes), and so it is when the
  metric row after `completed` cannot be written (`MetricFails`).

### X3Interactions

* **`X3Proofs!AnswersAreReal`**: `Spec => []AnsweredHasEffect`, from
  `EffectInv` (`EffectsAreRecorded`): a tick about to record an answer already
  had its effect, and no step takes an effect back (`NextLasts`).
* **`X3Proofs!ForeignersLeftAlone`**: `Spec => []ForeignUntouched`, from
  `ForeignInv` (`PendingIsOwned`): what is pending or held by a tick belongs to a
  session that a task had when it was classified; requests keep their session;
  tasks refer to recorded interactions.
* **`X3Proofs!DecisionsStand`**: `Spec => DecidedStaysDecided`, an action property.
* **`X3Proofs!EscalationsStayBounded`**: `Spec => []EscalationsBounded`.  The bound on the
  tasks made for an interaction is not inductive: a tick that is on its way may
  still add one.  `EscalationInv` (`EscalationsAreCounted`) adds to them the ticks
  that may (`MayEscalate`): while the interaction is undecided all but those about
  to record it, once it is decided only those that passed their last recheck.  A
  tick leaves that set with the escalation it makes and comes back only by a
  fault, which pays for all ticks at once.

The X3 proofs go through four lemmas that say what one step can do to a row
(`RowSteps`), a tick (`TickSteps`), a request (`AskSteps`) and a task
(`TaskSteps`); each theorem then only combines them.

### X1Ingress and X1Direct

* **`X1Proofs!NoEventMakesTwoTasks`**: `Spec => []OneTaskPerEvent`.  Inductive
  with: every task has its event's row, and of the processes that stand between
  a row and its task (`registered`) at most one is there for each event, which
  has no task yet.  It is the ON CONFLICT of the registration that carries it.
* **`X1Proofs!NothingConfirmedUnseen`**: `Spec => []ConfirmedIsRecorded`, from: an
  update below the poller's offset, or of its batch and no longer in it, is
  recorded or refused by the list of users, or is the one in hand.
* **`X1Proofs!NoticesAreGivenOnce`**: `Spec => []AckedOnce`, from `AckInv`: the task
  that the front is about to announce has not been announced.  It announces
  only what it made itself, and a task is made without a notice.
* **`X1Proofs!LossesArePaidFor`**: `HandMadeApart => (Spec => []OneLossPerFault)`.  The
  hypothesis is needed: a payload made up for `x1-receive` with the number of an
  update yet to come makes that update a duplicate, with no fault at all, and TLC
  shows it.  `HandMadeApart` says that no payload does, and the run's payloads do
  not.  `LossInv` counts the recorded messages without a task that no process holds
  (`Orphans`); a step adds at most one, and only a death or a failing write adds any.

The chatbot's theorems are about `DirectSpec`, the chatbot as the front of its bot
by itself.  In the run `x1` the front varies; with another front the chatbot
does not run and its properties say nothing, with `direct` the steps are those of
`DirectSpec`.

* **`X1DirectProofs!PromptsAreBounded`**: `DirectSpec => []PromptsBounded`, from
  `BoundInv` (the offset never returns to an update within one life of the process)
  and `PromptInv`, which adds to the prompts sent for an update those that the turn
  in hand may still send (`Left`).
* **`X1DirectProofs!NothingConfirmedUntaken`**: `DirectSpec => []ConfirmedIsTakenUp`,
  from `TakenInv`: what lies before the offset, and what the batch leaves out before
  any of its updates, was taken up or needs no answer.  It rests on Telegram's
  answer having no gap (`AnswerHasNoGap`).
* **`X1DirectProofs!ChatsStayApart`**: `DirectSpec => []ChatsApart`, from `ApartInv`: a
  session kept for a chat holds only what is of that chat and is kept for no other,
  and so does the session in hand, which may be kept for none.
* **`X1DirectProofs!FaultsLeaveSessions`**: `DirectSpec => []OneshotLeavesNothing`, from
  `LeftInv`: every live session but the one in hand is paid for by a death, by a
  deletion that failed, or by a creation whose response was lost (`createSessionLost`).

### Eq1Client and Judgement

* **`Eq1Proofs!RequestsEnd`**: `Spec => []CallsBounded`, for the whole of
  `Judgement`.  `CallsCounted` says that the fallback's attempts come on top of
  those of the primary, and only where there is a fallback.
* **`Eq1Proofs!NoSessionIsForgotten`**: `Spec => []SessionsAreSwept`, from `Owned`: a
  run that has yet to create its session has none, and no two runs are one.
  Exempt are the sessions in `lost`: of a creation whose response was lost (the
  call stands before the `try` of `run`), a deletion that failed, or a process
  that died.
* **`Eq1Proofs!NoLateAnswer`**: `Spec => []AnswerIsToItsRequest`: the answer comes from
  the request's last call (`answeredBy`), not only is it of the right type.  From
  `Current`: a run whose race with the timer is open is that of the last call, and
  the caller waits for it; so there is at most one, for no two runs are one
  (`Owned`).
* **`Eq1Proofs!RepliesAreEarned`**: `Spec => []AutoReplyIsEarned`: under a policy
  that looks at the score, with a threshold below 10, an automatic reply has a score
  from Eq1, and one within the threshold.  **`DangerReachesSomebody`**: `Spec =>
  []DangerIsHeard`: a request with a score above 6 is dropped only on Eq1's own word
  (joshua decisions apart, which the code drops by itself).  Both rest on `JudgedInv`: what is
  judged waits for an answer of the kind it asked for (`Coupled`), the evaluation was
  made of one (`Evaluated`), and a decision follows from the policy and the score, or
  from Eq1's own word (`Decided`).  That an answer is to its request
  (`NoLateAnswer`) is what the step `Decide` needs.
* **`Eq1Proofs!RiskGoesToTheComplexAgent`**: `Spec => []RiskIsNotSimple`: the label of the
  simple agent needs a text with cues of simplicity alone, if there are cues, and
  a short prompt or Eq1's word.  From `Dispatched`: only a task is dispatched, and
  where it went stays justified.

The Eq1 proofs go through what a settled call does (`SettleStep`) and which runs
it leaves and starts (`Launches`).

### Supervisor

* **`SupervisorProofs!WorkersAreSupervised`**: `Spec => []LivesUnderSupervision`,
  from `Housed`: a container that is not up has no supervisor, and one that
  starts none left from its last run.
* **`SupervisorProofs!FailuresShow`**: `Spec => []StatusTellsWhy`, from `Reasoned`: a
  supervisor that is to exit with 0 has a reason before the status says so, the
  dead keep their codes, and nobody is told to stop while it watches.  An OpenCode
  that itself ends with 0 is a reason of its own, for `wait -n` passes its status on.
* **`SupervisorProofs!WaitsStayBounded`**: `Spec => []WaitsAreBounded`, and
  **`OneBotAnswers`**: `Spec => []SameBotAnswers`, for any contents of the variables and any
  command line.  What is proved is what the loops of the `parseArgs` keep from one
  argument to the next: the numbers of the poll options are numbers (`Counted`), the
  token is that of the command line if it has one (`Named`), each wait of X2 is one
  number or none (`Waited`).  **`BackoffGrows`** says of `computeBackoffDelay` for every
  attempt what the property says of the first four.

### ControlPlane

* **`ControlPlaneProofs!QueuedTasksAreRecorded`**: `Spec => []QueuedIsRecorded`, and
  **`OverviewsFitTogether`**: `Spec => []OverviewFitsTogether`, for any list of projects
  and any number of handlers.  `ControlInv` says of every request under way what its
  answer may be made of: an overview's rows are those of an earlier state of the
  project (`Earlier`), and since the tables only grow (`Grows`), whatever becomes of
  the statuses, the statistics read later cover them; a form's answer is of a task
  that has its record.  That a listed web task has its thread listed, though both
  lists are cut, is `ListedThread`: no more threads have a later task than there are
  later tasks.
* **`ControlPlaneProofs!TheScreenFollows`**: `Spec => []ScreenFollowsSelection`, from
  `Following`: until two loads of an overview overlap or one fails, the page waits for
  no overview but that of the selected project, and waits for it or shows it.

### Model-checked only

Liveness, since the prover knows neither fairness nor ENABLED: `EveryTaskEnds`,
`OwnRequestsAreSettled`, `EveryUpdateIsTaken`, `EveryDispatchIsRouted`,
`NobodyLeftBehind` and `ComesUp`.  Every other property of a passing run is stated
by a theorem.

The library's induction over numbers takes an operator as its parameter and
cannot be used here.  Where a proof needs induction it takes the least
counterexample of a set instead (`LeastNatural`, from the well-foundedness of < on
Nat): for a first element of a sequence (`FirstOfTexts`), and in `SupervisorProofs`
for the values of a recursive function and for its existence (`Inductive`,
`ReadExists`, `DoublingExists`).

## 6. Where the code does not do what the repository says

Two are expected violations of a run; `PROJECT.json` quotes the lines.

* `seq`: two tasks of one chat run at the same time (`docs/SCHEMA.md:296`).
* `token`: a container given only TELEGRAM_BOT_TOKEN, which the poller's own
  error message accepts (`x1/poller.ts:317`), ends at once with that message:
  `entrypoint.sh:36` exports the newer variable empty, and `??` stops at it.

Stated in the modules, under "Statements of the repository that the code does
not keep", and found violated while modelling, without a run of their own:

* `X2Queue!AnswerIsSettled`: a task may complete with an answer still being
  written (`x2/queue.ts:669`).
* `X2Queue!RecoversOnlyStale`: a second worker fails tasks that the first is
  dispatching (`x2/queue.ts:670`).  For the same reason `ReportsAreFinal` is
  checked with one worker only: with two, one reports as failed an orphan that
  the other then completes.  And so is `EachAttemptPromptedOnce`: of two workers
  that both fail a row, the second may have read its counter before the first wrote
  it; the row is claimed for the next attempt, put back by the stale write with the
  count it had, and claimed for the same attempt again.
* `X3Interactions!ObservedIsExternal`: a managed interaction becomes `observed`
  when its task forgets the session (`docs/SCHEMA.md:103`).
* `X3Interactions!DecidesPendingOnly`: two ticks decide one interaction twice,
  answered and then rejected (`docs/SCHEMA.md:285`).

Visible in the models, no statement against them: one failed status call puts a
task whose agent is still working back in the queue (`PollFails`); when the
metric row after `completed` cannot be written the completed task is failed or
queued again (`MetricFails`); a JOSHUA_DECISION question gets a second row, under
another type, when its session's origin changes between two polls
(`effectiveType`); a death between an event's registration and its task loses
the message for good, since its redelivery is a duplicate (`OneLossPerFault`
allows it exactly that); a policy threshold of 10 replies automatically to what
has no score at all (`AutoReplyIsEarned` excepts it); the direct chatbot, which
asks OpenCode's health once, takes the container down whenever it is the faster
one (`ComesUp` leaves it out); two overlapping loads of the page may leave the
overview of one project under the name of another (`disturbed`); a session whose
creation the server accepted and whose response is lost is deleted by nobody, for
`run` creates it before its `try` (`opencode-server-wrapper.ts:742`;
`createSessionLost`, `lost`); an OpenCode that ends with 0 ends the container with 0,
which looks like an orderly end (`WaitReturns`), though `unless-stopped` starts it
again.

## 7. Abstractions

* X2: time is the number of messages that exist; `startedAt` is the index of the
  next one.  A retry delay has elapsed or not, and the order among due retries
  is left open.  `notifyStarted` and the Eq1 run of an Eq1 task are awaits at one
  label (`claimed`).  Two pairs of a read and a write are one step though a second
  process could come between them: the lookup of a session to reuse and its
  binding (only the session's chat matters, which never changes), and an event's
  choice of a row and its update.  Telegram and its console fallback are one `Deliver`; message texts, agent
  and model columns, `completedAt` and error texts are left out; list limits
  (10, 40, 400) are larger than any instance.  A `message.updated` event may
  concern any existing assistant message, at any time.  Messages without a
  creation time are not modelled.
* X3: one worker process.  `upsertInteraction` reads a row and writes back the
  status it read (`x2/store.ts:668`), which nobody can come between but a second
  process.  Both list calls of a poll see one snapshot, and so do the lookups of
  the sessions it lists in `tasks`; rows first recorded by one poll share their birth
  order.  A request without a session is as foreign as one of
  a foreign session.  In `X3Interactions` Eq1's verdict and the policy are one
  choice between reply and escalation, and the route call's answer is any
  action; `Judgement` has them in full.  The responder without an X4 router is
  not modelled: the worker always gives it one.  A worker whose Eq1 cannot be
  configured only detects, which is `MaxProcess = 0`.  A session that a task is
  given again after a reset is a new row of `tasks`.
* X1: updates are numbered from 1; a text is its body kind and its length, a hash
  of a payload is the payload.  Refused HTTP requests to the webhook change
  nothing and are no steps.  The long reply that is cut into several messages is
  one.
* Eq1: an answer is what its reader looks at (action, score, cues of risk and
  simplicity per text); error texts are "passing" or "lasting".
* Options: a text is a literal, a number a set with at most one member, `NaN`
  none.  Of the older names a chain of variables ends with one stands for all;
  the X2 agents' own variables are at their defaults, their flags are not.
* Processes: the grace period is one step, whatever its length, and so is the time
  limit of a readiness check (`ReadinessTimesOut`).  The OpenCode dashboard and its
  proxy, which `entrypoint.sh` starts, checks and waits for only with
  `OPENCODE_DASHBOARD_ENABLED=1` (off by default), are not modelled: it is off.
* Control plane: a request may fail at any moment until its answer is used
  (`ErrorShown`); `TaskArrives` and `TaskMoves` are X2, other pages and every other
  source of tasks; of the views only sessions differ from the others; a row of a
  table is its thread and its status, at a place for its creation time, and
  interactions, agents and metrics, which an overview lists as well, are left out.
  The two limits of its lists, both 12, are one constant (`ListLimit`).

Not modelled:

* `x2/summarizer.ts`, `channels/*` texts, `utils/logging.ts`: formatting, no state.
* `scripts/generate-opencode-config.ts`, `dev-up.sh`, `dashboard-screenshot.ts`,
  `scripts/dashboard-proxy.ts`: one-shot tools, or the proxy of a dashboard that is off.
* `dev_code/script/*` but `x1-receive.ts`: reports read from the tables, and calls
  of one endpoint run by hand.
* `eq1/smoke.ts`, `eq1/providers/mock-provider.ts`, tests: test code.
* The HTTP plumbing of `opencode-server-wrapper.ts` beyond the calls named above.
* X2 and X3 over one tasks table: see below.

## 8. Plan

Done: everything in section 2.  What is left, in this order:

1. `Supernova`: X2 and X3 over one tasks table.  An escalated question is marked
   answered although no reply went to the server (`x3/responder.ts:147`): which
   tasks then wait, and under which answers of the user they end.  At the bounds
   either module needs the product is beyond TLC; it takes an abstraction of
   each first.
2. A specification of what the ingress promises the queue (each message is one task,
   or lost and paid for by a fault), which `X1Ingress` is then proved to implement as
   `X2Queue` implements `TaskLifecycle`.
