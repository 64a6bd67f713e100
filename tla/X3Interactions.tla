---------------------------- MODULE X3Interactions ----------------------------
(***************************************************************************)
(* X3 and X4: the permission requests and questions that agents ask, from  *)
(* the poll that records them in the interactions table to the reply or    *)
(* the escalation that decides them (x3/*.ts, x4/router.ts, and the        *)
(* interactions half of x2/store.ts).                                      *)
(*                                                                         *)
(* The timer starts a tick whether or not the one before has ended, so     *)
(* several ticks may be suspended at once, each at one of its awaits.  All *)
(* are of one worker process: what it does between two awaits is one step. *)
(***************************************************************************)
EXTENDS Naturals, Sequences, FiniteSets

CONSTANTS
  Requests,   \* request ids of the OpenCode server
  Sessions,   \* its sessions, those of X2's tasks and those of other users
  Ticks,      \* how many ticks may be under way at once
  Legacy,     \* requests recorded before rows had an origin
  MaxProcess, \* --max-process, interactions a tick handles
  MaxTasks,   \* bound on the tasks X2 is given
  MaxFaults   \* bound on process deaths and failing writes of state.db

ASSUME InteractionsAssumption ==
  /\ IsFiniteSet(Requests) /\ IsFiniteSet(Ticks)
  /\ Requests \subseteq Nat \ {0}
  /\ Sessions \subseteq Nat \ {0}
  /\ Legacy \subseteq Requests
  /\ MaxProcess \in Nat
  /\ MaxTasks \in Nat
  /\ MaxFaults \in Nat

VARIABLES
  ask,     \* the requests as the OpenCode server has them
  row,     \* the interactions table, by UNIQUE(type, request_id)
  tasks,   \* the rows of the tasks table, as far as sessions go
  owned,   \* history: sessions that ever belonged to a task
  pc,      \* where each tick is suspended
  hold,    \* what a tick keeps across its awaits
  faults   \* deaths and failing writes so far

vars == <<ask, row, tasks, owned, pc, hold, faults>>

\* A "joshua" request is a question whose text starts with JOSHUA_DECISION:
Kinds == {"permission", "question", "joshua"}

Keys == Kinds \X Requests

None == 0

NoAsk == [state |-> "none", kind |-> "question", session |-> None]

NoRow == [status |-> "absent", origin |-> "unknown", session |-> None,
          action |-> "none", born |-> 0]

NoKey == <<"none", None>>

NoHold == [seen |-> {}, done |-> 0, key |-> NoKey, action |-> "none"]

\* off        no tick in this slot      list      listPermissions, listQuestions
\* consume    both lists are in         next      head of the processing loop
\* evaluate   Eq1 evaluates             route     X4 summarises, Eq1 routes
\* relay      X4's replyQuestion        record    escalated, not yet recorded
\* reply      replyPermission/Question  replied   accepted, not yet recorded
\* failed     in the catch of respond
Labels == {"off", "list", "consume", "next", "evaluate", "route", "relay",
           "record", "reply", "replied", "failed"}

\* A request of a session that has none is as foreign as one of a foreign
\* session, so every request names a session here.
LegacyAsk(kind, s) == [state |-> "open", kind |-> kind, session |-> s]

LegacyRow(s) == [NoRow EXCEPT !.status = "pending", !.session = s, !.born = 1]

Init ==
  /\ \E kind \in Kinds \ {"joshua"}, s \in Sessions :
       /\ ask = [r \in Requests |->
                   IF r \in Legacy THEN LegacyAsk(kind, s) ELSE NoAsk]
       /\ row = [k \in Keys |->
                   IF k \in {kind} \X Legacy THEN LegacyRow(s) ELSE NoRow]
  /\ tasks = <<>>
  /\ owned = {}
  /\ pc = [k \in Ticks |-> "off"]
  /\ hold = [k \in Ticks |-> NoHold]
  /\ faults = 0

-----------------------------------------------------------------------------
(* The agents' side, and X2's tasks. *)

Ask(r) ==
  /\ ask[r].state = "none"
  /\ \E kind \in Kinds, s \in Sessions :
       ask' = [ask EXCEPT ![r] = LegacyAsk(kind, s)]
  /\ UNCHANGED <<row, tasks, owned, pc, hold, faults>>

\* Somebody answers in the agent's own interface, or the session is aborted.
Close(r) ==
  /\ ask[r].state = "open"
  /\ ask' = [ask EXCEPT ![r].state = "closed"]
  /\ UNCHANGED <<row, tasks, owned, pc, hold, faults>>

InsertTask(s, key, type) ==
  /\ tasks' = Append(tasks, [session |-> s, key |-> key, type |-> type])
  /\ owned' = owned \cup {s}

\* A task is given a session by X2's dispatch.
BindSession(s) ==
  /\ Len(tasks) < MaxTasks
  /\ InsertTask(s, NoKey, "omo_request")
  /\ UNCHANGED <<ask, row, pc, hold, faults>>

\* A failed attempt forgets it (handleFailure with resetSession).
ResetSession(i) ==
  /\ tasks[i].type = "omo_request" /\ tasks[i].session # None
  /\ tasks' = [tasks EXCEPT ![i].session = None]
  /\ UNCHANGED <<ask, row, owned, pc, hold, faults>>

hasTaskSession(s) == \E i \in DOMAIN tasks : tasks[i].session = s

-----------------------------------------------------------------------------
(* The detector. *)

At(k, label) == pc[k] = label

Goto(k, label, h) ==
  /\ pc' = [pc EXCEPT ![k] = label]
  /\ hold' = [hold EXCEPT ![k] = h]

Pause(k, label, h) ==
  /\ Goto(k, label, h)
  /\ UNCHANGED <<ask, row, tasks, owned, faults>>

StartTick(k) ==
  /\ At(k, "off")
  /\ Pause(k, "list", NoHold)

OpenAsks(kinds) == {r \in Requests : ask[r].state = "open" /\ ask[r].kind \in kinds}

\* Each of the two calls returns what is open, or fails and counts as empty.
ListRequests(k) ==
  /\ At(k, "list")
  /\ \E kinds \in {Kinds, {"permission"}, {"question", "joshua"}, {}} :
       Pause(k, "consume", [hold[k] EXCEPT !.seen = OpenAsks(kinds)])

\* Mutant: every session counts as one of ours.
resolveOriginAlwaysManaged(s) == "managed"

resolveOrigin(s) == IF hasTaskSession(s) THEN "managed" ELSE "external"

effectiveType(r) ==
  IF ask[r].kind = "joshua" /\ resolveOrigin(ask[r].session) # "managed"
  THEN "question" ELSE ask[r].kind

KeyOf(r) == <<effectiveType(r), r>>

statusOf(origin) == IF origin = "managed" THEN "pending" ELSE "observed"

Recorded == {q \in Keys : row[q].status # "absent"}

newRow(q, origin) ==
  [status |-> statusOf(origin), origin |-> origin, session |-> ask[q[2]].session,
   action |-> "none", born |-> Cardinality(Recorded) + 1]

\* Mutant: ON CONFLICT marks every row of a foreign session observed.
seenAgainWhateverStatus(q, origin) ==
  [row[q] EXCEPT !.origin = IF @ = "unknown" THEN origin ELSE @,
                 !.status = IF origin = "external" THEN "observed" ELSE @]

\* ON CONFLICT: an unknown origin is upgraded; a pending row whose session no
\* task has any more is only observed from now on.
seenAgain(q, origin) ==
  [row[q] EXCEPT !.origin = IF @ = "unknown" THEN origin ELSE @,
                 !.status = IF @ = "pending" /\ origin = "external"
                            THEN "observed" ELSE @]

upsertInteraction(q) ==
  LET origin == resolveOrigin(ask[q[2]].session)
  IN IF row[q].status = "absent" THEN newRow(q, origin) ELSE seenAgain(q, origin)

Upserted(S) ==
  row' = [q \in Keys |-> IF q \in {KeyOf(r) : r \in S}
                         THEN upsertInteraction(q) ELSE row[q]]

consumeList(k) ==
  /\ At(k, "consume")
  /\ Upserted(hold[k].seen)
  /\ Goto(k, "next", [hold[k] EXCEPT !.seen = {}])
  /\ UNCHANGED <<ask, tasks, owned, faults>>

\* A write throws halfway and the tick is over.
ConsumeFails(k) ==
  /\ At(k, "consume") /\ faults < MaxFaults
  /\ \E S \in SUBSET hold[k].seen : Upserted(S)
  /\ faults' = faults + 1
  /\ Goto(k, "off", NoHold)
  /\ UNCHANGED <<ask, tasks, owned>>

-----------------------------------------------------------------------------
(* The processing loop of a tick. *)

PendingOf(origin) ==
  {q \in Keys : row[q].status = "pending" /\ row[q].origin = origin}

Oldest(q, S) == q \in S /\ \A p \in S : row[q].born <= row[p].born

\* Mutant: the status is not looked at.
nextPendingAnyStatus(q) ==
  Oldest(q, {p \in Keys : row[p].status # "absent" /\ row[p].origin = "managed"})

\* Mutant: managed rows are not asked for.
nextPendingUnknownOnly(q) == Oldest(q, PendingOf("unknown"))

\* Managed rows first; then rows from before origins existed.
nextPending(q) ==
  \/ Oldest(q, PendingOf("managed"))
  \/ PendingOf("managed") = {} /\ Oldest(q, PendingOf("unknown"))

ProcessNext(k) ==
  /\ At(k, "next") /\ hold[k].done < MaxProcess
  /\ \E q \in Keys :
       /\ nextPending(q)
       /\ Pause(k, "evaluate", [hold[k] EXCEPT !.done = @ + 1, !.key = q])

TickEnds(k) ==
  /\ At(k, "next")
  /\ \/ hold[k].done = MaxProcess
     \/ PendingOf("managed") \cup PendingOf("unknown") = {}
  /\ Pause(k, "off", NoHold)

\* Eq1's verdict and the auto-reply policy.
Evaluate(k) ==
  /\ At(k, "evaluate")
  /\ \E label \in {"reply", "route"} : Pause(k, label, hold[k])

EvaluateFails(k) ==
  /\ At(k, "evaluate")
  /\ Pause(k, "off", NoHold)

TypeOf(q) == q[1]
RequestOf(q) == q[2]

\* The server takes the first reply to an open request.
Accepts(q) ==
  /\ ask[RequestOf(q)].state = "open"
  /\ ask' = [ask EXCEPT ![RequestOf(q)].state = "replied"]

\* A call that fails may have been accepted all the same.
FailedCall(q) == Accepts(q) \/ UNCHANGED ask

ReplyAccepted(k) ==
  /\ At(k, "reply")
  /\ Accepts(hold[k].key)
  /\ Goto(k, "replied", [hold[k] EXCEPT !.action = "auto"])
  /\ UNCHANGED <<row, tasks, owned, faults>>

ReplyFails(k) ==
  /\ At(k, "reply")
  /\ FailedCall(hold[k].key)
  /\ Goto(k, "failed", hold[k])
  /\ UNCHANGED <<row, tasks, owned, faults>>

-----------------------------------------------------------------------------
(* X4: what to do with an interaction that is not answered automatically. *)

\* The session of an X4 task is the one recorded with the interaction.
Escalate(k, action) ==
  /\ IF action = "skip" THEN UNCHANGED <<tasks, owned>>
     ELSE InsertTask(row[hold[k].key].session, hold[k].key,
                     IF action = "new_task" THEN "omo_request" ELSE "report")
  /\ Goto(k, "record", [hold[k] EXCEPT !.action = action])
  /\ UNCHANGED <<row, faults>>

fallbackActions(type) == IF type = "joshua" THEN {"skip"} ELSE {"report", "skip"}

\* The route call names an action, or fails and leaves the fallback; a
\* permission cannot be relayed.
RouteEscalates(k) ==
  /\ At(k, "route")
  /\ \E action \in {"report", "new_task", "skip"} : Escalate(k, action)
  /\ UNCHANGED ask

RouteRelays(k) ==
  /\ At(k, "route") /\ TypeOf(hold[k].key) # "permission"
  /\ Pause(k, "relay", hold[k])

RelayAccepted(k) ==
  /\ At(k, "relay")
  /\ Accepts(hold[k].key)
  /\ Goto(k, "record", [hold[k] EXCEPT !.action = "auto_relay"])
  /\ UNCHANGED <<row, tasks, owned, faults>>

\* Mutant: the failed relay counts as done.
RelayFailsUnnoticed(k) ==
  /\ At(k, "relay")
  /\ FailedCall(hold[k].key)
  /\ Goto(k, "record", [hold[k] EXCEPT !.action = "auto_relay"])
  /\ UNCHANGED <<row, tasks, owned, faults>>

RelayFails(k) ==
  /\ At(k, "relay")
  /\ FailedCall(hold[k].key)
  /\ \E action \in fallbackActions(TypeOf(hold[k].key)) : Escalate(k, action)

-----------------------------------------------------------------------------
(* What was done is recorded. *)

updateInteraction(k, status, action) ==
  row' = [row EXCEPT ![hold[k].key].status = status,
                     ![hold[k].key].action = action]

\* Mutant: a processed interaction is counted again.
NextOfCountedTwice(k) ==
  [hold[k] EXCEPT !.done = @ + 1, !.key = NoKey, !.action = "none"]

NextOf(k) == [hold[k] EXCEPT !.key = NoKey, !.action = "none"]

RecordAnswered(k) ==
  /\ At(k, "record") \/ At(k, "replied")
  /\ updateInteraction(k, "answered", hold[k].action)
  /\ Goto(k, "next", NextOf(k))
  /\ UNCHANGED <<ask, tasks, owned, faults>>

RecordRejected(k) ==
  /\ At(k, "failed")
  /\ updateInteraction(k, "rejected", "none")
  /\ Goto(k, "next", NextOf(k))
  /\ UNCHANGED <<ask, tasks, owned, faults>>

\* A write throws: before or after the row was updated, since the metric row
\* is written next.  After a reply the catch of respond takes over; anywhere
\* else the tick is over, on the way out of a failed relay as well.
WriteFails(k) ==
  /\ faults < MaxFaults
  /\ faults' = faults + 1
  /\ \/ /\ At(k, "replied")
        /\ UNCHANGED row \/ updateInteraction(k, "answered", hold[k].action)
        /\ Goto(k, "failed", hold[k])
     \/ /\ At(k, "record")
        /\ UNCHANGED row \/ updateInteraction(k, "answered", hold[k].action)
        /\ Goto(k, "off", NoHold)
     \/ /\ At(k, "failed")
        /\ UNCHANGED row \/ updateInteraction(k, "rejected", "none")
        /\ Goto(k, "off", NoHold)
     \/ /\ At(k, "next") \/ At(k, "route") \/ At(k, "relay")
        /\ UNCHANGED row
        /\ Goto(k, "off", NoHold)
  /\ IF At(k, "relay") THEN FailedCall(hold[k].key) ELSE UNCHANGED ask
  /\ UNCHANGED <<tasks, owned>>

\* The process dies with all its ticks and is started again.
Crash ==
  /\ faults < MaxFaults
  /\ faults' = faults + 1
  /\ pc' = [k \in Ticks |-> "off"]
  /\ hold' = [k \in Ticks |-> NoHold]
  /\ UNCHANGED <<ask, row, tasks, owned>>

-----------------------------------------------------------------------------
Detect(k) == StartTick(k) \/ ListRequests(k) \/ consumeList(k) \/ ConsumeFails(k)

Process(k) ==
  \/ ProcessNext(k) \/ TickEnds(k) \/ Evaluate(k) \/ EvaluateFails(k)
  \/ ReplyAccepted(k) \/ ReplyFails(k)
  \/ RouteEscalates(k) \/ RouteRelays(k) \/ RelayAccepted(k) \/ RelayFails(k)
  \/ RecordAnswered(k) \/ RecordRejected(k) \/ WriteFails(k)

Next ==
  \/ \E r \in Requests : Ask(r) \/ Close(r)
  \/ \E s \in Sessions : BindSession(s)
  \/ \E i \in DOMAIN tasks : ResetSession(i)
  \/ \E k \in Ticks : Detect(k) \/ Process(k)
  \/ Crash

Spec == Init /\ [][Next]_vars

\* The timer keeps starting ticks and every call settles; the listing and Eq1
\* do not fail for ever.
FairSpec ==
  /\ Spec
  /\ \A k \in Ticks :
       /\ WF_vars(Detect(k) \/ Process(k))
       /\ SF_vars(ListRequests(k) /\ hold'[k].seen = OpenAsks(Kinds))
       /\ SF_vars(Evaluate(k))

-----------------------------------------------------------------------------
(* Properties. *)

Actions == {"none", "auto", "report", "new_task", "auto_relay", "skip"}

Asks == [state   : {"none", "open", "replied", "closed"},
         kind    : Kinds,
         session : Sessions \cup {None}]

Rows == [status  : {"absent", "pending", "answered", "rejected", "observed"},
         origin  : {"managed", "external", "unknown"},
         session : Sessions \cup {None},
         action  : Actions,
         born    : Nat]

TaskRows == [session : Sessions \cup {None},
             key     : Keys \cup {NoKey},
             type    : {"omo_request", "report"}]

Holds == [seen : SUBSET Requests, done : 0..MaxProcess,
          key : Keys \cup {NoKey}, action : Actions]

\* A tick between evaluation and record works on a recorded interaction.
Working == {"evaluate", "route", "relay", "record", "reply", "replied", "failed"}

TableOK ==
  /\ row \in [Keys -> Rows]
  /\ tasks \in Seq(TaskRows)
  /\ owned \in SUBSET (Sessions \cup {None})

TicksOK ==
  /\ pc \in [Ticks -> Labels]
  /\ hold \in [Ticks -> Holds]
  /\ \A k \in Ticks : pc[k] \in Working => hold[k].key \in Recorded

\* The type invariant: requests, interactions, tasks and ticks keep their
\* types, and a tick at work has an interaction that is in the table.
TypeOK ==
  /\ ask \in [Requests -> Asks]
  /\ TableOK
  /\ TicksOK
  /\ faults \in 0..MaxFaults

\* Only requests of sessions that belonged to a task are replied to or turned
\* into tasks; what other users of the same OpenCode server are asked is
\* theirs.  Rows from before origins existed are exempt.
ForeignUntouched ==
  /\ \A r \in Requests \ Legacy : ask[r].state = "replied" => ask[r].session \in owned
  /\ \A i \in DOMAIN tasks :
       LET r == RequestOf(tasks[i].key)
       IN r \in Requests \ Legacy => ask[r].session \in owned

\* Why: what is pending or at work belongs to a session a task had, and every
\* request that is listed, recorded or escalated keeps its session.
Listed ==
  /\ \A r \in Requests : ask[r].state # "none" => ask[r].session \in Sessions
  /\ \A q \in Recorded : ask[RequestOf(q)].state # "none"
  /\ \A k \in Ticks : \A r \in hold[k].seen : ask[r].state # "none"
  /\ \A i \in DOMAIN tasks : tasks[i].key # NoKey => tasks[i].key \in Recorded

TasksOwned == \A i \in DOMAIN tasks : tasks[i].session \in owned \cup {None}

PendingOwned ==
  \A q \in Keys : row[q].status = "pending" /\ RequestOf(q) \notin Legacy
                    => ask[RequestOf(q)].session \in owned

HeldOwned ==
  \A k \in Ticks : pc[k] \in Working /\ RequestOf(hold[k].key) \notin Legacy
                     => ask[RequestOf(hold[k].key)].session \in owned

ForeignInv ==
  /\ ForeignUntouched
  /\ Listed
  /\ TasksOwned
  /\ PendingOwned
  /\ HeldOwned

HasEffect(q, action) ==
  \/ action \in {"auto", "auto_relay"} /\ ask[RequestOf(q)].state = "replied"
  \/ action \in {"report", "new_task"} /\ \E i \in DOMAIN tasks : tasks[i].key = q
  \/ action = "skip"

\* An interaction recorded as answered has had its effect: the server has
\* X3's reply, or X4's task is in the table, or X4 chose to skip.
AnsweredHasEffect ==
  \A q \in Keys : row[q].status = "answered" => HasEffect(q, row[q].action)

\* Why: a tick records an answer only when the effect is there already.
EffectInv ==
  /\ AnsweredHasEffect
  /\ \A k \in Ticks : pc[k] \in {"record", "replied"} =>
                        HasEffect(hold[k].key, hold[k].action)

\* In all, an interaction becomes at most one task for every tick that may be under
\* way, and as many again with every death or failed write; so it becomes one if
\* ticks never overlap and nothing fails.
TasksFor(q) == {i \in DOMAIN tasks : tasks[i].key = q}

EscalationsBounded ==
  \A q \in Keys : Cardinality(TasksFor(q)) <= Cardinality(Ticks) * (1 + faults)

\* Why: a tick that has escalated an undecided interaction does so no more,
\* unless it dies before the record; once the interaction is decided only the
\* ticks that are on their way with it may.
Decided(q) == row[q].status \in {"answered", "rejected"}

OnTheWay == {"evaluate", "route", "relay"}

MayEscalate(q) ==
  {k \in Ticks : IF Decided(q) THEN pc[k] \in OnTheWay /\ hold[k].key = q
                 ELSE ~(pc[k] = "record" /\ hold[k].key = q)}

EscalationInv ==
  \A q \in Keys : Cardinality(TasksFor(q)) + Cardinality(MayEscalate(q))
                    <= Cardinality(Ticks) * (1 + faults)

\* An interaction that was decided is never taken up or demoted again,
\* whatever later polls say of its request.
DecidedStaysDecided ==
  [][\A q \in Keys : row[q].status \in {"answered", "rejected"} =>
       row'[q].status \in {"answered", "rejected"}]_vars

\* A request that was not yet recorded, of a session that keeps a task, is in
\* the end decided, unless it goes away by itself.
Settled(r) ==
  \/ ask[r].state \in {"closed", "replied"}
  \/ \E kind \in Kinds : row[<<kind, r>>].status \in {"answered", "rejected"}

Unseen(r) == \A kind \in Kinds : row[<<kind, r>>].status = "absent"

OwnRequestsAreSettled ==
  \A r \in Requests :
    [](/\ ask[r].state = "open" /\ Unseen(r)
       /\ [](hasTaskSession(ask[r].session))
       => <>Settled(r))

-----------------------------------------------------------------------------
(* Statements of the repository that the code does not keep. *)

\* docs/SCHEMA.md:103: observed is the observe-only record of an external
\* origin.
ObservedIsExternal ==
  \A q \in Keys : row[q].status = "observed" => row[q].origin = "external"

\* docs/SCHEMA.md:285: transitions lead from pending to answered or rejected.
DecidesPendingOnly ==
  [][\A q \in Keys :
       /\ row'[q].status \in {"answered", "rejected"}
       /\ row'[q].status # row[q].status
       => row[q].status = "pending"]_vars
=============================================================================
