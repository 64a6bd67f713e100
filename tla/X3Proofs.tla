------------------------------- MODULE X3Proofs -------------------------------
(***************************************************************************)
(* Proofs about the interactions loop, for any requests, sessions and      *)
(* overlapping ticks, and any number of deaths and failing writes.         *)
(***************************************************************************)
EXTENDS X3Interactions, FiniteSetTheorems, SequenceTheorems, TLAPS

-----------------------------------------------------------------------------
(* Type correctness. *)

LEMMA Nulls ==
  /\ NoAsk \in Asks /\ NoRow \in Rows /\ NoHold \in Holds
  /\ NoKey \notin Keys /\ NoKey[2] \notin Requests
BY InteractionsAssumption
DEF None, NoAsk, NoRow, NoHold, NoKey, Asks, Rows, Holds, Actions, Kinds, Keys

LEMMA RecordedCount == Cardinality(Recorded) \in Nat
<1>1. IsFiniteSet(Kinds)
  <2>1. IsFiniteSet({"permission"})
    BY FS_Singleton, Zenon
  <2>2. IsFiniteSet({"permission"} \cup {"question"})
    BY <2>1, FS_AddElement, Zenon
  <2>3. IsFiniteSet(({"permission"} \cup {"question"}) \cup {"joshua"})
    BY <2>2, FS_AddElement, Zenon
  <2>4. Kinds = ({"permission"} \cup {"question"}) \cup {"joshua"}
    BY DEF Kinds
  <2>. QED
    BY <2>3, <2>4, Zenon
<1>2. IsFiniteSet(Keys)
  BY <1>1, FS_Product, InteractionsAssumption DEF Keys
<1>. QED
  BY <1>2, FS_Subset, FS_CardinalityType DEF Recorded

LEMMA KeyParts ==
  ASSUME NEW q \in Keys
  PROVE  TypeOf(q) \in Kinds /\ RequestOf(q) \in Requests /\ q[2] \in Requests
         /\ q = <<TypeOf(q), RequestOf(q)>>
BY DEF Keys, TypeOf, RequestOf

\* Requests, rows and tasks only ever change their values, never their types.
LEMMA UpsertedType ==
  ASSUME TypeOK, NEW S \in SUBSET Requests, Upserted(S)
  PROVE  row' \in [Keys -> Rows] /\ Recorded \subseteq Recorded'
<1>1. ASSUME NEW q \in Keys
      PROVE  upsertInteraction(q) \in Rows /\ upsertInteraction(q).status # "absent"
  <2>. DEFINE origin == resolveOrigin(ask[q[2]].session)
  <2>1. origin \in {"managed", "external"}
    BY DEF resolveOrigin
  <2>2. ask[q[2]].session \in Sessions \cup {None} /\ row[q] \in Rows
    BY KeyParts DEF TypeOK, TableOK, Asks
  <2>3. newRow(q, origin) \in Rows /\ newRow(q, origin).status # "absent"
    BY <2>1, <2>2, RecordedCount DEF newRow, statusOf, Rows, Actions
  <2>4. ASSUME row[q].status # "absent"
        PROVE  seenAgain(q, origin) \in Rows /\ seenAgain(q, origin).status # "absent"
    BY <2>1, <2>2, <2>4 DEF seenAgain, Rows
  <2>. QED
    BY <2>3, <2>4 DEF upsertInteraction
<1>. QED
  BY <1>1 DEF Upserted, TypeOK, TableOK, Recorded

LEMMA GotoType ==
  ASSUME TicksOK, NEW k \in Ticks, NEW label \in Labels, NEW h \in Holds,
         label \in Working => h.key \in Recorded,
         Goto(k, label, h), Recorded \subseteq Recorded'
  PROVE  TicksOK'
BY DEF TicksOK, Goto

LEMMA PauseType ==
  ASSUME TypeOK, NEW k \in Ticks, NEW label \in Labels, NEW h \in Holds,
         label \in Working => h.key \in Recorded,
         Pause(k, label, h)
  PROVE  TypeOK'
<1>1. Recorded' = Recorded
  BY DEF Pause, Recorded
<1>2. TicksOK'
  BY <1>1, GotoType DEF TypeOK, Pause
<1>. QED
  BY <1>2 DEF TypeOK, TableOK, Pause

LEMMA UpdateType ==
  ASSUME TypeOK, NEW k \in Ticks, pc[k] \in Working,
         NEW status \in {"answered", "rejected"}, NEW action \in Actions,
         updateInteraction(k, status, action)
  PROVE  row' \in [Keys -> Rows] /\ Recorded \subseteq Recorded'
<1>1. hold[k].key \in Keys
  BY DEF TypeOK, TicksOK, Recorded
<1>2. [row[hold[k].key] EXCEPT !.status = status, !.action = action] \in Rows
  BY <1>1 DEF TypeOK, TableOK, Rows
<1>. QED
  BY <1>1, <1>2 DEF updateInteraction, TypeOK, TableOK, Recorded, Rows

LEMMA InsertTaskType ==
  ASSUME TypeOK, NEW s \in Sessions \cup {None}, NEW key \in Keys \cup {NoKey},
         NEW type \in {"omo_request", "report"}, InsertTask(s, key, type)
  PROVE  tasks' \in Seq(TaskRows) /\ owned' \in SUBSET (Sessions \cup {None})
BY DEF TypeOK, TableOK, InsertTask, TaskRows

LEMMA AcceptsType ==
  ASSUME TypeOK, NEW q \in Keys, FailedCall(q)
  PROVE  ask' \in [Requests -> Asks]
<1>1. RequestOf(q) \in Requests
  BY KeyParts
<1>2. [ask[RequestOf(q)] EXCEPT !.state = "replied"] \in Asks
  BY <1>1 DEF TypeOK, Asks
<1>. QED
  BY <1>1, <1>2 DEF TypeOK, FailedCall, Accepts

LEMMA ServerType ==
  ASSUME TypeOK,
         \/ \E r \in Requests : Ask(r) \/ Close(r)
         \/ \E s \in Sessions : BindSession(s)
         \/ \E i \in DOMAIN tasks : ResetSession(i)
  PROVE  TypeOK'
<1>1. ASSUME NEW r \in Requests, Ask(r) \/ Close(r) PROVE TypeOK'
  <2>1. ask' \in [Requests -> Asks]
    BY <1>1 DEF Ask, Close, LegacyAsk, TypeOK, Asks
  <2>2. UNCHANGED <<row, tasks, owned, pc, hold, faults>>
    BY <1>1 DEF Ask, Close
  <2>. QED
    BY <2>1, <2>2 DEF TypeOK, TableOK, TicksOK, Recorded
<1>2. ASSUME NEW s \in Sessions, BindSession(s) PROVE TypeOK'
  <2>1. tasks' \in Seq(TaskRows) /\ owned' \in SUBSET (Sessions \cup {None})
    BY <1>2, InsertTaskType DEF BindSession
  <2>. QED
    BY <1>2, <2>1 DEF BindSession, TypeOK, TableOK, TicksOK, Recorded
<1>3. ASSUME NEW i \in DOMAIN tasks, ResetSession(i) PROVE TypeOK'
  <2>1. tasks' \in Seq(TaskRows)
    <3>1. tasks \in Seq(TaskRows)
      BY DEF TypeOK, TableOK
    <3>2. i \in 1..Len(tasks) /\ tasks[i] \in TaskRows
      BY <3>1
    <3>3. [tasks[i] EXCEPT !.session = None] \in TaskRows
      BY <3>2 DEF TaskRows
    <3>. QED
      BY <1>3, <3>1, <3>2, <3>3, ExceptSeq DEF ResetSession
  <2>. QED
    BY <1>3, <2>1 DEF ResetSession, TypeOK, TableOK, TicksOK, Recorded
<1>. QED
  BY <1>1, <1>2, <1>3

LEMMA DetectType ==
  ASSUME TypeOK, NEW k \in Ticks, Detect(k)
  PROVE  TypeOK'
<1>1. hold[k] \in Holds /\ NoHold \in Holds
  BY Nulls DEF TypeOK, TicksOK
<1>2. CASE StartTick(k)
  BY <1>1, <1>2, PauseType DEF StartTick, Labels, Working
<1>3. CASE ListRequests(k)
  <2>1. PICK kinds : Pause(k, "consume", [hold[k] EXCEPT !.seen = OpenAsks(kinds)])
    BY <1>3 DEF ListRequests
  <2>2. [hold[k] EXCEPT !.seen = OpenAsks(kinds)] \in Holds
    BY <1>1 DEF Holds, OpenAsks
  <2>. QED
    BY <2>1, <2>2, PauseType DEF Labels, Working
<1>4. CASE consumeList(k)
  <2>1. hold[k].seen \in SUBSET Requests /\ [hold[k] EXCEPT !.seen = {}] \in Holds
    BY <1>1 DEF Holds
  <2>2. row' \in [Keys -> Rows] /\ Recorded \subseteq Recorded'
    BY <1>4, <2>1, UpsertedType DEF consumeList
  <2>3. TicksOK'
    BY <1>4, <2>1, <2>2, GotoType DEF consumeList, TypeOK, Labels, Working
  <2>. QED
    BY <1>4, <2>2, <2>3 DEF consumeList, TypeOK, TableOK
<1>5. CASE ConsumeFails(k)
  <2>1. hold[k].seen \in SUBSET Requests
    BY <1>1 DEF Holds
  <2>2. row' \in [Keys -> Rows] /\ Recorded \subseteq Recorded'
    BY <1>5, <2>1, UpsertedType DEF ConsumeFails
  <2>3. TicksOK'
    BY <1>1, <1>5, <2>2, GotoType DEF ConsumeFails, TypeOK, Labels, Working
  <2>4. faults' \in 0..MaxFaults
    BY <1>5, InteractionsAssumption DEF ConsumeFails, TypeOK
  <2>. QED
    BY <1>5, <2>2, <2>3, <2>4 DEF ConsumeFails, TypeOK, TableOK
<1>. QED
  BY <1>2, <1>3, <1>4, <1>5 DEF Detect

\* What a tick at work holds.
LEMMA HeldKey ==
  ASSUME TypeOK, NEW k \in Ticks
  PROVE  /\ hold[k] \in Holds
         /\ pc[k] \in Working => /\ hold[k].key \in Recorded
                                 /\ hold[k].key \in Keys
                                 /\ row[hold[k].key].session \in Sessions \cup {None}
BY DEF TypeOK, TableOK, TicksOK, Recorded, Rows

LEMMA EscalateType ==
  ASSUME TypeOK, NEW k \in Ticks, pc[k] \in Working,
         NEW action \in {"report", "new_task", "skip"},
         Escalate(k, action), ask' \in [Requests -> Asks]
  PROVE  TypeOK'
<1>1. tasks' \in Seq(TaskRows) /\ owned' \in SUBSET (Sessions \cup {None})
  <2>1. CASE action = "skip"
    BY <2>1 DEF Escalate, TypeOK, TableOK
  <2>2. CASE action # "skip"
    BY <2>2, HeldKey, InsertTaskType DEF Escalate
  <2>. QED
    BY <2>1, <2>2
<1>2. [hold[k] EXCEPT !.action = action] \in Holds
      /\ [hold[k] EXCEPT !.action = action].key \in Recorded
  BY HeldKey DEF Holds, Actions
<1>3. Recorded' = Recorded
  BY DEF Escalate, Recorded
<1>4. TicksOK'
  BY <1>2, <1>3, GotoType DEF Escalate, TypeOK, Labels
<1>. QED
  BY <1>1, <1>4 DEF Escalate, TypeOK, TableOK

\* A call to the server: the request may be answered, the tick moves on.
LEMMA CallType ==
  ASSUME TypeOK, NEW k \in Ticks, pc[k] \in Working,
         FailedCall(hold[k].key), NEW label \in Labels, NEW action \in Actions,
         \/ Goto(k, label, hold[k])
         \/ Goto(k, label, [hold[k] EXCEPT !.action = action]),
         UNCHANGED <<row, tasks, owned, faults>>
  PROVE  TypeOK'
<1>1. hold[k] \in Holds /\ hold[k].key \in Recorded /\ hold[k].key \in Keys
  BY HeldKey
<1>2. ask' \in [Requests -> Asks]
  BY <1>1, AcceptsType
<1>3. [hold[k] EXCEPT !.action = action] \in Holds
      /\ [hold[k] EXCEPT !.action = action].key \in Recorded
  BY <1>1 DEF Holds
<1>4. Recorded' = Recorded
  BY DEF Recorded
<1>5. TicksOK'
  BY <1>1, <1>3, <1>4, GotoType DEF TypeOK
<1>. QED
  BY <1>2, <1>5 DEF TypeOK, TableOK

LEMMA RecordType ==
  ASSUME TypeOK, NEW k \in Ticks, pc[k] \in Working,
         NEW status \in {"answered", "rejected"}, NEW action \in Actions,
         UNCHANGED row \/ updateInteraction(k, status, action),
         NEW label \in Labels, NEW h \in Holds,
         label \in Working => h.key = hold[k].key,
         Goto(k, label, h),
         FailedCall(hold[k].key) \/ UNCHANGED ask,
         UNCHANGED <<tasks, owned>>, faults' \in 0..MaxFaults
  PROVE  TypeOK'
<1>0. ask' \in [Requests -> Asks]
  BY HeldKey, AcceptsType DEF TypeOK
<1>1. row' \in [Keys -> Rows] /\ Recorded \subseteq Recorded'
  BY UpdateType DEF TypeOK, TableOK, Recorded
<1>2. TicksOK'
  BY <1>1, HeldKey, GotoType DEF TypeOK
<1>. QED
  BY <1>0, <1>1, <1>2 DEF TypeOK, TableOK

LEMMA ProcessType ==
  ASSUME TypeOK, NEW k \in Ticks, Process(k)
  PROVE  TypeOK'
<1>0. hold[k] \in Holds /\ NoHold \in Holds /\ hold[k].action \in Actions
  BY HeldKey, Nulls DEF Holds
<1>1. CASE ProcessNext(k)
  <2>1. PICK q \in Keys :
          /\ nextPending(q)
          /\ Pause(k, "evaluate", [hold[k] EXCEPT !.done = @ + 1, !.key = q])
    BY <1>1 DEF ProcessNext
  <2>2. q \in Recorded
    BY <2>1 DEF nextPending, Oldest, PendingOf, Recorded
  <2>3. hold[k].done + 1 \in 0..MaxProcess
    BY <1>0, <1>1, InteractionsAssumption DEF ProcessNext, Holds
  <2>4. [hold[k] EXCEPT !.done = @ + 1, !.key = q] \in Holds
        /\ [hold[k] EXCEPT !.done = @ + 1, !.key = q].key = q
    BY <1>0, <2>3 DEF Holds
  <2>. QED
    BY <2>1, <2>2, <2>4, PauseType DEF Labels
<1>2. CASE TickEnds(k) \/ EvaluateFails(k)
  BY <1>0, <1>2, PauseType DEF TickEnds, EvaluateFails, Labels, Working
<1>3. CASE Evaluate(k) \/ RouteRelays(k)
  <2>1. hold[k].key \in Recorded
    BY <1>3, HeldKey DEF Evaluate, RouteRelays, At, Working
  <2>. QED
    BY <1>0, <1>3, <2>1, PauseType DEF Evaluate, RouteRelays, Labels
<1>4. CASE ReplyAccepted(k) \/ ReplyFails(k) \/ RelayAccepted(k)
  <2>1. pc[k] \in Working /\ FailedCall(hold[k].key)
    BY <1>4 DEF ReplyAccepted, ReplyFails, RelayAccepted, At, Working, FailedCall
  <2>2. {"auto", "auto_relay"} \subseteq Actions /\ {"record", "replied", "failed"} \subseteq Labels
    BY DEF Actions, Labels
  <2>. QED
    BY <1>4, <2>1, <2>2, CallType DEF ReplyAccepted, ReplyFails, RelayAccepted
<1>5. CASE RouteEscalates(k) \/ RelayFails(k)
  <2>1. pc[k] \in Working
    BY <1>5 DEF RouteEscalates, RelayFails, At, Working
  <2>2. ask' \in [Requests -> Asks]
    <3>1. CASE RouteEscalates(k)
      BY <3>1 DEF RouteEscalates, TypeOK
    <3>2. CASE RelayFails(k)
      BY <2>1, <3>2, HeldKey, AcceptsType DEF RelayFails
    <3>. QED
      BY <1>5, <3>1, <3>2
  <2>3. \E action \in {"report", "new_task", "skip"} : Escalate(k, action)
    BY <1>5 DEF RouteEscalates, RelayFails, fallbackActions
  <2>. QED
    BY <2>1, <2>2, <2>3, EscalateType
<1>6. CASE RecordAnswered(k) \/ RecordRejected(k)
  <2>1. NextOf(k) \in Holds
    BY <1>0 DEF NextOf, Holds, Actions
  <2>2. pc[k] \in Working /\ "next" \in Labels /\ "next" \notin Working /\ "none" \in Actions
    BY <1>6 DEF RecordAnswered, RecordRejected, At, Working, Labels, Actions
  <2>3. faults' \in 0..MaxFaults
    BY <1>6 DEF RecordAnswered, RecordRejected, TypeOK
  <2>4. CASE RecordAnswered(k)
    BY <1>0, <2>1, <2>2, <2>3, <2>4, RecordType DEF RecordAnswered
  <2>5. CASE RecordRejected(k)
    BY <1>0, <2>1, <2>2, <2>3, <2>5, RecordType DEF RecordRejected
  <2>. QED
    BY <1>6, <2>4, <2>5
<1>7. CASE WriteFails(k)
  <2>1. faults' \in 0..MaxFaults
    BY <1>7, InteractionsAssumption DEF WriteFails, TypeOK
  <2>2. {"off", "failed"} \subseteq Labels /\ "off" \notin Working /\ "none" \in Actions
    BY DEF Labels, Working, Actions
  <2>3. CASE pc[k] \in Working
    BY <1>0, <1>7, <2>1, <2>2, <2>3, RecordType DEF WriteFails, At
  <2>4. CASE pc[k] = "next"
    <3>1. UNCHANGED <<ask, row, tasks, owned>> /\ Goto(k, "off", NoHold)
      BY <1>7, <2>4 DEF WriteFails, At
    <3>2. Recorded' = Recorded
      BY <3>1 DEF Recorded
    <3>3. TicksOK'
      BY <1>0, <2>2, <3>1, <3>2, GotoType DEF TypeOK
    <3>. QED
      BY <2>1, <3>1, <3>3 DEF TypeOK, TableOK
  <2>. QED
    BY <1>7, <2>3, <2>4 DEF WriteFails, At, Working
<1>. QED
  BY <1>1, <1>2, <1>3, <1>4, <1>5, <1>6, <1>7 DEF Process

LEMMA InitType == Init => TypeOK
<1>. SUFFICES ASSUME Init PROVE TypeOK
  OBVIOUS
<1>1. PICK kind \in Kinds \ {"joshua"}, s \in Sessions :
        /\ ask = [r \in Requests |->
                    IF r \in Legacy THEN LegacyAsk(kind, s) ELSE NoAsk]
        /\ row = [k \in Keys |->
                    IF k \in {kind} \X Legacy THEN LegacyRow(s) ELSE NoRow]
  BY DEF Init
<1>2. LegacyAsk(kind, s) \in Asks /\ LegacyRow(s) \in Rows
  BY Nulls DEF LegacyAsk, LegacyRow, NoRow, Asks, Rows, Actions
<1>3. ask \in [Requests -> Asks] /\ row \in [Keys -> Rows]
  BY <1>1, <1>2, Nulls
<1>4. TableOK
  BY <1>3 DEF Init, TableOK
<1>5. TicksOK
  BY Nulls DEF Init, TicksOK, Labels, Working
<1>. QED
  BY <1>3, <1>4, <1>5, InteractionsAssumption DEF Init, TypeOK

LEMMA CrashType == TypeOK /\ Crash => TypeOK'
BY Nulls, InteractionsAssumption
DEF Crash, TypeOK, TableOK, TicksOK, Recorded, Labels, Working

LEMMA NextType == TypeOK /\ [Next]_vars => TypeOK'
<1>1. ASSUME TypeOK, Next PROVE TypeOK'
  BY <1>1, ServerType, DetectType, ProcessType, CrashType DEF Next
<1>2. ASSUME TypeOK, UNCHANGED vars PROVE TypeOK'
  BY <1>2 DEF vars, TypeOK, TableOK, TicksOK, Recorded
<1>. QED
  BY <1>1, <1>2

\* Requests, interactions, tasks and ticks keep their types, however many
\* ticks overlap and whatever dies or fails.
THEOREM TypeCorrect == Spec => []TypeOK
BY InitType, NextType, PTL DEF Spec

-----------------------------------------------------------------------------
(* What no step undoes. *)

AsksLast ==
  \A r \in Requests : ask[r].state # "none" =>
    /\ ask'[r].state # "none"
    /\ ask'[r].session = ask[r].session
    /\ ask[r].state = "replied" => ask'[r].state = "replied"

TasksLast ==
  \A i \in DOMAIN tasks : i \in DOMAIN tasks' /\ tasks'[i].key = tasks[i].key

Lasting == AsksLast /\ TasksLast /\ owned \subseteq owned'

LEMMA UnchangedLasts ==
  ASSUME UNCHANGED <<ask, tasks, owned>>
  PROVE  Lasting
BY DEF Lasting, AsksLast, TasksLast

LEMMA FailedCallLasts ==
  ASSUME TypeOK, NEW q \in Keys, FailedCall(q)
  PROVE  AsksLast
BY KeyParts DEF FailedCall, Accepts, AsksLast, TypeOK, Asks

LEMMA InsertTaskLasts ==
  ASSUME TypeOK, NEW s, NEW key, NEW type, InsertTask(s, key, type)
  PROVE  /\ TasksLast /\ owned \subseteq owned'
         /\ \E i \in DOMAIN tasks' : tasks'[i].key = key
         /\ \A i \in DOMAIN tasks' :
              \/ i \in DOMAIN tasks /\ tasks'[i] = tasks[i]
              \/ tasks'[i].key = key /\ tasks'[i].session = s
<1>. DEFINE new == [session |-> s, key |-> key, type |-> type]
<1>1. tasks \in Seq(TaskRows) /\ tasks' = Append(tasks, new) /\ owned' = owned \cup {s}
  BY DEF TypeOK, TableOK, InsertTask
<1>2. DOMAIN tasks = 1..Len(tasks) /\ Len(tasks) \in Nat
  BY <1>1
<1>3. DOMAIN tasks' = 1..(Len(tasks) + 1)
  BY <1>1, <1>2
<1>4. \A i \in DOMAIN tasks : tasks'[i] = tasks[i]
  BY <1>1, <1>2
<1>5. tasks'[Len(tasks) + 1] = new
  BY <1>1, <1>2
<1>. QED
  BY <1>1, <1>2, <1>3, <1>4, <1>5 DEF TasksLast

LEMMA EscalateLasts ==
  ASSUME TypeOK, NEW k \in Ticks, NEW action, Escalate(k, action)
  PROVE  TasksLast /\ owned \subseteq owned'
<1>1. CASE action = "skip"
  BY <1>1 DEF Escalate, TasksLast
<1>2. CASE action # "skip"
  BY <1>2, InsertTaskLasts DEF Escalate
<1>. QED
  BY <1>1, <1>2

LEMMA ServerLasts ==
  ASSUME TypeOK,
         \/ \E r \in Requests : Ask(r) \/ Close(r)
         \/ \E s \in Sessions : BindSession(s)
         \/ \E i \in DOMAIN tasks : ResetSession(i)
  PROVE  Lasting
<1>1. ASSUME NEW r \in Requests, Ask(r) \/ Close(r) PROVE Lasting
  BY <1>1 DEF Ask, Close, LegacyAsk, TypeOK, Asks, Lasting, AsksLast, TasksLast
<1>2. ASSUME NEW s \in Sessions, BindSession(s) PROVE Lasting
  BY <1>2, InsertTaskLasts DEF BindSession, Lasting, AsksLast
<1>3. ASSUME NEW i \in DOMAIN tasks, ResetSession(i) PROVE Lasting
  <2>1. tasks' = [tasks EXCEPT ![i] = [tasks[i] EXCEPT !.session = None]]
    BY <1>3 DEF ResetSession
  <2>2. tasks \in Seq(TaskRows) /\ tasks[i] \in TaskRows
    BY DEF TypeOK, TableOK
  <2>3. TasksLast
    BY <2>1, <2>2 DEF TasksLast, TaskRows
  <2>. QED
    BY <1>3, <2>3 DEF ResetSession, Lasting, AsksLast
<1>. QED
  BY <1>1, <1>2, <1>3

LEMMA ProcessLasts ==
  ASSUME TypeOK, NEW k \in Ticks, Process(k)
  PROVE  Lasting
<1>1. CASE UNCHANGED <<ask, tasks, owned>>
  BY <1>1, UnchangedLasts
<1>2. CASE ReplyAccepted(k) \/ ReplyFails(k) \/ RelayAccepted(k)
           \/ (WriteFails(k) /\ At(k, "relay"))
  <2>1. FailedCall(hold[k].key) /\ hold[k].key \in Keys
    BY <1>2, HeldKey
    DEF ReplyAccepted, ReplyFails, RelayAccepted, WriteFails, FailedCall, At, Working
  <2>. QED
    BY <1>2, <2>1, FailedCallLasts
    DEF ReplyAccepted, ReplyFails, RelayAccepted, WriteFails, Lasting, TasksLast
<1>3. CASE RouteEscalates(k)
  BY <1>3, EscalateLasts DEF RouteEscalates, Lasting, AsksLast
<1>4. CASE RelayFails(k)
  <2>1. hold[k].key \in Keys
    BY <1>4, HeldKey DEF RelayFails, At, Working
  <2>. QED
    BY <1>4, <2>1, FailedCallLasts, EscalateLasts DEF RelayFails, Lasting
<1>. QED
  BY <1>1, <1>2, <1>3, <1>4
  DEF Process, ProcessNext, TickEnds, Evaluate, EvaluateFails, RouteRelays,
      RecordAnswered, RecordRejected, WriteFails, Pause

\* Requests are not forgotten or withdrawn once answered, tasks keep what they
\* were made for, and a session once owned stays so.
LEMMA NextLasts ==
  ASSUME TypeOK, [Next]_vars
  PROVE  Lasting
<1>1. ASSUME NEW k \in Ticks, Detect(k) PROVE Lasting
  BY <1>1, UnchangedLasts
  DEF Detect, StartTick, ListRequests, consumeList, ConsumeFails, Pause
<1>2. CASE Crash \/ UNCHANGED vars
  BY <1>2, UnchangedLasts DEF Crash, vars
<1>. QED
  BY <1>1, <1>2, ServerLasts, ProcessLasts DEF Next

LEMMA EffectsLast ==
  ASSUME TypeOK, Lasting, NEW q \in Keys, NEW action, HasEffect(q, action)
  PROVE  HasEffect(q, action)'
<1>1. RequestOf(q) \in Requests
  BY KeyParts
<1>. QED
  BY <1>1 DEF HasEffect, Lasting, AsksLast, TasksLast

-----------------------------------------------------------------------------
(* What a step does to a row: what one step may do to a row, a tick, a     *)
(* request and a task comes first, the invariants follow from that.        *)

Recording == {"record", "replied"}

SameDecision(q) ==
  row'[q].status = row[q].status /\ row'[q].action = row[q].action

SeenBy(q) == \E k \in Ticks : RequestOf(q) \in hold[k].seen

TakenUp(q) ==
  /\ row[q].status = "absent" /\ row'[q].status = "pending"
  /\ SeenBy(q) /\ hasTaskSession(ask[RequestOf(q)].session)

Demoted(q) ==
  /\ row[q].status \in {"absent", "pending"} /\ row'[q].status = "observed"
  /\ SeenBy(q)

Answered(q) ==
  /\ row'[q].status = "answered"
  /\ \E k \in Ticks : pc[k] \in Recording /\ hold[k].key = q
                      /\ row'[q].action = hold[k].action

Rejected(q) ==
  /\ row'[q].status = "rejected"
  /\ \E k \in Ticks : pc[k] \in Working /\ hold[k].key = q

RowStep(q) ==
  SameDecision(q) \/ TakenUp(q) \/ Demoted(q) \/ Answered(q) \/ Rejected(q)

LEMMA UpsertSteps ==
  ASSUME TypeOK, NEW k \in Ticks, NEW S \in SUBSET hold[k].seen, Upserted(S),
         NEW q \in Keys
  PROVE  RowStep(q)
<1>1. CASE q \notin {KeyOf(r) : r \in S}
  BY <1>1 DEF Upserted, RowStep, SameDecision
<1>2. CASE q \in {KeyOf(r) : r \in S}
  <2>. DEFINE s == ask[q[2]].session
              origin == resolveOrigin(s)
  <2>1. row'[q] = upsertInteraction(q)
    BY <1>2 DEF Upserted
  <2>2. SeenBy(q)
    BY <1>2 DEF KeyOf, RequestOf, SeenBy
  <2>3. row[q] \in Rows
    BY DEF TypeOK, TableOK
  <2>4. CASE row[q].status = "absent"
    <3>1. row'[q].status = statusOf(origin)
      BY <2>1, <2>4 DEF upsertInteraction, newRow
    <3>. QED
      BY <2>2, <2>4, <3>1
      DEF statusOf, resolveOrigin, RequestOf, RowStep, TakenUp, Demoted
  <2>5. CASE row[q].status # "absent"
    <3>1. row'[q] = seenAgain(q, origin)
      BY <2>1, <2>5 DEF upsertInteraction
    <3>2. /\ row'[q].action = row[q].action
          /\ \/ row'[q].status = row[q].status
             \/ row[q].status = "pending" /\ row'[q].status = "observed"
      BY <2>3, <3>1 DEF seenAgain, Rows
    <3>. QED
      BY <2>2, <3>2 DEF RowStep, SameDecision, Demoted
  <2>. QED
    BY <2>4, <2>5
<1>. QED
  BY <1>1, <1>2

LEMMA UpdateSteps ==
  ASSUME TypeOK, NEW k \in Ticks, pc[k] \in Working,
         \/ UNCHANGED row
         \/ pc[k] \in Recording /\ updateInteraction(k, "answered", hold[k].action)
         \/ updateInteraction(k, "rejected", "none"),
         NEW q \in Keys
  PROVE  RowStep(q)
<1>1. row[q] \in Rows /\ hold[k].key \in Keys /\ row \in [Keys -> Rows]
  BY HeldKey DEF TypeOK, TableOK
<1>2. CASE UNCHANGED row \/ hold[k].key # q
  BY <1>1, <1>2 DEF updateInteraction, RowStep, SameDecision
<1>3. CASE hold[k].key = q /\ pc[k] \in Recording
           /\ updateInteraction(k, "answered", hold[k].action)
  <2>1. row'[q].status = "answered" /\ row'[q].action = hold[k].action
    BY <1>1, <1>3 DEF updateInteraction, Rows
  <2>. QED
    BY <1>3, <2>1 DEF RowStep, Answered
<1>4. CASE hold[k].key = q /\ updateInteraction(k, "rejected", "none")
  <2>1. row'[q].status = "rejected"
    BY <1>1, <1>4 DEF updateInteraction, Rows
  <2>. QED
    BY <1>4, <2>1 DEF RowStep, Rejected
<1>. QED
  BY <1>2, <1>3, <1>4

\* A row keeps its decision, is taken up for the first time, is demoted while
\* undecided, or is decided by a tick that holds it.
LEMMA RowSteps ==
  ASSUME TypeOK, [Next]_vars, NEW q \in Keys
  PROVE  RowStep(q)
<1>1. CASE UNCHANGED row
  BY <1>1 DEF RowStep, SameDecision
<1>2. ASSUME NEW k \in Ticks, consumeList(k) \/ ConsumeFails(k) PROVE RowStep(q)
  BY <1>2, UpsertSteps DEF consumeList, ConsumeFails
<1>3. ASSUME NEW k \in Ticks, RecordAnswered(k) \/ RecordRejected(k) PROVE RowStep(q)
  BY <1>3, UpdateSteps DEF RecordAnswered, RecordRejected, At, Working, Recording
<1>4. ASSUME NEW k \in Ticks, WriteFails(k) PROVE RowStep(q)
  <2>1. CASE pc[k] \in Working
    BY <1>4, <2>1, UpdateSteps DEF WriteFails, At, Recording
  <2>2. CASE pc[k] \notin Working
    BY <1>1, <1>4, <2>2 DEF WriteFails, At, Working
  <2>. QED
    BY <2>1, <2>2
<1>5. ASSUME NEW k \in Ticks, Detect(k) PROVE RowStep(q)
  BY <1>1, <1>2, <1>5 DEF Detect, StartTick, ListRequests, Pause
<1>6. ASSUME NEW k \in Ticks, Process(k) PROVE RowStep(q)
  BY <1>1, <1>3, <1>4, <1>6
  DEF Process, ProcessNext, TickEnds, Evaluate, EvaluateFails, ReplyAccepted,
      ReplyFails, RouteEscalates, RouteRelays, RelayAccepted, RelayFails,
      Escalate, Pause
<1>. QED
  BY <1>1, <1>5, <1>6
  DEF Next, Ask, Close, BindSession, ResetSession, Crash, vars

\* An interaction that was decided is never taken up or demoted again, at any
\* poll of any tick.
THEOREM DecisionsStand == Spec => DecidedStaysDecided
<1>. DEFINE Stays == \A q \in Keys : row[q].status \in {"answered", "rejected"} =>
                       row'[q].status \in {"answered", "rejected"}
<1>1. ASSUME TypeOK, [Next]_vars PROVE [Stays]_vars
  BY <1>1, RowSteps
  DEF RowStep, SameDecision, TakenUp, Demoted, Answered, Rejected
<1>. QED
  BY <1>1, TypeCorrect, PTL DEF Spec, DecidedStaysDecided

-----------------------------------------------------------------------------
(* What a step does to a tick. *)

SameTick(k) == pc'[k] = pc[k] /\ hold'[k] = hold[k]

\* Between interactions a tick holds at most the requests it has listed.
Idles(k) ==
  /\ pc'[k] \notin Working
  /\ \A r \in hold'[k].seen : r \in hold[k].seen \/ ask[r].state # "none"

Takes(k) ==
  /\ pc'[k] = "evaluate" /\ hold'[k].seen = hold[k].seen
  /\ hold'[k].key \in Keys /\ row[hold'[k].key].status = "pending"

Works(k) ==
  /\ pc[k] \in Working
  /\ hold'[k].key = hold[k].key /\ hold'[k].seen = hold[k].seen
  /\ pc'[k] \in Recording => HasEffect(hold[k].key, hold[k].action)'

TickStep(k) == SameTick(k) \/ Idles(k) \/ Takes(k) \/ Works(k)

LEMMA OthersWait ==
  ASSUME TypeOK, NEW j \in Ticks, NEW label, NEW h, Goto(j, label, h),
         NEW k \in Ticks
  PROVE  /\ k # j => SameTick(k)
         /\ k = j => pc'[k] = label /\ hold'[k] = h
BY DEF TypeOK, TicksOK, Goto, SameTick

LEMMA EscalateSteps ==
  ASSUME TypeOK, NEW j \in Ticks, pc[j] \in Working,
         NEW action \in {"report", "new_task", "skip"}, Escalate(j, action),
         NEW k \in Ticks
  PROVE  TickStep(k)
<1>. DEFINE h == [hold[j] EXCEPT !.action = action]
<1>1. hold[j] \in Holds
  BY HeldKey
<1>2. h.key = hold[j].key /\ h.seen = hold[j].seen /\ h.action = action
  BY <1>1 DEF Holds
<1>3. ASSUME NEW q, q = hold[j].key PROVE HasEffect(q, action)'
  <2>1. action # "skip" => \E i \in DOMAIN tasks' : tasks'[i].key = hold[j].key
    BY InsertTaskLasts DEF Escalate
  <2>. QED
    BY <1>3, <2>1 DEF HasEffect
<1>4. Goto(j, "record", h)
  BY DEF Escalate
<1>5. CASE k # j
  BY <1>4, <1>5, OthersWait DEF TickStep
<1>6. CASE k = j
  <2>1. pc'[k] = "record" /\ hold'[k] = h
    BY <1>4, <1>6, OthersWait
  <2>2. HasEffect(hold[k].key, hold[k].action)'
    BY <1>2, <1>3, <2>1 DEF HasEffect
  <2>. QED
    BY <1>2, <1>6, <2>1, <2>2 DEF TickStep, Works
<1>. QED
  BY <1>5, <1>6

LEMMA AcceptedSteps ==
  ASSUME TypeOK, NEW j \in Ticks, pc[j] \in Working, Accepts(hold[j].key),
         NEW label \in Recording, NEW action \in {"auto", "auto_relay"},
         Goto(j, label, [hold[j] EXCEPT !.action = action]),
         NEW k \in Ticks
  PROVE  TickStep(k)
<1>. DEFINE h == [hold[j] EXCEPT !.action = action]
<1>1. hold[j] \in Holds /\ RequestOf(hold[j].key) \in Requests
  BY HeldKey, KeyParts
<1>2. h.key = hold[j].key /\ h.seen = hold[j].seen /\ h.action = action
  BY <1>1 DEF Holds
<1>3. ask'[RequestOf(hold[j].key)].state = "replied"
  BY <1>1 DEF Accepts, TypeOK, Asks
<1>4. CASE k # j
  BY <1>4, OthersWait DEF TickStep
<1>5. CASE k = j
  <2>1. hold'[k] = h
    BY <1>5, OthersWait
  <2>. QED
    BY <1>2, <1>3, <1>5, <2>1 DEF TickStep, Works, HasEffect
<1>. QED
  BY <1>4, <1>5

\* A tick at work keeps its interaction, and when it comes to record an answer
\* the effect is there; a new interaction it takes is pending.
LEMMA TickSteps ==
  ASSUME TypeOK, [Next]_vars, NEW k \in Ticks
  PROVE  TickStep(k)
<1>1. CASE UNCHANGED <<pc, hold>>
  BY <1>1 DEF TickStep, SameTick
<1>2. CASE Crash
  BY <1>2 DEF Crash, TickStep, Idles, Working, NoHold
<1>3. ASSUME NEW j \in Ticks, NEW label, NEW h, Goto(j, label, h),
             label \notin Working,
             \A r \in h.seen : r \in hold[j].seen \/ ask[r].state # "none"
      PROVE  TickStep(k)
  BY <1>3, OthersWait DEF TickStep, Idles
<1>4. ASSUME NEW j \in Ticks, NEW label, NEW h, Goto(j, label, h),
             pc[j] \in Working, label \notin Recording,
             h.key = hold[j].key /\ h.seen = hold[j].seen
      PROVE  TickStep(k)
  BY <1>4, OthersWait DEF TickStep, Works
<1>5. ASSUME NEW j \in Ticks, Detect(j) PROVE TickStep(k)
  <2>0. hold[j] \in Holds
    BY HeldKey
  <2>1. CASE StartTick(j) \/ ConsumeFails(j)
    BY <1>3, <2>1 DEF StartTick, ConsumeFails, Pause, NoHold, Working
  <2>2. CASE ListRequests(j)
    <3>1. PICK kinds : Pause(j, "consume", [hold[j] EXCEPT !.seen = OpenAsks(kinds)])
      BY <2>2 DEF ListRequests
    <3>2. [hold[j] EXCEPT !.seen = OpenAsks(kinds)].seen = OpenAsks(kinds)
      BY <2>0 DEF Holds
    <3>. QED
      BY <1>3, <3>1, <3>2 DEF Pause, OpenAsks, Working
  <2>3. CASE consumeList(j)
    <3>1. [hold[j] EXCEPT !.seen = {}].seen = {}
      BY <2>0 DEF Holds
    <3>. QED
      BY <1>3, <2>3, <3>1 DEF consumeList, Working
  <2>. QED
    BY <1>5, <2>1, <2>2, <2>3 DEF Detect
<1>6. ASSUME NEW j \in Ticks, Process(j) PROVE TickStep(k)
  <2>0. hold[j] \in Holds
    BY HeldKey
  <2>1. CASE ProcessNext(j)
    <3>1. PICK q \in Keys :
            /\ nextPending(q)
            /\ Pause(j, "evaluate", [hold[j] EXCEPT !.done = @ + 1, !.key = q])
      BY <2>1 DEF ProcessNext
    <3>. DEFINE h == [hold[j] EXCEPT !.done = @ + 1, !.key = q]
    <3>2. h.key = q /\ h.seen = hold[j].seen
      BY <2>0 DEF Holds
    <3>3. row[q].status = "pending"
      BY <3>1 DEF nextPending, Oldest, PendingOf
    <3>4. Goto(j, "evaluate", h)
      BY <3>1 DEF Pause
    <3>5. CASE k = j
      <4>1. pc'[k] = "evaluate" /\ hold'[k] = h
        BY <3>4, <3>5, OthersWait
      <4>. QED
        BY <3>2, <3>3, <3>5, <4>1 DEF TickStep, Takes
    <3>6. CASE k # j
      BY <3>4, <3>6, OthersWait DEF TickStep
    <3>. QED
      BY <3>5, <3>6
  <2>2. CASE TickEnds(j) \/ EvaluateFails(j)
    BY <1>3, <2>2 DEF TickEnds, EvaluateFails, Pause, NoHold, Working
  <2>3. CASE Evaluate(j) \/ RouteRelays(j) \/ ReplyFails(j)
    BY <1>4, <2>3
    DEF Evaluate, RouteRelays, ReplyFails, Pause, At, Working, Recording
  <2>4. CASE ReplyAccepted(j) \/ RelayAccepted(j)
    BY <2>4, AcceptedSteps
    DEF ReplyAccepted, RelayAccepted, At, Working, Recording
  <2>5. CASE RouteEscalates(j) \/ RelayFails(j)
    BY <2>5, EscalateSteps
    DEF RouteEscalates, RelayFails, fallbackActions, At, Working
  <2>6. CASE RecordAnswered(j) \/ RecordRejected(j)
    <3>1. NextOf(j).seen = hold[j].seen
      BY <2>0 DEF NextOf, Holds
    <3>. QED
      BY <1>3, <2>6, <3>1 DEF RecordAnswered, RecordRejected, Working
  <2>7. CASE WriteFails(j)
    <3>1. Goto(j, "off", NoHold) \/ (At(j, "replied") /\ Goto(j, "failed", hold[j]))
      BY <2>7 DEF WriteFails
    <3>. QED
      BY <1>3, <1>4, <3>1 DEF At, NoHold, Working, Recording
  <2>. QED
    BY <1>6, <2>1, <2>2, <2>3, <2>4, <2>5, <2>6, <2>7 DEF Process
<1>. QED
  BY <1>1, <1>2, <1>5, <1>6 DEF Next, Ask, Close, BindSession, ResetSession, vars

-----------------------------------------------------------------------------
(* Recorded answers have had their effect. *)

LEMMA EffectNext ==
  ASSUME TypeOK, [Next]_vars, EffectInv
  PROVE  EffectInv'
<1>1. Lasting
  BY NextLasts
<1>2. ASSUME NEW k \in Ticks, pc[k] \in Recording,
             NEW q, q = hold[k].key, NEW action, action = hold[k].action
      PROVE  HasEffect(q, action)'
  <2>1. q \in Keys
    BY <1>2, HeldKey DEF Recording, Working
  <2>2. HasEffect(q, action)
    BY <1>2 DEF EffectInv, HasEffect, Recording
  <2>. QED
    BY <1>1, <2>1, <2>2, EffectsLast
<1>3. ASSUME NEW q \in Keys, row'[q].status = "answered",
             NEW action, action = row'[q].action
      PROVE  HasEffect(q, action)'
  <2>1. CASE SameDecision(q)
    <3>1. HasEffect(q, action)
      BY <1>3, <2>1 DEF SameDecision, EffectInv, AnsweredHasEffect, HasEffect
    <3>. QED
      BY <1>1, <3>1, EffectsLast
  <2>2. CASE Answered(q)
    BY <1>2, <1>3, <2>2 DEF Answered
  <2>. QED
    BY <1>3, <2>1, <2>2, RowSteps DEF RowStep, TakenUp, Demoted, Rejected
<1>4. ASSUME NEW k \in Ticks, pc'[k] \in Recording
      PROVE  HasEffect(hold[k].key, hold[k].action)'
  <2>1. CASE SameTick(k)
    BY <1>2, <1>4, <2>1 DEF SameTick, HasEffect
  <2>2. CASE Works(k)
    BY <1>4, <2>2 DEF Works
  <2>. QED
    BY <1>4, <2>1, <2>2, TickSteps
    DEF TickStep, Idles, Takes, Recording, Working
<1>5. AnsweredHasEffect'
  BY <1>3 DEF AnsweredHasEffect, HasEffect
<1>. QED
  BY <1>4, <1>5 DEF EffectInv, Recording

LEMMA EffectInit == Init => EffectInv
BY DEF Init, EffectInv, AnsweredHasEffect, LegacyRow, NoRow

\* A tick about to record an answer has had its effect already, and no step of X2, X3 or
\* X4 takes an effect back.
THEOREM EffectsAreRecorded == Spec => []EffectInv
BY EffectInit, EffectNext, TypeCorrect, PTL DEF Spec

\* An interaction recorded as answered has had its effect, however many ticks
\* overlap and whatever dies or fails in between.
THEOREM AnswersAreReal == Spec => []AnsweredHasEffect
<1>1. EffectInv => AnsweredHasEffect
  BY DEF EffectInv
<1>. QED
  BY <1>1, EffectsAreRecorded, PTL

-----------------------------------------------------------------------------
(* What a step does to a request and to a task. *)

RepliedBy(r) == \E k \in Ticks : pc[k] \in Working /\ RequestOf(hold[k].key) = r

\* A request is answered only by a tick that works on it, and new requests
\* come from sessions of the server.
LEMMA AskSteps ==
  ASSUME TypeOK, [Next]_vars, NEW r \in Requests
  PROVE  /\ ask'[r].state = "replied" => ask[r].state = "replied" \/ RepliedBy(r)
         /\ ask'[r].state # "none" =>
              ask[r].state # "none" \/ ask'[r].session \in Sessions
<1>. DEFINE Goal == /\ ask'[r].state = "replied" => ask[r].state = "replied" \/ RepliedBy(r)
                    /\ ask'[r].state # "none" =>
                         ask[r].state # "none" \/ ask'[r].session \in Sessions
<1>1. CASE UNCHANGED ask
  BY <1>1
<1>2. ASSUME NEW p \in Requests, Ask(p) \/ Close(p) PROVE Goal
  BY <1>2 DEF Ask, Close, LegacyAsk, TypeOK, Asks
<1>3. ASSUME NEW k \in Ticks, pc[k] \in Working, FailedCall(hold[k].key) PROVE Goal
  <2>1. RequestOf(hold[k].key) \in Requests
    BY <1>3, HeldKey, KeyParts
  <2>. QED
    BY <1>3, <2>1 DEF FailedCall, Accepts, RepliedBy, TypeOK, Asks
<1>4. ASSUME NEW k \in Ticks, Process(k) PROVE Goal
  <2>1. UNCHANGED ask \/ (pc[k] \in Working /\ FailedCall(hold[k].key))
    BY <1>4
    DEF Process, ProcessNext, TickEnds, Evaluate, EvaluateFails, ReplyAccepted,
        ReplyFails, RouteEscalates, RouteRelays, RelayAccepted, RelayFails,
        RecordAnswered, RecordRejected, WriteFails, Pause, FailedCall, At, Working
  <2>. QED
    BY <1>1, <1>3, <2>1
<1>. QED
  BY <1>1, <1>2, <1>4
  DEF Next, BindSession, ResetSession, Detect, StartTick, ListRequests,
      consumeList, ConsumeFails, Crash, Pause, vars

SameTask(i) ==
  /\ i \in DOMAIN tasks /\ tasks'[i].key = tasks[i].key
  /\ tasks'[i].session \in {tasks[i].session, None}

NewTask(i) ==
  /\ tasks'[i].session \in owned'
  /\ \/ tasks'[i].key = NoKey
     \/ \E k \in Ticks : pc[k] \in Working /\ tasks'[i].key = hold[k].key

LEMMA InsertSteps ==
  ASSUME TypeOK, NEW s, NEW key, NEW type, InsertTask(s, key, type),
         \/ key = NoKey
         \/ \E k \in Ticks : pc[k] \in Working /\ key = hold[k].key,
         NEW i \in DOMAIN tasks'
  PROVE  SameTask(i) \/ NewTask(i)
BY InsertTaskLasts DEF InsertTask, SameTask, NewTask

\* A task of X4 is made only by a tick that works on its interaction.
LEMMA TaskSteps ==
  ASSUME TypeOK, [Next]_vars, NEW i \in DOMAIN tasks'
  PROVE  SameTask(i) \/ NewTask(i)
<1>1. CASE UNCHANGED tasks
  BY <1>1 DEF SameTask
<1>2. ASSUME NEW s \in Sessions, BindSession(s) PROVE SameTask(i) \/ NewTask(i)
  BY <1>2, InsertSteps DEF BindSession
<1>3. ASSUME NEW j \in DOMAIN tasks, ResetSession(j) PROVE SameTask(i)
  <2>1. tasks' = [tasks EXCEPT ![j] = [tasks[j] EXCEPT !.session = None]]
    BY <1>3 DEF ResetSession
  <2>2. tasks \in Seq(TaskRows) /\ tasks[j] \in TaskRows
    BY DEF TypeOK, TableOK
  <2>. QED
    BY <2>1, <2>2 DEF SameTask, TaskRows
<1>4. ASSUME NEW k \in Ticks, Process(k) PROVE SameTask(i) \/ NewTask(i)
  <2>1. CASE RouteEscalates(k) \/ RelayFails(k)
    <3>1. PICK action : Escalate(k, action) /\ pc[k] \in Working
      BY <2>1 DEF RouteEscalates, RelayFails, At, Working
    <3>. QED
      BY <1>1, <3>1, InsertSteps DEF Escalate
  <2>2. CASE ~(RouteEscalates(k) \/ RelayFails(k))
    BY <1>1, <1>4, <2>2
    DEF Process, ProcessNext, TickEnds, Evaluate, EvaluateFails, ReplyAccepted,
        ReplyFails, RouteRelays, RelayAccepted, RecordAnswered, RecordRejected,
        WriteFails, Pause
  <2>. QED
    BY <2>1, <2>2
<1>. QED
  BY <1>1, <1>2, <1>3, <1>4
  DEF Next, Ask, Close, Detect, StartTick, ListRequests, consumeList,
      ConsumeFails, Crash, Pause, vars

-----------------------------------------------------------------------------
(* Requests of other users are left alone. *)

LEMMA OwnedSession ==
  ASSUME TasksOwned, NEW s \in Sessions, hasTaskSession(s)
  PROVE  s \in owned
BY InteractionsAssumption DEF TasksOwned, hasTaskSession, None

LEMMA NoRequest == RequestOf(NoKey) \notin Requests
BY Nulls DEF RequestOf

LEMMA ListedNext ==
  ASSUME TypeOK, [Next]_vars, Listed
  PROVE  Listed'
<1>1. Lasting
  BY NextLasts
<1>2. ASSUME NEW r \in Requests, ask'[r].state # "none"
      PROVE  ask'[r].session \in Sessions
  BY <1>1, <1>2, AskSteps DEF Listed, Lasting, AsksLast
<1>3. ASSUME NEW q \in Keys, row'[q].status # "absent"
      PROVE  ask'[RequestOf(q)].state # "none" 
  <2>1. ask[RequestOf(q)].state # "none"
    BY <1>3, RowSteps, HeldKey
    DEF RowStep, SameDecision, TakenUp, Demoted, Answered, Rejected, SeenBy,
        Listed, Recorded, Recording, Working
  <2>. QED
    BY <1>1, <2>1, KeyParts DEF Lasting, AsksLast
<1>4. ASSUME NEW k \in Ticks, NEW r \in hold'[k].seen
      PROVE  ask'[r].state # "none"
  <2>1. r \in Requests
    BY NextType DEF TypeOK, TicksOK, Holds
  <2>2. ask[r].state # "none"
    BY TickSteps DEF TickStep, SameTick, Idles, Takes, Works, Listed
  <2>. QED
    BY <1>1, <2>1, <2>2 DEF Lasting, AsksLast
<1>5. ASSUME NEW q \in Recorded PROVE q \in Recorded'
  BY RowSteps
  DEF RowStep, SameDecision, TakenUp, Demoted, Answered, Rejected, Recorded
<1>6. ASSUME NEW i \in DOMAIN tasks', tasks'[i].key # NoKey
      PROVE  tasks'[i].key \in Recorded'
  BY <1>5, <1>6, TaskSteps, HeldKey DEF SameTask, NewTask, Listed
<1>. QED
  BY <1>2, <1>3, <1>4, <1>6 DEF Listed, Recorded

LEMMA ForeignNext ==
  ASSUME TypeOK, [Next]_vars, ForeignInv
  PROVE  ForeignInv'
<1>0. TypeOK' /\ Lasting /\ Listed'
  BY NextType, NextLasts, ListedNext DEF ForeignInv
<1>1. ASSUME NEW r \in Requests, ask[r].state # "none", ask[r].session \in owned
      PROVE  ask'[r].session \in owned'
  BY <1>0, <1>1 DEF Lasting, AsksLast
<1>2. ASSUME NEW k \in Ticks, pc[k] \in Working,
             RequestOf(hold[k].key) \notin Legacy
      PROVE  ask'[RequestOf(hold[k].key)].session \in owned'
  BY <1>1, <1>2, HeldKey, KeyParts DEF ForeignInv, HeldOwned, Listed
<1>3. TasksOwned'
  BY <1>0, TaskSteps DEF TasksOwned, SameTask, NewTask, ForeignInv, Lasting
<1>4. ASSUME NEW q \in Keys, RequestOf(q) \notin Legacy, row'[q].status = "pending"
      PROVE  ask'[RequestOf(q)].session \in owned'
  <2>0. RequestOf(q) \in Requests
    BY KeyParts
  <2>1. CASE SameDecision(q)
    <3>1. row[q].status = "pending" /\ q \in Recorded
      BY <1>4, <2>1 DEF SameDecision, Recorded
    <3>. QED
      BY <1>1, <1>4, <2>0, <3>1 DEF ForeignInv, PendingOwned, Listed
  <2>2. CASE TakenUp(q)
    <3>1. ask[RequestOf(q)].state # "none" /\ ask[RequestOf(q)].session \in Sessions
      BY <2>0, <2>2 DEF TakenUp, SeenBy, ForeignInv, Listed
    <3>2. ask[RequestOf(q)].session \in owned
      BY <2>2, <3>1, OwnedSession DEF TakenUp, ForeignInv
    <3>. QED
      BY <1>1, <2>0, <3>1, <3>2
  <2>. QED
    BY <1>4, <2>1, <2>2, RowSteps DEF RowStep, Demoted, Answered, Rejected
<1>5. ASSUME NEW k \in Ticks, pc'[k] \in Working,
             RequestOf(hold'[k].key) \notin Legacy
      PROVE  ask'[RequestOf(hold'[k].key)].session \in owned'
  <2>1. CASE SameTick(k) \/ Works(k)
    BY <1>2, <1>5, <2>1 DEF SameTick, Works
  <2>2. CASE Takes(k)
    <3>. DEFINE q == hold'[k].key
    <3>1. q \in Keys /\ row[q].status = "pending" /\ q \in Recorded
          /\ RequestOf(q) \in Requests
      BY <2>2, KeyParts DEF Takes, Recorded
    <3>. QED
      BY <1>1, <1>5, <3>1 DEF ForeignInv, PendingOwned, Listed
  <2>. QED
    BY <1>5, <2>1, <2>2, TickSteps DEF TickStep, Idles
<1>6. ASSUME NEW r \in Requests \ Legacy, ask'[r].state = "replied"
      PROVE  ask'[r].session \in owned'
  BY <1>1, <1>2, <1>6, AskSteps DEF RepliedBy, ForeignInv, ForeignUntouched
<1>7. ASSUME NEW i \in DOMAIN tasks', RequestOf(tasks'[i].key) \in Requests \ Legacy
      PROVE  ask'[RequestOf(tasks'[i].key)].session \in owned'
  <2>. DEFINE r == RequestOf(tasks'[i].key)
  <2>1. CASE SameTask(i)
    <3>1. ask[r].session \in owned
      BY <1>7, <2>1 DEF SameTask, ForeignInv, ForeignUntouched
    <3>2. tasks[i].key \in Recorded
      BY <1>7, <2>1, NoRequest DEF SameTask, ForeignInv, Listed
    <3>3. ask[r].state # "none"
      BY <2>1, <3>2 DEF SameTask, ForeignInv, Listed
    <3>. QED
      BY <1>1, <1>7, <3>1, <3>3
  <2>2. CASE NewTask(i)
    BY <1>2, <1>7, <2>2, NoRequest DEF NewTask
  <2>. QED
    BY <2>1, <2>2, TaskSteps
<1>8. PendingOwned' /\ HeldOwned'
  BY <1>4, <1>5 DEF PendingOwned, HeldOwned
<1>9. ForeignUntouched'
  BY <1>6, <1>7 DEF ForeignUntouched
<1>. QED
  BY <1>0, <1>3, <1>8, <1>9 DEF ForeignInv

LEMMA ForeignInit == Init => ForeignInv
<1>. SUFFICES ASSUME Init PROVE ForeignInv
  OBVIOUS
<1>1. PICK kind \in Kinds, s \in Sessions :
        /\ ask = [r \in Requests |->
                    IF r \in Legacy THEN LegacyAsk(kind, s) ELSE NoAsk]
        /\ row = [k \in Keys |->
                    IF k \in {kind} \X Legacy THEN LegacyRow(s) ELSE NoRow]
  BY DEF Init
<1>2. ASSUME NEW q \in Keys, row[q].status # "absent" PROVE RequestOf(q) \in Legacy
  BY <1>1, <1>2 DEF NoRow, RequestOf
<1>3. \A r \in Requests :
        /\ ask[r].state # "replied"
        /\ ask[r].state # "none" => ask[r].session \in Sessions
        /\ r \in Legacy => ask[r].state # "none"
  BY <1>1 DEF LegacyAsk, NoAsk
<1>4. \A i \in DOMAIN tasks : FALSE
  BY DEF Init
<1>5. \A k \in Ticks : pc[k] \notin Working /\ hold[k].seen = {}
  BY DEF Init, Working, NoHold
<1>6. Listed
  <2>1. \A q \in Recorded : RequestOf(q) \in Requests /\ RequestOf(q) \in Legacy
    BY <1>2, KeyParts DEF Recorded
  <2>. QED
    BY <1>3, <1>4, <1>5, <2>1 DEF Listed
<1>7. PendingOwned /\ HeldOwned
  BY <1>2, <1>5 DEF PendingOwned, HeldOwned
<1>8. TasksOwned
  BY <1>4 DEF TasksOwned
<1>9. ForeignUntouched
  BY <1>3, <1>4 DEF ForeignUntouched
<1>. QED
  BY <1>6, <1>7, <1>8, <1>9 DEF ForeignInv

\* What is pending, or held by a tick, belongs to a session a task had when it was
\* classified, whatever X2 did to the tasks meanwhile.
THEOREM PendingIsOwned == Spec => []ForeignInv
BY ForeignInit, ForeignNext, TypeCorrect, PTL DEF Spec

\* Only requests of sessions that belonged to a task are replied to or
\* escalated, however ticks interleave with X2's binding and resetting of
\* sessions.
THEOREM ForeignersLeftAlone == Spec => []ForeignUntouched
<1>1. ForeignInv => ForeignUntouched
  BY DEF ForeignInv
<1>. QED
  BY <1>1, PendingIsOwned, PTL

-----------------------------------------------------------------------------
(* How often one interaction is escalated. *)

Escalations == {"report", "new_task", "skip"}

\* A write that throws and a death leave the tasks alone.
FaultStep == faults' = faults + 1 /\ UNCHANGED tasks

\* The tick at the end of X4's routing adds a task for its own interaction, and
\* may add no other.
EscalateStep(q, k) ==
  /\ k \in MayEscalate(q) /\ k \notin MayEscalate(q)'
  /\ TasksFor(q)' = TasksFor(q) \cup {Len(tasks) + 1}

NoEscalation(q) == TasksFor(q)' = TasksFor(q)

LEMMA MayEscalateSize ==
  /\ \A q : /\ IsFiniteSet(MayEscalate(q))
            /\ Cardinality(MayEscalate(q)) \in Nat
            /\ Cardinality(MayEscalate(q)) <= Cardinality(Ticks)
  /\ Cardinality(Ticks) \in Nat
<1>1. IsFiniteSet(Ticks)
  BY InteractionsAssumption
<1>2. ASSUME NEW q PROVE MayEscalate(q) \subseteq Ticks
  BY DEF MayEscalate
<1>. QED
  BY <1>1, <1>2, FS_Subset, FS_CardinalityType

LEMMA TasksForSize ==
  ASSUME TypeOK, NEW q
  PROVE  IsFiniteSet(TasksFor(q)) /\ Cardinality(TasksFor(q)) \in Nat
<1>1. DOMAIN tasks = 1..Len(tasks) /\ Len(tasks) \in Nat
  BY DEF TypeOK, TableOK
<1>2. IsFiniteSet(DOMAIN tasks)
  BY <1>1, FS_Interval
<1>3. TasksFor(q) \subseteq DOMAIN tasks
  BY DEF TasksFor
<1>. QED
  BY <1>2, <1>3, FS_Subset, FS_CardinalityType

LEMMA InsertTaskAdds ==
  ASSUME TypeOK, NEW s, NEW key, NEW type, InsertTask(s, key, type), NEW q
  PROVE  /\ q # key => NoEscalation(q)
         /\ q = key => TasksFor(q)' = TasksFor(q) \cup {Len(tasks) + 1}
<1>. DEFINE new == [session |-> s, key |-> key, type |-> type]
<1>1. tasks \in Seq(TaskRows) /\ tasks' = Append(tasks, new)
  BY DEF TypeOK, TableOK, InsertTask
<1>2. DOMAIN tasks = 1..Len(tasks) /\ Len(tasks) \in Nat
  BY <1>1
<1>3. DOMAIN tasks' = DOMAIN tasks \cup {Len(tasks) + 1}
  BY <1>1, <1>2
<1>4. \A i \in DOMAIN tasks : tasks'[i] = tasks[i]
  BY <1>1, <1>2
<1>5. tasks'[Len(tasks) + 1] = new /\ Len(tasks) + 1 \notin DOMAIN tasks
  BY <1>1, <1>2
<1>. HIDE DEF new
<1>6. new.key = key
  BY DEF new
<1>. QED
  BY <1>3, <1>4, <1>5, <1>6 DEF TasksFor, NoEscalation

LEMMA ResetSessionAdds ==
  ASSUME TypeOK, NEW j \in DOMAIN tasks, ResetSession(j), NEW q
  PROVE  NoEscalation(q)
<1>1. tasks' = [tasks EXCEPT ![j] = [tasks[j] EXCEPT !.session = None]]
  BY DEF ResetSession
<1>2. tasks \in Seq(TaskRows) /\ tasks[j] \in TaskRows
  BY DEF TypeOK, TableOK
<1>3. DOMAIN tasks' = DOMAIN tasks /\ \A i \in DOMAIN tasks : tasks'[i].key = tasks[i].key
  BY <1>1, <1>2 DEF TaskRows
<1>. QED
  BY <1>3 DEF TasksFor, NoEscalation

LEMMA EscalateAdds ==
  ASSUME TypeOK, NEW k \in Ticks, At(k, "route") \/ At(k, "relay"),
         NEW action \in Escalations, Escalate(k, action), NEW q \in Keys
  PROVE  NoEscalation(q) \/ EscalateStep(q, k)
<1>1. hold[k] \in Holds /\ pc[k] \in OnTheWay /\ pc[k] # "record"
  BY HeldKey DEF At, OnTheWay
<1>2. pc'[k] = "record" /\ hold'[k].key = hold[k].key
  BY <1>1, OthersWait DEF Escalate, Holds
<1>3. CASE action = "skip"
  BY <1>3 DEF Escalate, NoEscalation, TasksFor
<1>4. CASE action # "skip" /\ q # hold[k].key
  BY <1>4, InsertTaskAdds DEF Escalate
<1>5. CASE action # "skip" /\ q = hold[k].key
  <2>1. TasksFor(q)' = TasksFor(q) \cup {Len(tasks) + 1}
    BY <1>5, InsertTaskAdds DEF Escalate
  <2>2. k \in MayEscalate(q) /\ k \notin MayEscalate(q)'
    BY <1>1, <1>2, <1>5 DEF MayEscalate, OnTheWay
  <2>. QED
    BY <2>1, <2>2 DEF EscalateStep
<1>. QED
  BY <1>3, <1>4, <1>5

\* The ticks that may still escalate an interaction only become fewer as long
\* as nothing dies or throws.
LEMMA MayEscalateShrinks ==
  ASSUME TypeOK, [Next]_vars, NEW q \in Keys, faults' = faults
  PROVE  MayEscalate(q)' \subseteq MayEscalate(q)
<1>1. Decided(q) => Decided(q)'
  BY RowSteps
  DEF Decided, RowStep, SameDecision, TakenUp, Demoted, Answered, Rejected
<1>2. ASSUME NEW k \in Ticks, SameTick(k), k \notin MayEscalate(q)
      PROVE  k \notin MayEscalate(q)'
  BY <1>1, <1>2 DEF SameTick, MayEscalate, OnTheWay
<1>3. ASSUME NEW k \in Ticks, k \notin MayEscalate(q), Detect(k) \/ Process(k)
      PROVE  k \notin MayEscalate(q)'
  <2>. DEFINE Same(label, h) == Goto(k, label, h) /\ h.key = hold[k].key
  <2>0. hold[k] \in Holds /\ faults \in Nat
    BY HeldKey, InteractionsAssumption DEF TypeOK
  <2>1. CASE Decided(q)
    <3>1. Decided(q)'
      BY <1>1, <2>1
    <3>2. ~(pc[k] \in OnTheWay /\ hold[k].key = q)
      BY <1>3, <2>1 DEF MayEscalate
    <3>3. ASSUME pc'[k] \notin OnTheWay PROVE k \notin MayEscalate(q)'
      BY <3>1, <3>3 DEF MayEscalate
    <3>4. ASSUME hold'[k].key # q PROVE k \notin MayEscalate(q)'
      BY <3>1, <3>4 DEF MayEscalate
    <3>5. CASE ProcessNext(k)
      <4>1. PICK p \in Keys :
              /\ nextPending(p)
              /\ Pause(k, "evaluate", [hold[k] EXCEPT !.done = @ + 1, !.key = p])
        BY <3>5 DEF ProcessNext
      <4>2. hold'[k].key = p
        <5>. DEFINE h == [hold[k] EXCEPT !.done = @ + 1, !.key = p]
        <5>1. hold'[k] = h
          BY <4>1, OthersWait DEF Pause
        <5>2. h.key = p
          BY <2>0 DEF Holds
        <5>. QED
          BY <5>1, <5>2
      <4>3. p # q
        BY <2>1, <4>1 DEF nextPending, Oldest, PendingOf, Decided
      <4>. QED
        BY <3>4, <4>2, <4>3
    <3>6. CASE Evaluate(k) \/ RouteRelays(k)
      <4>1. hold'[k] = hold[k] /\ pc[k] \in OnTheWay
        BY <3>6, OthersWait DEF Evaluate, RouteRelays, Pause, At, OnTheWay
      <4>. QED
        BY <3>2, <3>4, <4>1
    <3>7. CASE ~(ProcessNext(k) \/ Evaluate(k) \/ RouteRelays(k))
      <4>1. ASSUME NEW label, NEW h, Goto(k, label, h), label \notin OnTheWay
            PROVE  k \notin MayEscalate(q)'
        BY <3>3, <4>1, OthersWait
      <4>2. CASE Detect(k)
        BY <4>1, <4>2
        DEF Detect, StartTick, ListRequests, consumeList, ConsumeFails, Pause, OnTheWay
      <4>3. CASE RouteEscalates(k) \/ RelayFails(k)
        <5>1. PICK action : Escalate(k, action)
          BY <4>3 DEF RouteEscalates, RelayFails
        <5>. QED
          BY <4>1, <5>1 DEF Escalate, OnTheWay
      <4>4. CASE Process(k) /\ ~(RouteEscalates(k) \/ RelayFails(k))
        BY <3>7, <4>1, <4>4
        DEF Process, TickEnds, EvaluateFails, ReplyAccepted, ReplyFails,
            RelayAccepted, RecordAnswered, RecordRejected, WriteFails, Pause, OnTheWay
      <4>. QED
        BY <1>3, <4>2, <4>3, <4>4
    <3>. QED
      BY <3>5, <3>6, <3>7
  <2>2. CASE ~Decided(q)
    <3>1. pc[k] = "record" /\ hold[k].key = q
      BY <1>3, <2>2 DEF MayEscalate
    <3>2. RecordAnswered(k)
      BY <1>3, <2>0, <3>1
      DEF Detect, StartTick, ListRequests, consumeList, ConsumeFails, Process,
          ProcessNext, TickEnds, Evaluate, EvaluateFails, ReplyAccepted, ReplyFails,
          RouteEscalates, RouteRelays, RelayAccepted, RelayFails, RecordRejected,
          WriteFails, At
    <3>3. pc'[k] = "next"
      BY <3>2, OthersWait DEF RecordAnswered
    <3>4. Decided(q)'
      <4>1. row[q] \in Rows /\ row \in [Keys -> Rows]
        BY DEF TypeOK, TableOK
      <4>. QED
        BY <3>1, <3>2, <4>1 DEF RecordAnswered, updateInteraction, Decided, Rows
    <3>. QED
      BY <3>3, <3>4 DEF MayEscalate, OnTheWay
  <2>. QED
    BY <2>1, <2>2
<1>4. ASSUME NEW k \in Ticks, k \notin MayEscalate(q)
      PROVE  k \notin MayEscalate(q)'
  <2>1. CASE UNCHANGED <<pc, hold>>
    BY <1>2, <1>4, <2>1 DEF SameTick
  <2>2. CASE Crash
    BY <2>2, InteractionsAssumption DEF Crash, TypeOK
  <2>3. ASSUME NEW j \in Ticks, Detect(j) \/ Process(j) PROVE k \notin MayEscalate(q)'
    <3>1. CASE j = k
      BY <1>3, <1>4, <2>3, <3>1
    <3>2. CASE j # k
      <4>1. PICK label, h : Goto(j, label, h)
        BY <2>3
        DEF Detect, StartTick, ListRequests, consumeList, ConsumeFails, Process,
            ProcessNext, TickEnds, Evaluate, EvaluateFails, ReplyAccepted, ReplyFails,
            RouteEscalates, RouteRelays, RelayAccepted, RelayFails, Escalate,
            RecordAnswered, RecordRejected, WriteFails, Pause
      <4>. QED
        BY <1>2, <1>4, <3>2, <4>1, OthersWait
    <3>. QED
      BY <3>1, <3>2
  <2>. QED
    BY <2>1, <2>2, <2>3 DEF Next, Ask, Close, BindSession, ResetSession, vars
<1>. QED
  BY <1>4 DEF MayEscalate

\* Every step is a fault, an escalation by a tick that might, or adds no task
\* for the interaction.
LEMMA EscalationSteps ==
  ASSUME TypeOK, [Next]_vars, NEW q \in Keys
  PROVE  \/ FaultStep
         \/ faults' = faults /\ NoEscalation(q)
         \/ faults' = faults /\ \E k \in Ticks : EscalateStep(q, k)
<1>1. CASE UNCHANGED <<tasks, faults>>
  BY <1>1 DEF NoEscalation, TasksFor
<1>2. ASSUME NEW s \in Sessions, BindSession(s) PROVE faults' = faults /\ NoEscalation(q)
  BY <1>2, InsertTaskAdds, Nulls DEF BindSession
<1>3. ASSUME NEW i \in DOMAIN tasks, ResetSession(i)
      PROVE  faults' = faults /\ NoEscalation(q)
  BY <1>3, ResetSessionAdds DEF ResetSession
<1>4. ASSUME NEW k \in Ticks, RouteEscalates(k) \/ RelayFails(k)
      PROVE  faults' = faults /\ (NoEscalation(q) \/ EscalateStep(q, k))
  <2>1. PICK action \in Escalations : Escalate(k, action)
    BY <1>4 DEF RouteEscalates, RelayFails, fallbackActions, Escalations
  <2>. QED
    BY <1>4, <2>1, EscalateAdds DEF RouteEscalates, RelayFails, Escalate
<1>5. ASSUME NEW k \in Ticks, Detect(k) PROVE FaultStep \/ UNCHANGED <<tasks, faults>>
  BY <1>5
  DEF Detect, StartTick, ListRequests, consumeList, ConsumeFails, Pause, FaultStep
<1>6. ASSUME NEW k \in Ticks, Process(k), ~(RouteEscalates(k) \/ RelayFails(k))
      PROVE  FaultStep \/ UNCHANGED <<tasks, faults>>
  BY <1>6
  DEF Process, ProcessNext, TickEnds, Evaluate, EvaluateFails, ReplyAccepted,
      ReplyFails, RouteRelays, RelayAccepted, RecordAnswered, RecordRejected,
      WriteFails, Pause, FaultStep
<1>7. CASE Crash
  BY <1>7 DEF Crash, FaultStep
<1>. QED
  BY <1>1, <1>2, <1>3, <1>4, <1>5, <1>6, <1>7 DEF Next, Ask, Close, vars

\* The three ways the sum can change and stay within its budget.
LEMMA Budgets ==
  ASSUME NEW t \in Nat, NEW may \in Nat, NEW t1 \in Nat, NEW may1 \in Nat,
         NEW n \in Nat, NEW b \in Nat, t + may <= b
  PROVE  /\ t1 = t /\ may1 <= n => t1 + may1 <= b + n
         /\ t1 = t /\ may1 <= may => t1 + may1 <= b
         /\ t1 <= t + 1 /\ may1 <= may - 1 => t1 + may1 <= b
OBVIOUS

LEMMA EscalationNext ==
  ASSUME TypeOK, [Next]_vars, EscalationInv
  PROVE  EscalationInv'
<1>. SUFFICES ASSUME NEW q \in Keys
              PROVE  Cardinality(TasksFor(q)') + Cardinality(MayEscalate(q)')
                       <= Cardinality(Ticks) * (1 + faults')
  BY DEF EscalationInv
<1>. DEFINE t == Cardinality(TasksFor(q))    may == Cardinality(MayEscalate(q))
            t1 == Cardinality(TasksFor(q)')  may1 == Cardinality(MayEscalate(q)')
            n == Cardinality(Ticks)          b == n * (1 + faults)
<1>1. t \in Nat /\ may \in Nat /\ n \in Nat /\ faults \in Nat /\ b \in Nat
  BY TasksForSize, MayEscalateSize, InteractionsAssumption DEF TypeOK
<1>2. t + may <= b
  BY DEF EscalationInv
<1>3. MayEscalate(q)' \subseteq Ticks /\ IsFiniteSet(Ticks)
  BY InteractionsAssumption DEF MayEscalate
<1>4. may1 \in Nat /\ may1 <= n
  BY <1>3, FS_Subset, FS_CardinalityType
<1>5. CASE FaultStep
  <2>1. t1 = t /\ faults' = faults + 1
    BY <1>5 DEF FaultStep, TasksFor
  <2>2. n * (1 + faults') = b + n
    BY <1>1, <2>1
  <2>3. t1 + may1 <= b + n
    BY <1>1, <1>2, <1>4, <2>1, Budgets
  <2>. QED
    BY <2>2, <2>3
<1>6. CASE faults' = faults /\ NoEscalation(q)
  <2>1. MayEscalate(q)' \subseteq MayEscalate(q)
    BY <1>6, MayEscalateShrinks
  <2>2. may1 <= may
    BY <2>1, MayEscalateSize, FS_Subset
  <2>3. t1 = t
    BY <1>6 DEF NoEscalation
  <2>4. t1 + may1 <= b
    BY <1>1, <1>2, <1>4, <2>2, <2>3, Budgets
  <2>. QED
    BY <1>6, <2>4
<1>7. ASSUME NEW k \in Ticks, faults' = faults, EscalateStep(q, k)
      PROVE  t1 + may1 <= n * (1 + faults')
  <2>1. MayEscalate(q)' \subseteq MayEscalate(q) \ {k} /\ k \in MayEscalate(q)
    BY <1>7, MayEscalateShrinks DEF EscalateStep
  <2>2. Cardinality(MayEscalate(q) \ {k}) = may - 1 /\ IsFiniteSet(MayEscalate(q) \ {k})
    BY <2>1, MayEscalateSize, FS_RemoveElement
  <2>3. may1 <= may - 1
    BY <2>1, <2>2, FS_Subset
  <2>4. t1 <= t + 1 /\ t1 \in Nat
    <3>1. IsFiniteSet(TasksFor(q))
      BY TasksForSize
    <3>2. \/ Cardinality(TasksFor(q) \cup {Len(tasks) + 1}) = t
          \/ Cardinality(TasksFor(q) \cup {Len(tasks) + 1}) = t + 1
      BY <3>1, FS_AddElement
    <3>3. TasksFor(q)' = TasksFor(q) \cup {Len(tasks) + 1}
      BY <1>7 DEF EscalateStep
    <3>. HIDE DEF t
    <3>4. t1 = t \/ t1 = t + 1
      BY <3>2, <3>3
    <3>. QED
      BY <1>1, <3>4
  <2>5. t1 + may1 <= b
    BY <1>1, <1>2, <1>4, <2>3, <2>4, Budgets
  <2>. QED
    BY <1>7, <2>5
<1>. QED
  BY <1>5, <1>6, <1>7, EscalationSteps

LEMMA EscalationInit == Init => EscalationInv
<1>. SUFFICES ASSUME Init, NEW q \in Keys
              PROVE  Cardinality(TasksFor(q)) + Cardinality(MayEscalate(q))
                       <= Cardinality(Ticks) * (1 + faults)
  BY DEF EscalationInv
<1>1. TasksFor(q) = {} /\ faults = 0
  BY DEF Init, TasksFor
<1>2. Cardinality(TasksFor(q)) = 0
  BY <1>1, FS_EmptySet
<1>. QED
  BY <1>1, <1>2, MayEscalateSize

\* The tasks made for an interaction and the ticks that may still make one are
\* together at most as many as the ticks, times one more than the faults.
THEOREM EscalationsAreCounted == Spec => []EscalationInv
BY EscalationInit, EscalationNext, TypeCorrect, PTL DEF Spec

\* So an interaction becomes at most as many tasks: one per tick that may be under
\* way as long as nothing fails, and as many again with every fault.  It is a bound
\* on their total, for any number of ticks, requests and faults.
THEOREM EscalationsStayBounded == Spec => []EscalationsBounded
<1>1. ASSUME TypeOK, EscalationInv PROVE EscalationsBounded
  <2>. SUFFICES ASSUME NEW q \in Keys
                PROVE  Cardinality(TasksFor(q)) <= Cardinality(Ticks) * (1 + faults)
    BY DEF EscalationsBounded
  <2>1. Cardinality(TasksFor(q)) \in Nat /\ Cardinality(MayEscalate(q)) \in Nat
    BY <1>1, TasksForSize, MayEscalateSize
  <2>2. Cardinality(Ticks) * (1 + faults) \in Nat
    BY <1>1, MayEscalateSize, InteractionsAssumption DEF TypeOK
  <2>3. Cardinality(TasksFor(q)) + Cardinality(MayEscalate(q))
          <= Cardinality(Ticks) * (1 + faults)
    BY <1>1 DEF EscalationInv
  <2>. QED
    BY <2>1, <2>2, <2>3
<1>. QED
  BY <1>1, TypeCorrect, EscalationsAreCounted, PTL
=============================================================================
