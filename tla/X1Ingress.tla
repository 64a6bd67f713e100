------------------------------- MODULE X1Ingress -------------------------------
(***************************************************************************)
(* The X1 fronts that feed the task queue: the webhook (x1/server.ts), the *)
(* poller (x1/poller.ts) and x1-receive, a command that enqueues one       *)
(* payload by hand beside them.  All three run enqueueTelegramUpdate       *)
(* (x1/telegram.ts): register the event, create its task, set the event's  *)
(* status, record a metric, four writes to state.db of which each may      *)
(* throw and between which the process may die.                            *)
(***************************************************************************)
EXTENDS X1Telegram

CONSTANTS
  HandMade,     \* payloads an operator passes to x1-receive
  MaxHand,      \* bound on uses of x1-receive
  MaxThrows     \* bound on writes to state.db that throw

ASSUME IngressAssumption ==
  /\ HandMade \subseteq Payloads
  /\ MaxHand \in Nat
  /\ MaxThrows \in Nat

VARIABLES
  events,   \* inbound_events: from event_id to the row's status and payload
  tasks,    \* the tasks X1 inserted, in order of creation
  at,       \* per process: where enqueueTelegramUpdate or its caller stands
  doing,    \* per process: the payload in hand and the result so far
  last,     \* the last update of the poller's answer, 0 if it was empty
  hands,    \* uses of x1-receive so far
  throws    \* writes that threw so far

tableVars == <<events, tasks>>
procVars  == <<at, doing>>
ingressVars == <<events, tasks, at, doing, last, hands, throws>>

Procs == {"front", "hand"}

NoPayload == [update |-> 0, message |-> Nothing, chat |-> Nothing,
              user |-> Nothing, body |-> "none", length |-> 0]
NoWork == [payload |-> NoPayload, action |-> "none", task |-> 0]

\* Where a process stands:
\*   down       not running (x1-receive: not started)
\*   idle       between two requests, or two getUpdates
\*   next       in the poller's loop over a batch
\*   registered the event row is in, its task is not
\*   created    so is the task           duplicate  the row was already there
\*   recording  about to write the metric and return
\*   ack        awaiting notifyQueued (the poller), or answering (the webhook)
Labels == {"down", "idle", "next", "registered", "created", "duplicate",
           "recording", "ack"}

IngressInit ==
  /\ events = << >>
  /\ tasks = <<>>
  /\ at = [p \in Procs |-> "down"]
  /\ doing = [p \in Procs |-> NoWork]
  /\ last = 0
  /\ hands = 0
  /\ throws = 0

At(p, label) == at[p] = label
eventIdOf(p) == parseTelegramMessage(doing[p].payload).id

Goto(p, label, work) ==
  /\ at' = [at EXCEPT ![p] = label]
  /\ doing' = [doing EXCEPT ![p] = work]

-----------------------------------------------------------------------------
(* inbound_events in x2/store.ts. *)

Put(id, status, payload) ==
  events' = [x \in DOMAIN events \cup {id} |->
               IF x = id THEN [status |-> status, payload |-> payload]
               ELSE events[x]]

\* Mutant: the insert replaces the row instead of doing nothing on conflict.
registerOrReplace(p, payload) ==
  LET parsed == parseTelegramMessage(payload)
  IN /\ Put(parsed.id, IF parsed.ok THEN "received" ELSE "invalid", payload)
     /\ Goto(p, IF parsed.ok THEN "registered" ELSE "recording",
             [payload |-> payload,
              action  |-> IF parsed.ok THEN "enqueued" ELSE "invalid",
              task    |-> 0])

\* INSERT ... ON CONFLICT(channel, event_id) DO NOTHING, and the branch that
\* enqueueTelegramUpdate takes on `created` and on what the parser said.
registerInboundEvent(p, payload) ==
  LET parsed == parseTelegramMessage(payload)
  IN \/ /\ parsed.id \in DOMAIN events
        /\ Goto(p, "duplicate",
                [payload |-> payload, action |-> "duplicate", task |-> 0])
        /\ UNCHANGED events
     \/ /\ parsed.id \notin DOMAIN events
        /\ Put(parsed.id, IF parsed.ok THEN "received" ELSE "invalid", payload)
        /\ Goto(p, IF parsed.ok THEN "registered" ELSE "recording",
                [payload |-> payload,
                 action  |-> IF parsed.ok THEN "enqueued" ELSE "invalid",
                 task    |-> 0])

updateInboundEventStatus(p, status) ==
  events' = [events EXCEPT ![eventIdOf(p)].status = status]

-----------------------------------------------------------------------------
(* enqueueTelegramUpdate, after the event is registered. *)

encodeTelegramTaskSource(payload) ==
  [base |-> "x1_telegram", chat |-> payload.chat]

createTask(p) ==
  /\ At(p, "registered")
  /\ tasks' = Append(tasks, [event  |-> eventIdOf(p),
                             prompt |-> doing[p].payload,
                             source |-> encodeTelegramTaskSource(doing[p].payload),
                             acks   |-> 0])
  /\ Goto(p, "created", [doing[p] EXCEPT !.task = Len(tasks) + 1])
  /\ UNCHANGED <<events, last, hands, throws, front, telegramVars, pollVars, deaths>>

\* The status says received again, whatever a process beside wrote meanwhile.
markReceived(p) ==
  /\ At(p, "created")
  /\ updateInboundEventStatus(p, "received")
  /\ Goto(p, "recording", doing[p])
  /\ UNCHANGED <<tasks, last, hands, throws, front, telegramVars, pollVars, deaths>>

\* Also of the event that made a task the first time.
markDuplicate(p) ==
  /\ At(p, "duplicate")
  /\ updateInboundEventStatus(p, "duplicate")
  /\ Goto(p, "recording", doing[p])
  /\ UNCHANGED <<tasks, last, hands, throws, front, telegramVars, pollVars, deaths>>

\* The last write; enqueueTelegramUpdate returns its result to its caller.
recordMetric(p) ==
  /\ At(p, "recording")
  /\ \/ /\ p = "front" /\ Goto(p, "ack", doing[p])
     \/ /\ p = "hand" /\ Goto(p, "down", NoWork)
  /\ UNCHANGED <<tableVars, last, hands, throws, front, telegramVars, pollVars, deaths>>

Inside == {"registered", "created", "duplicate", "recording"}

\* A write throws out of enqueueTelegramUpdate.  The poller's catch drops the
\* rest of the batch and leaves the offset alone, the webhook answers 500 and
\* Telegram keeps the update, x1-receive exits.
storeThrows(p) ==
  /\ throws < MaxThrows
  /\ throws' = throws + 1
  /\ \/ At(p, "next") /\ batch # {}
     \/ at[p] \in Inside
  /\ Goto(p, IF p = "front" THEN "idle" ELSE "down", NoWork)
  /\ IF p = "front" THEN batch' = {} ELSE UNCHANGED batch
  /\ UNCHANGED <<tableVars, last, hands, front, telegramVars, offset, deaths>>

-----------------------------------------------------------------------------
(* channels/task-ack.ts: the notice that a task is queued. *)

\* A source with a chat is a telegram one; the front's sources are neither
\* web#thread: nor cli, so without a chat they go to the console.
resolveTaskChannel(source) ==
  IF source.chat # Nothing THEN "telegram" ELSE "unknown"

\* Mutant: every result of enqueueTelegramUpdate is acknowledged.
notifyAnyResult(p) ==
  \E i \in DOMAIN tasks :
    /\ tasks[i].event = eventIdOf(p)
    /\ tasks' = [tasks EXCEPT ![i].acks = @ + 1]

\* sendMessage may fail: the error is logged.  A console notice is no message.
notifyQueued(p) ==
  LET i == doing[p].task
  IN \/ UNCHANGED tasks
     \/ /\ doing[p].action = "enqueued"
        /\ resolveTaskChannel(tasks[i].source) = "telegram"
        /\ tasks' = [tasks EXCEPT ![i].acks = @ + 1]

-----------------------------------------------------------------------------
(* The poller. *)

\* After verifyToken and, for the webhook, Bun.serve.
frontStarts ==
  /\ front \in {"webhook", "poller"}
  /\ At("front", "down")
  /\ Goto("front", "idle", NoWork)
  /\ UNCHANGED <<tableVars, last, hands, throws, front, telegramVars, pollVars, deaths>>

\* Mutant: the offset is moved when the batch arrives.
offsetMovedAtOnce ==
  /\ front = "poller"
  /\ At("front", "idle")
  /\ batch' = Answer(offset)
  /\ pending' = Unconfirmed(offset)
  /\ \/ batch' = {} /\ last' = 0 /\ offset' = offset
     \/ /\ last' \in batch' /\ \A v \in batch' : v <= last'
        /\ offset' = last' + 1
  /\ Goto("front", "next", NoWork)
  /\ UNCHANGED <<tableVars, hands, throws, front, sent, deaths>>

pollerFetches ==
  /\ front = "poller"
  /\ At("front", "idle")
  /\ fetchUpdates
  /\ \/ batch' = {} /\ last' = 0
     \/ last' \in batch' /\ \A v \in batch' : v <= last'
  /\ Goto("front", "next", NoWork)
  /\ UNCHANGED <<tableVars, hands, throws>>

pollerFetchThrows ==
  /\ front = "poller"
  /\ At("front", "idle")
  /\ fetchThrows
  /\ UNCHANGED ingressVars

pollerSkips ==
  /\ front = "poller"
  /\ At("front", "next")
  /\ \E u \in batch :
       /\ IsNext(u)
       /\ parseTelegramMessage(sent[u]).ok
       /\ ~ allowedByUserId(sent[u])
       /\ batch' = batch \ {u}
  /\ UNCHANGED <<ingressVars, front, telegramVars, offset, deaths>>

pollerTakes ==
  /\ front = "poller"
  /\ At("front", "next")
  /\ \E u \in batch :
       /\ IsNext(u)
       /\ \/ ~ parseTelegramMessage(sent[u]).ok
          \/ allowedByUserId(sent[u])
       /\ registerInboundEvent("front", sent[u])
  /\ UNCHANGED <<tasks, last, hands, throws, front, telegramVars, pollVars, deaths>>

pollerAcks ==
  /\ front = "poller"
  /\ At("front", "ack")
  /\ notifyQueued("front")
  /\ batch' = batch \ {doing["front"].payload.update}
  /\ Goto("front", "next", NoWork)
  /\ UNCHANGED <<events, last, hands, throws, front, telegramVars, offset, deaths>>

\* Mutant: the offset is that of the last update, not one more.
offsetAtLast ==
  /\ front = "poller"
  /\ At("front", "next")
  /\ batch = {}
  /\ offset' = last
  /\ Goto("front", "idle", NoWork)
  /\ UNCHANGED <<tableVars, last, hands, throws, front, telegramVars, batch, deaths>>

\* The batch is done: only now does the offset move, past its last update.
pollerMovesOffset ==
  /\ front = "poller"
  /\ At("front", "next")
  /\ batch = {}
  /\ offset' = IF last = 0 THEN offset ELSE last + 1
  /\ Goto("front", "idle", NoWork)
  /\ UNCHANGED <<tableVars, last, hands, throws, front, telegramVars, batch, deaths>>

-----------------------------------------------------------------------------
(* The webhook.  A request that is not Telegram's (another path or method, *)
(* a wrong secret) or whose body is no JSON is refused before anything is  *)
(* read or written: no step of the model.                                  *)

webhookReceives(u) ==
  /\ front = "webhook"
  /\ At("front", "idle")
  /\ u \in pending
  /\ registerInboundEvent("front", sent[u])
  /\ UNCHANGED <<tasks, last, hands, throws, front, telegramVars, pollVars, deaths>>

\* 200: Telegram forgets the update, unless the answer is lost on its way.
\* notifyQueued is not awaited.
webhookAnswers(lost) ==
  /\ front = "webhook"
  /\ At("front", "ack")
  /\ notifyQueued("front")
  /\ pending' = IF lost THEN pending
                ELSE pending \ {doing["front"].payload.update}
  /\ Goto("front", "idle", NoWork)
  /\ UNCHANGED <<events, last, hands, throws, front, sent, pollVars, deaths>>

-----------------------------------------------------------------------------
(* x1-receive: a payload of the operator's, or an update copied from a log. *)

receiveStarts ==
  /\ hands < MaxHand
  /\ hands' = hands + 1
  /\ At("hand", "down")
  /\ \E payload \in HandMade \cup {sent[u] : u \in DOMAIN sent} :
       registerInboundEvent("hand", payload)
  /\ UNCHANGED <<tasks, last, throws, front, telegramVars, pollVars, deaths>>

frontDies ==
  /\ ~ At("front", "down")
  /\ Dies
  /\ Goto("front", "down", NoWork)
  /\ last' = 0
  /\ UNCHANGED <<tableVars, hands, throws>>

handDies ==
  /\ ~ At("hand", "down")
  /\ deaths < MaxDeaths
  /\ deaths' = deaths + 1
  /\ Goto("hand", "down", NoWork)
  /\ UNCHANGED <<tableVars, last, hands, throws, front, telegramVars, pollVars>>

-----------------------------------------------------------------------------
enqueueTelegramUpdate(p) ==
  createTask(p) \/ markReceived(p) \/ markDuplicate(p) \/ recordMetric(p)

poller == pollerFetches \/ pollerSkips \/ pollerTakes \/ pollerAcks \/ pollerMovesOffset

IngressNext ==
  \/ \E p \in Procs : enqueueTelegramUpdate(p) \/ storeThrows(p)
  \/ frontStarts \/ poller \/ pollerFetchThrows
  \/ \E u \in pending : webhookReceives(u)
  \/ \E lost \in BOOLEAN : webhookAnswers(lost)
  \/ receiveStarts \/ frontDies \/ handDies

allVars == <<front, telegramVars, pollVars, deaths, ingressVars>>

Init == TelegramInit /\ IngressInit
Next == IngressNext \/ (Send /\ UNCHANGED ingressVars)
Spec == Init /\ [][Next]_allVars

\* The scheduler runs a process that can run; Telegram repeats a delivery
\* until one is answered and its answer arrives.
IngressFairness ==
  /\ WF_allVars(frontStarts) /\ WF_allVars(poller)
  /\ WF_allVars(enqueueTelegramUpdate("front"))
  /\ \A u \in Updates : SF_allVars(webhookReceives(u))
  /\ SF_allVars(webhookAnswers(FALSE))

-----------------------------------------------------------------------------
(* Properties. *)

EventIds ==
  ({"update"} \X Nat) \cup ({"message"} \X Names \X Names)
    \cup ({"length"} \X Names \X Names \X Nat)
    \cup ({"user"} \X Names \X Names) \cup ({"hash"} \X Payloads)

Rows == [event: EventIds, prompt: Payloads,
         source: [base: {"x1_telegram"}, chat: Identity], acks: Nat]

Works == [payload: Payloads, action: {"none", "enqueued", "duplicate", "invalid"},
          task: Nat]

\* Types of every variable of this module and of X1Telegram.
TypeOK ==
  /\ TelegramTypeOK
  /\ \A id \in DOMAIN events :
       events[id].status \in {"received", "invalid", "duplicate"}
  /\ tasks \in Seq(Rows)
  /\ at \in [Procs -> Labels]
  /\ doing \in [Procs -> Works]
  /\ last \in 0..Len(sent)
  /\ hands \in 0..MaxHand
  /\ throws \in 0..MaxThrows

\* However often an update is delivered, polled again after a restart or
\* passed to x1-receive, and whichever processes do so at once: the event has
\* at most one task (x1/telegram.ts:301, the ON CONFLICT of x2/store.ts:948).
OneTaskPerEvent ==
  \A i, j \in DOMAIN tasks : tasks[i].event = tasks[j].event => i = j

HasTask(id) == \E i \in DOMAIN tasks : tasks[i].event = id

\* Messages the front has dealt with that are no task and on no way to it.
LostUpdates ==
  {u \in DOMAIN sent \ pending :
     /\ parseTelegramMessage(sent[u]).ok
     /\ front = "poller" => allowedByUserId(sent[u])
     /\ \A i \in DOMAIN tasks : tasks[i].prompt # sent[u]
     /\ \A p \in Procs : ~ (At(p, "registered") /\ doing[p].payload = sent[u])}

\* A message that Telegram was told is received never becomes a task only
\* where a process died or a write threw between the registration of its event
\* and the insertion of the task, and one such fault loses one message: no
\* batch, edit, redelivery or restart loses another (x1/telegram.ts:301-334).
OneLossPerFault ==
  front \in {"webhook", "poller"} => Cardinality(LostUpdates) <= deaths + throws

\* What Telegram has been told is received is on record, or is of a user who
\* is not allowed: neither a death nor a write that throws in the middle of a
\* batch moves the offset past an update nobody registered
\* (x1/poller.ts:473-479, x1/server.ts:165).
ConfirmedIsRecorded ==
  front \in {"webhook", "poller"} =>
    \A u \in DOMAIN sent \ pending :
      \/ <<"update", u>> \in DOMAIN events
      \/ front = "poller" /\ ~ allowedByUserId(sent[u])

\* The user is told at most once that a task is queued, through every
\* repetition of the update (x1/poller.ts:434, x1/server.ts:124).
AckedOnce == \A i \in DOMAIN tasks : tasks[i].acks <= 1

=============================================================================
