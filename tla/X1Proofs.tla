------------------------------- MODULE X1Proofs -------------------------------
(***************************************************************************)
(* Proofs about the X1 fronts that feed the queue, for any number of       *)
(* updates, batches of any size, any use of x1-receive, and any number of  *)
(* deaths and writes that throw.                                           *)
(***************************************************************************)
EXTENDS X1Ingress, TLAPS, FiniteSetTheorems, SequenceTheorems

-----------------------------------------------------------------------------
(* The parser. *)

LEMMA IdType ==
  ASSUME NEW p \in Payloads
  PROVE  parseTelegramMessage(p).id \in EventIds
<1>1. deriveEventId(p) \in EventIds
  BY DEF deriveEventId, EventIds, Payloads, Identity
<1>2. <<"update", p.update>> \in EventIds /\ <<"hash", p>> \in EventIds
  BY DEF EventIds, Payloads
<1>. QED
  BY <1>1, <1>2 DEF parseTelegramMessage

\* An update is known by its number, whatever else it says.
LEMMA IdOfUpdate ==
  ASSUME NEW p, p.update # 0
  PROVE  parseTelegramMessage(p).id = <<"update", p.update>>
BY DEF parseTelegramMessage, deriveEventId

-----------------------------------------------------------------------------
(* Type correctness. *)

LEMMA Constants ==
  /\ NoPayload \in Payloads /\ NoWork \in Works
  /\ MaxUpdates \in Nat /\ MaxDeaths \in Nat /\ MaxThrows \in Nat /\ MaxHand \in Nat
<1>1. Nothing \in Identity /\ "none" \in Bodies
  BY DEF Identity, Bodies
<1>2. NoPayload \in Payloads
  BY <1>1 DEF NoPayload, Payloads
<1>. QED
  BY <1>2, X1Assumption, IngressAssumption DEF NoWork, Works

LEMMA GotoType ==
  ASSUME at \in [Procs -> Labels], doing \in [Procs -> Works],
         NEW p \in Procs, NEW label \in Labels, NEW work \in Works,
         Goto(p, label, work)
  PROVE  at' \in [Procs -> Labels] /\ doing' \in [Procs -> Works]
BY DEF Goto

\* Registering an event keeps the types and loses no row.
LEMMA RegisterType ==
  ASSUME TypeOK, NEW p \in Procs, NEW payload \in Payloads,
         registerInboundEvent(p, payload)
  PROVE  /\ at' \in [Procs -> Labels]
         /\ doing' \in [Procs -> Works]
         /\ \A id \in DOMAIN events' :
              events'[id].status \in {"received", "invalid", "duplicate"}
<1>. DEFINE id == parseTelegramMessage(payload).id
            ok == parseTelegramMessage(payload).ok
<1>1. ok \in BOOLEAN
  BY DEF parseTelegramMessage, pickMessage, pickText
<1>2. CASE /\ id \in DOMAIN events
           /\ Goto(p, "duplicate",
                   [payload |-> payload, action |-> "duplicate", task |-> 0])
           /\ UNCHANGED events
  BY <1>2, GotoType DEF TypeOK, Labels, Works
<1>3. CASE /\ id \notin DOMAIN events
           /\ Put(id, IF ok THEN "received" ELSE "invalid", payload)
           /\ Goto(p, IF ok THEN "registered" ELSE "recording",
                   [payload |-> payload,
                    action  |-> IF ok THEN "enqueued" ELSE "invalid", task |-> 0])
  <2>1. (IF ok THEN "registered" ELSE "recording") \in Labels
    BY DEF Labels
  <2>2. [payload |-> payload,
         action  |-> IF ok THEN "enqueued" ELSE "invalid", task |-> 0] \in Works
    BY DEF Works
  <2>3. at' \in [Procs -> Labels] /\ doing' \in [Procs -> Works]
    BY <1>3, <2>1, <2>2, GotoType DEF TypeOK
  <2>. QED
    BY <1>3, <2>3 DEF Put, TypeOK
<1>. QED
  BY <1>2, <1>3 DEF registerInboundEvent

LEMMA StatusType ==
  ASSUME TypeOK, NEW p \in Procs, NEW status \in {"received", "duplicate"},
         updateInboundEventStatus(p, status)
  PROVE  \A id \in DOMAIN events' :
           events'[id].status \in {"received", "invalid", "duplicate"}
BY DEF TypeOK, updateInboundEventStatus

LEMMA AckType ==
  ASSUME TypeOK, NEW p \in Procs, notifyQueued(p)
  PROVE  tasks' \in Seq(Rows)
<1>1. CASE UNCHANGED tasks
  BY <1>1 DEF TypeOK
<1>2. CASE tasks' = [tasks EXCEPT ![doing[p].task].acks = @ + 1]
  <2>. DEFINE i == doing[p].task
  <2>1. CASE i \in 1..Len(tasks)
    <3>. DEFINE e == [tasks[i] EXCEPT !.acks = @ + 1]
    <3>1. tasks[i] \in Rows
      BY <2>1 DEF TypeOK
    <3>2. e \in Rows
      BY <3>1 DEF Rows
    <3>3. tasks' = [tasks EXCEPT ![i] = e]
      BY <1>2
    <3>. QED
      BY <2>1, <3>2, <3>3, ExceptSeq DEF TypeOK
  <2>2. CASE i \notin 1..Len(tasks)
    <3>1. tasks' = tasks
      BY <1>2, <2>2 DEF TypeOK
    <3>. QED
      BY <3>1 DEF TypeOK
  <2>. QED
    BY <2>1, <2>2
<1>. QED
  BY <1>1, <1>2 DEF notifyQueued

LEMMA CreateType ==
  ASSUME TypeOK, NEW p \in Procs, createTask(p)
  PROVE  tasks' \in Seq(Rows) /\ doing' \in [Procs -> Works] /\ at' \in [Procs -> Labels]
<1>1. doing[p].payload \in Payloads
  BY DEF TypeOK, Works
<1>2. eventIdOf(p) \in EventIds
  BY <1>1, IdType DEF eventIdOf
<1>3. [event |-> eventIdOf(p), prompt |-> doing[p].payload,
       source |-> encodeTelegramTaskSource(doing[p].payload), acks |-> 0] \in Rows
  BY <1>1, <1>2 DEF Rows, encodeTelegramTaskSource, Payloads
<1>4. tasks' \in Seq(Rows)
  BY <1>3 DEF TypeOK, createTask
<1>5. [doing[p] EXCEPT !.task = Len(tasks) + 1] \in Works
  BY DEF TypeOK, Works
<1>. QED
  BY <1>4, <1>5, GotoType DEF TypeOK, createTask, Labels

LEMMA SendType ==
  ASSUME TypeOK, Send
  PROVE  /\ sent' \in Seq(Payloads) /\ Len(sent') = Len(sent) + 1
         /\ Len(sent') <= MaxUpdates
         /\ \A u \in 1..Len(sent') : sent'[u].update = u
         /\ \A u \in 1..Len(sent) : sent'[u] = sent[u]
<1>1. PICK p \in Shapes : sent' = Append(sent, [p EXCEPT !.update = Len(sent) + 1])
  BY DEF Send
<1>2. p \in Payloads /\ Len(sent) \in Nat /\ Len(sent) < MaxUpdates
  BY X1Assumption DEF Send, TypeOK, TelegramTypeOK
<1>. DEFINE q == [p EXCEPT !.update = Len(sent) + 1]
<1>3. q \in Payloads /\ q.update = Len(sent) + 1
  BY <1>2 DEF Payloads
<1>. HIDE DEF q
<1>. QED
  BY <1>1, <1>2, <1>3, Constants DEF TypeOK, TelegramTypeOK, q

LEMMA TypeInit == Init => TypeOK
BY Constants DEF Init, TelegramInit, IngressInit, TypeOK, TelegramTypeOK, Procs, Labels

LEMMA TypeStep == TypeOK /\ [Next]_allVars => TypeOK'
<1>. SUFFICES ASSUME TypeOK, [Next]_allVars PROVE TypeOK'
  OBVIOUS
<1>. USE Constants
<1>1. ASSUME NEW p \in Procs, createTask(p) PROVE TypeOK'
  BY <1>1, CreateType DEF createTask, TypeOK, TelegramTypeOK, telegramVars, pollVars
<1>2. ASSUME NEW p \in Procs, markReceived(p) PROVE TypeOK'
  <2>1. at' \in [Procs -> Labels] /\ doing' \in [Procs -> Works]
    BY <1>2, GotoType DEF markReceived, TypeOK, Labels
  <2>. QED
    BY <1>2, <2>1, StatusType DEF markReceived, TypeOK, TelegramTypeOK, telegramVars, pollVars
<1>3. ASSUME NEW p \in Procs, markDuplicate(p) PROVE TypeOK'
  <2>1. at' \in [Procs -> Labels] /\ doing' \in [Procs -> Works]
    BY <1>3, GotoType DEF markDuplicate, TypeOK, Labels
  <2>. QED
    BY <1>3, <2>1, StatusType DEF markDuplicate, TypeOK, TelegramTypeOK, telegramVars, pollVars
<1>4. ASSUME NEW p \in Procs, recordMetric(p) PROVE TypeOK'
  <2>1. at' \in [Procs -> Labels] /\ doing' \in [Procs -> Works]
    BY <1>4, GotoType DEF recordMetric, TypeOK, Labels
  <2>. QED
    BY <1>4, <2>1 DEF recordMetric, TypeOK, TelegramTypeOK, tableVars, telegramVars, pollVars
<1>5. ASSUME NEW p \in Procs, storeThrows(p) PROVE TypeOK'
  <2>1. at' \in [Procs -> Labels] /\ doing' \in [Procs -> Works]
    BY <1>5, GotoType DEF storeThrows, TypeOK, Labels
  <2>2. batch' \subseteq batch
    BY <1>5 DEF storeThrows
  <2>3. throws' \in 0..MaxThrows
    BY <1>5 DEF storeThrows, TypeOK
  <2>. QED
    BY <1>5, <2>1, <2>2, <2>3
    DEF storeThrows, TypeOK, TelegramTypeOK, tableVars, telegramVars
<1>6. ASSUME frontStarts PROVE TypeOK'
  <2>1. at' \in [Procs -> Labels] /\ doing' \in [Procs -> Works]
    BY <1>6, GotoType DEF frontStarts, TypeOK, Labels, Procs
  <2>. QED
    BY <1>6, <2>1 DEF frontStarts, TypeOK, TelegramTypeOK, tableVars, telegramVars, pollVars
<1>7. ASSUME pollerFetches PROVE TypeOK'
  <2>1. at' \in [Procs -> Labels] /\ doing' \in [Procs -> Works]
    BY <1>7, GotoType DEF pollerFetches, TypeOK, Labels, Procs
  <2>2. batch' \subseteq pending /\ pending' \subseteq pending
    BY <1>7 DEF pollerFetches, fetchUpdates, Answer, Unconfirmed
  <2>3. last' \in 0..Len(sent)
    <3>1. batch' \subseteq 1..Len(sent) /\ Len(sent) \in Nat
      <4>1. \A u \in batch' : u \in pending
        BY <2>2
      <4>2. pending \subseteq 1..Len(sent) /\ Len(sent) \in Nat
        BY DEF TypeOK, TelegramTypeOK
      <4>. QED
        BY <4>1, <4>2, Zenon
    <3>2. last' = 0 \/ last' \in batch'
      BY <1>7 DEF pollerFetches
    <3>3. CASE last' = 0
      BY <3>1, <3>3
    <3>4. CASE last' \in batch'
      <4>1. last' \in 1..Len(sent)
        BY <3>1, <3>4
      <4>. QED
        BY <3>1, <4>1
    <3>. QED
      BY <3>2, <3>3, <3>4
  <2>. QED
    BY <1>7, <2>1, <2>2, <2>3
    DEF pollerFetches, fetchUpdates, TypeOK, TelegramTypeOK, tableVars
<1>8. ASSUME pollerFetchThrows PROVE TypeOK'
  <2>1. pending' \subseteq pending
    BY <1>8 DEF pollerFetchThrows, fetchThrows, Unconfirmed
  <2>. QED
    BY <1>8, <2>1
    DEF pollerFetchThrows, fetchThrows, TypeOK, TelegramTypeOK, ingressVars, pollVars
<1>9. ASSUME pollerSkips PROVE TypeOK'
  BY <1>9 DEF pollerSkips, TypeOK, TelegramTypeOK, ingressVars, telegramVars
<1>10. ASSUME pollerTakes PROVE TypeOK'
  <2>1. PICK u \in batch : registerInboundEvent("front", sent[u])
    BY <1>10 DEF pollerTakes
  <2>2. sent[u] \in Payloads /\ "front" \in Procs
    BY DEF TypeOK, TelegramTypeOK, Procs
  <2>. QED
    BY <1>10, <2>1, <2>2, RegisterType
    DEF pollerTakes, TypeOK, TelegramTypeOK, telegramVars, pollVars
<1>11. ASSUME pollerAcks PROVE TypeOK'
  <2>1. at' \in [Procs -> Labels] /\ doing' \in [Procs -> Works]
    BY <1>11, GotoType DEF pollerAcks, TypeOK, Labels, Procs
  <2>2. tasks' \in Seq(Rows)
    BY <1>11, AckType DEF pollerAcks, Procs
  <2>. QED
    BY <1>11, <2>1, <2>2 DEF pollerAcks, TypeOK, TelegramTypeOK, telegramVars
<1>12. ASSUME pollerMovesOffset PROVE TypeOK'
  <2>1. at' \in [Procs -> Labels] /\ doing' \in [Procs -> Works]
    BY <1>12, GotoType DEF pollerMovesOffset, TypeOK, Labels, Procs
  <2>. QED
    BY <1>12, <2>1 DEF pollerMovesOffset, TypeOK, TelegramTypeOK, tableVars, telegramVars
<1>13. ASSUME NEW u \in pending, webhookReceives(u) PROVE TypeOK'
  <2>1. sent[u] \in Payloads /\ "front" \in Procs
    BY DEF TypeOK, TelegramTypeOK, Procs
  <2>. QED
    BY <1>13, <2>1, RegisterType
    DEF webhookReceives, TypeOK, TelegramTypeOK, telegramVars, pollVars
<1>14. ASSUME NEW lost \in BOOLEAN, webhookAnswers(lost) PROVE TypeOK'
  <2>1. at' \in [Procs -> Labels] /\ doing' \in [Procs -> Works]
    BY <1>14, GotoType DEF webhookAnswers, TypeOK, Labels, Procs
  <2>2. tasks' \in Seq(Rows)
    BY <1>14, AckType DEF webhookAnswers, Procs
  <2>. QED
    BY <1>14, <2>1, <2>2 DEF webhookAnswers, TypeOK, TelegramTypeOK, pollVars
<1>15. ASSUME receiveStarts PROVE TypeOK'
  <2>1. PICK payload \in HandMade \cup {sent[u] : u \in DOMAIN sent} :
          registerInboundEvent("hand", payload)
    BY <1>15 DEF receiveStarts
  <2>2. payload \in Payloads /\ "hand" \in Procs
    BY IngressAssumption DEF TypeOK, TelegramTypeOK, Procs
  <2>. QED
    BY <1>15, <2>1, <2>2, RegisterType
    DEF receiveStarts, TypeOK, TelegramTypeOK, telegramVars, pollVars
<1>16. ASSUME frontDies PROVE TypeOK'
  <2>1. at' \in [Procs -> Labels] /\ doing' \in [Procs -> Works]
    BY <1>16, GotoType DEF frontDies, TypeOK, Labels, Procs
  <2>. QED
    BY <1>16, <2>1 DEF frontDies, Dies, TypeOK, TelegramTypeOK, tableVars, telegramVars
<1>17. ASSUME handDies PROVE TypeOK'
  <2>1. at' \in [Procs -> Labels] /\ doing' \in [Procs -> Works]
    BY <1>17, GotoType DEF handDies, TypeOK, Labels, Procs
  <2>. QED
    BY <1>17, <2>1 DEF handDies, TypeOK, TelegramTypeOK, tableVars, telegramVars, pollVars
<1>18. ASSUME Send, UNCHANGED ingressVars PROVE TypeOK'
  <2>1. Len(sent) \in Nat /\ Len(sent') = Len(sent) + 1
    BY <1>18, SendType DEF TypeOK, TelegramTypeOK
  <2>2. pending' \subseteq 1..Len(sent') /\ batch' \subseteq 1..Len(sent')
    <3>1. pending' = pending \cup {Len(sent) + 1} /\ batch' = batch
      BY <1>18 DEF Send, pollVars
    <3>2. pending \subseteq 1..Len(sent) /\ batch \subseteq 1..Len(sent)
      BY DEF TypeOK, TelegramTypeOK
    <3>3. 1..Len(sent) \subseteq 1..(Len(sent) + 1)
      BY <2>1
    <3>4. 1..Len(sent') = 1..(Len(sent) + 1) /\ Len(sent) + 1 \in 1..(Len(sent) + 1)
      BY <2>1
    <3>. QED
      BY <3>1, <3>2, <3>3, <3>4, Zenon
  <2>3. offset' \in 0..(Len(sent') + 1) /\ last' \in 0..Len(sent')
    BY <1>18, <2>1 DEF Send, TypeOK, TelegramTypeOK, pollVars, ingressVars
  <2>. QED
    BY <1>18, <2>2, <2>3, SendType DEF Send, TypeOK, TelegramTypeOK, ingressVars
<1>19. CASE UNCHANGED allVars
  BY <1>19 DEF allVars, telegramVars, pollVars, ingressVars, TypeOK, TelegramTypeOK
<1>. QED
  BY <1>1, <1>2, <1>3, <1>4, <1>5, <1>6, <1>7, <1>8, <1>9, <1>10, <1>11, <1>12,
     <1>13, <1>14, <1>15, <1>16, <1>17, <1>18, <1>19
  DEF Next, IngressNext, enqueueTelegramUpdate, poller

\* The tables, the processes and the poll loop keep their types.
THEOREM TypeCorrect == Spec => []TypeOK
BY TypeInit, TypeStep, PTL DEF Spec

-----------------------------------------------------------------------------
(* One task per event. *)

\* A task's event is on record; a process about to create a task is the only
\* one at it, and the event, on record too, has none yet.
UniqueInv ==
  /\ OneTaskPerEvent
  /\ \A i \in DOMAIN tasks : tasks[i].event \in DOMAIN events
  /\ \A p \in Procs : At(p, "registered") =>
       /\ eventIdOf(p) \in DOMAIN events
       /\ \A i \in DOMAIN tasks : tasks[i].event # eventIdOf(p)
       /\ \A q \in Procs \ {p} : At(q, "registered") => eventIdOf(q) # eventIdOf(p)

\* Whoever else is registered stays so, at the event it had.
LEMMA GotoOthers ==
  ASSUME TypeOK, NEW p \in Procs, NEW label, NEW work, Goto(p, label, work),
         NEW q \in Procs \ {p}
  PROVE  /\ At(q, "registered")' <=> At(q, "registered")
         /\ eventIdOf(q)' = eventIdOf(q)
BY DEF TypeOK, Goto, At, eventIdOf

\* A step that leaves tasks and the set of events alone, and after which p is
\* not about to create a task, keeps the invariant.
LEMMA UniqueKept ==
  ASSUME TypeOK, UniqueInv, NEW p \in Procs, NEW label, NEW work,
         label # "registered", Goto(p, label, work),
         UNCHANGED tasks, DOMAIN events \subseteq DOMAIN events'
  PROVE  UniqueInv'
<1>1. ~ At(p, "registered")'
  BY DEF TypeOK, Goto, At
<1>. QED
  BY <1>1, GotoOthers DEF UniqueInv, OneTaskPerEvent

LEMMA UniqueRegister ==
  ASSUME TypeOK, UniqueInv, NEW p \in Procs, NEW payload \in Payloads,
         registerInboundEvent(p, payload), UNCHANGED tasks
  PROVE  UniqueInv'
<1>. DEFINE id == parseTelegramMessage(payload).id
<1>1. CASE /\ id \in DOMAIN events
           /\ Goto(p, "duplicate",
                   [payload |-> payload, action |-> "duplicate", task |-> 0])
           /\ UNCHANGED events
  BY <1>1, UniqueKept
<1>2. CASE /\ id \notin DOMAIN events
           /\ Put(id, IF parseTelegramMessage(payload).ok THEN "received" ELSE "invalid",
                  payload)
           /\ Goto(p, IF parseTelegramMessage(payload).ok THEN "registered"
                      ELSE "recording",
                   [payload |-> payload,
                    action  |-> IF parseTelegramMessage(payload).ok THEN "enqueued"
                                ELSE "invalid",
                    task    |-> 0])
  <2>1. DOMAIN events' = DOMAIN events \cup {id}
    BY <1>2 DEF Put
  <2>2. eventIdOf(p)' = id
    BY <1>2 DEF Goto, eventIdOf, TypeOK
  <2>3. \A i \in DOMAIN tasks : tasks[i].event # id
    BY <1>2 DEF UniqueInv
  <2>4. \A q \in Procs \ {p} : At(q, "registered") => eventIdOf(q) # id
    BY <1>2 DEF UniqueInv
  <2>5. \A q \in Procs \ {p} : /\ At(q, "registered")' <=> At(q, "registered")
                               /\ eventIdOf(q)' = eventIdOf(q)
    BY <1>2, GotoOthers
  <2>6. OneTaskPerEvent' /\ \A i \in DOMAIN tasks' : tasks'[i].event \in DOMAIN events'
    BY <2>1 DEF UniqueInv, OneTaskPerEvent
  <2>7. ASSUME NEW q \in Procs, At(q, "registered")'
        PROVE  /\ eventIdOf(q)' \in DOMAIN events'
               /\ \A i \in DOMAIN tasks' : tasks'[i].event # eventIdOf(q)'
               /\ \A r \in Procs \ {q} :
                    At(r, "registered")' => eventIdOf(r)' # eventIdOf(q)'
    <3>1. CASE q = p
      BY <3>1, <2>1, <2>2, <2>3, <2>4, <2>5
    <3>2. CASE q # p
      BY <3>2, <2>7, <2>1, <2>2, <2>4, <2>5 DEF UniqueInv
    <3>. QED
      BY <3>1, <3>2
  <2>. QED
    BY <2>6, <2>7 DEF UniqueInv
<1>. QED
  BY <1>1, <1>2 DEF registerInboundEvent

LEMMA UniqueCreate ==
  ASSUME TypeOK, UniqueInv, NEW p \in Procs, createTask(p)
  PROVE  UniqueInv'
<1>. DEFINE id == eventIdOf(p)
            n == Len(tasks) + 1
<1>1. /\ DOMAIN tasks = 1..Len(tasks) /\ Len(tasks) \in Nat
      /\ DOMAIN tasks' = 1..n
      /\ \A i \in 1..Len(tasks) : tasks'[i] = tasks[i]
      /\ tasks'[n].event = id
  BY DEF createTask, TypeOK
<1>2. UNCHANGED events /\ At(p, "registered")
  BY DEF createTask
<1>3. ~ At(p, "registered")'
  BY DEF createTask, Goto, At, TypeOK
<1>4. \A q \in Procs \ {p} : /\ At(q, "registered")' <=> At(q, "registered")
                             /\ eventIdOf(q)' = eventIdOf(q)
  BY GotoOthers DEF createTask
<1>5. OneTaskPerEvent'
  BY <1>1, <1>2 DEF UniqueInv, OneTaskPerEvent
<1>6. \A i \in DOMAIN tasks' : tasks'[i].event \in DOMAIN events'
  BY <1>1, <1>2 DEF UniqueInv
<1>7. ASSUME NEW q \in Procs, At(q, "registered")'
      PROVE  /\ eventIdOf(q)' \in DOMAIN events'
             /\ \A i \in DOMAIN tasks' : tasks'[i].event # eventIdOf(q)'
             /\ \A r \in Procs \ {q} :
                  At(r, "registered")' => eventIdOf(r)' # eventIdOf(q)'
  <2>1. q # p /\ At(q, "registered") /\ eventIdOf(q)' = eventIdOf(q)
    BY <1>3, <1>4, <1>7
  <2>2. eventIdOf(q) # id
    BY <1>2, <2>1 DEF UniqueInv
  <2>3. \A i \in DOMAIN tasks' : tasks'[i].event # eventIdOf(q)
    BY <1>1, <2>1, <2>2 DEF UniqueInv
  <2>4. \A r \in Procs \ {q} : At(r, "registered")' => eventIdOf(r)' # eventIdOf(q)
    BY <1>3, <1>4, <2>1 DEF UniqueInv
  <2>. QED
    BY <1>2, <2>1, <2>3, <2>4 DEF UniqueInv
<1>. QED
  BY <1>5, <1>6, <1>7 DEF UniqueInv

LEMMA UniqueAck ==
  ASSUME TypeOK, UniqueInv, NEW p \in Procs, notifyQueued(p),
         NEW label, NEW work, label # "registered", Goto(p, label, work),
         UNCHANGED events
  PROVE  UniqueInv'
<1>1. /\ DOMAIN tasks' = DOMAIN tasks
      /\ \A i \in DOMAIN tasks : tasks'[i].event = tasks[i].event
  <2>. DEFINE n == doing[p].task
  <2>1. CASE UNCHANGED tasks
    BY <2>1
  <2>2. CASE tasks' = [tasks EXCEPT ![n].acks = @ + 1]
    <3>1. DOMAIN tasks' = DOMAIN tasks
      BY <2>2
    <3>2. ASSUME NEW i \in DOMAIN tasks PROVE tasks'[i].event = tasks[i].event
      <4>1. tasks[i] \in Rows
        BY DEF TypeOK
      <4>2. tasks'[i] = IF i = n THEN [tasks[i] EXCEPT !.acks = @ + 1] ELSE tasks[i]
        BY <2>2
      <4>. QED
        BY <4>1, <4>2 DEF Rows
    <3>. QED
      BY <3>1, <3>2
  <2>. QED
    BY <2>1, <2>2 DEF notifyQueued
<1>2. ~ At(p, "registered")'
  BY DEF TypeOK, Goto, At
<1>. QED
  BY <1>1, <1>2, GotoOthers DEF UniqueInv, OneTaskPerEvent

LEMMA UniqueStep ==
  ASSUME TypeOK, UniqueInv, [Next]_allVars
  PROVE  UniqueInv'
<1>1. ASSUME NEW p \in Procs, createTask(p) PROVE UniqueInv'
  BY <1>1, UniqueCreate
<1>2. ASSUME NEW p \in Procs, markReceived(p) \/ markDuplicate(p) PROVE UniqueInv'
  BY <1>2, UniqueKept DEF markReceived, markDuplicate, updateInboundEventStatus
<1>3. ASSUME NEW p \in Procs, recordMetric(p) PROVE UniqueInv'
  BY <1>3, UniqueKept DEF recordMetric, tableVars
<1>4. ASSUME NEW p \in Procs, storeThrows(p) PROVE UniqueInv'
  BY <1>4, UniqueKept DEF storeThrows, tableVars
<1>5. ASSUME \/ frontStarts \/ pollerFetches \/ pollerMovesOffset \/ frontDies
      PROVE  UniqueInv'
  BY <1>5, UniqueKept
  DEF frontStarts, pollerFetches, pollerMovesOffset, frontDies, tableVars, Procs
<1>6. ASSUME handDies PROVE UniqueInv'
  BY <1>6, UniqueKept DEF handDies, tableVars, Procs
<1>7. ASSUME pollerFetchThrows \/ pollerSkips \/ (Send /\ UNCHANGED ingressVars)
             \/ UNCHANGED allVars
      PROVE  UniqueInv'
  <2>1. UNCHANGED <<events, tasks, at, doing>>
    BY <1>7 DEF pollerFetchThrows, pollerSkips, ingressVars, allVars
  <2>. QED
    BY <2>1 DEF UniqueInv, OneTaskPerEvent, At, eventIdOf
<1>8. ASSUME pollerTakes PROVE UniqueInv'
  <2>1. PICK u \in batch : registerInboundEvent("front", sent[u])
    BY <1>8 DEF pollerTakes
  <2>2. sent[u] \in Payloads /\ "front" \in Procs
    BY DEF TypeOK, TelegramTypeOK, Procs
  <2>. QED
    BY <1>8, <2>1, <2>2, UniqueRegister DEF pollerTakes
<1>9. ASSUME NEW u \in pending, webhookReceives(u) PROVE UniqueInv'
  <2>1. sent[u] \in Payloads /\ "front" \in Procs
    BY DEF TypeOK, TelegramTypeOK, Procs
  <2>. QED
    BY <1>9, <2>1, UniqueRegister DEF webhookReceives
<1>10. ASSUME receiveStarts PROVE UniqueInv'
  <2>1. PICK payload \in HandMade \cup {sent[u] : u \in DOMAIN sent} :
          registerInboundEvent("hand", payload)
    BY <1>10 DEF receiveStarts
  <2>2. payload \in Payloads /\ "hand" \in Procs
    BY IngressAssumption DEF TypeOK, TelegramTypeOK, Procs
  <2>. QED
    BY <1>10, <2>1, <2>2, UniqueRegister DEF receiveStarts
<1>11. ASSUME pollerAcks PROVE UniqueInv'
  BY <1>11, UniqueAck DEF pollerAcks, Procs
<1>12. ASSUME NEW lost \in BOOLEAN, webhookAnswers(lost) PROVE UniqueInv'
  BY <1>12, UniqueAck DEF webhookAnswers, Procs
<1>. QED
  BY <1>1, <1>2, <1>3, <1>4, <1>5, <1>6, <1>7, <1>8, <1>9, <1>10, <1>11, <1>12
  DEF Next, IngressNext, enqueueTelegramUpdate, poller

LEMMA UniqueInit == Init => UniqueInv
BY DEF Init, IngressInit, UniqueInv, OneTaskPerEvent, At, Procs

\* No event makes two tasks, whichever processes enqueue it how often.
THEOREM NoEventMakesTwoTasks == Spec => []OneTaskPerEvent
<1>1. Init => TypeOK /\ UniqueInv
  BY TypeInit, UniqueInit
<1>2. TypeOK /\ UniqueInv /\ [Next]_allVars => (TypeOK /\ UniqueInv)'
  BY TypeStep, UniqueStep
<1>3. UniqueInv => OneTaskPerEvent
  BY DEF UniqueInv
<1>. QED
  BY <1>1, <1>2, <1>3, PTL DEF Spec

-----------------------------------------------------------------------------
(* What Telegram was told is received is on record. *)

Settled(u) ==
  \/ <<"update", u>> \in DOMAIN events
  \/ front = "poller" /\ ~ allowedByUserId(sent[u])

\* An update in Telegram's queue or dealt with; all those before the poller's
\* offset, and, of those its answer held, all that left the batch, are dealt
\* with; the update in hand is on record.
ConfirmedInv ==
  /\ front \in {"webhook", "poller"} =>
       \A u \in 1..Len(sent) : u \in pending \/ Settled(u)
  /\ front = "poller" =>
       \A u \in 1..Len(sent) : u < offset => Settled(u)
  /\ front = "poller" /\ at["front"] \in Inside \cup {"next", "ack"} =>
       \A u \in 1..Len(sent) : u <= last => u \in batch \/ Settled(u)
  /\ at["front"] \in Inside \cup {"ack"} =>
       <<"update", doing["front"].payload.update>> \in DOMAIN events

\* The answer to getUpdates leaves no gap.
LEMMA AnswerHasNoGap ==
  ASSUME TypeOK, NEW n \in Answer(offset), NEW u \in Unconfirmed(offset), u <= n
  PROVE  u \in Answer(offset)
<1>. DEFINE S(k) == {v \in Unconfirmed(offset) : v <= k}
<1>1. Unconfirmed(offset) \subseteq 1..Len(sent) /\ Len(sent) \in Nat
  <2>1. pending \subseteq 1..Len(sent) /\ Len(sent) \in Nat
    BY DEF TypeOK, TelegramTypeOK
  <2>2. \A v \in Unconfirmed(offset) : v \in pending
    BY DEF Unconfirmed
  <2>. QED
    BY <2>1, <2>2, Zenon
<1>2. n \in Unconfirmed(offset) /\ Cardinality(S(n)) <= PollLimit
  BY DEF Answer
<1>3. n \in Nat /\ u \in Nat /\ \A v \in Unconfirmed(offset) : v \in Nat
  BY <1>1, <1>2
<1>4. S(u) \subseteq S(n)
  <2>1. ASSUME NEW v \in Unconfirmed(offset), v <= u PROVE v <= n
    BY <1>3, <2>1
  <2>. QED
    BY <2>1
<1>5. IsFiniteSet(1..Len(sent))
  BY <1>1, FS_Interval
<1>6. S(n) \subseteq 1..Len(sent)
  BY <1>1
<1>7. IsFiniteSet(S(n))
  BY <1>5, <1>6, FS_Subset
<1>8. /\ Cardinality(S(u)) <= Cardinality(S(n))
      /\ IsFiniteSet(S(u))
  BY <1>4, <1>7, FS_Subset
<1>9. Cardinality(S(u)) \in Nat /\ Cardinality(S(n)) \in Nat
  BY <1>7, <1>8, FS_CardinalityType
<1>10. PollLimit \in Nat
  BY X1Assumption
<1>11. Cardinality(S(u)) <= PollLimit
  BY <1>2, <1>8, <1>9, <1>10
<1>. QED
  BY <1>11 DEF Answer

\* Nothing is taken off the record, and no update already sent changes.
LEMMA SettledKept ==
  ASSUME NEW u, Settled(u), DOMAIN events \subseteq DOMAIN events',
         UNCHANGED front, sent'[u] = sent[u]
  PROVE  Settled(u)'
BY DEF Settled, allowedByUserId

LEMMA RecordKept ==
  ASSUME TypeOK, NEW p \in Procs,
         \/ UNCHANGED events
         \/ \E status : updateInboundEventStatus(p, status)
         \/ \E payload : registerInboundEvent(p, payload)
  PROVE  DOMAIN events \subseteq DOMAIN events'
BY DEF updateInboundEventStatus, registerInboundEvent, Put

\* A step of one process at an update: the other variables of the poll loop
\* stay, and so does the other process.
LEMMA ConfirmedAlong ==
  ASSUME TypeOK, ConfirmedInv, NEW label \in Inside \cup {"ack"}, NEW work,
         work.payload = doing["front"].payload,
         at["front"] \in Inside, Goto("front", label, work),
         DOMAIN events \subseteq DOMAIN events',
         UNCHANGED <<last, front, telegramVars, pollVars>>
  PROVE  ConfirmedInv'
<1>1. at'["front"] = label /\ doing'["front"] = work
  BY DEF Goto, TypeOK, Procs
<1>2. \A u : Settled(u) => Settled(u)'
  BY SettledKept DEF telegramVars
<1>. QED
  BY <1>1, <1>2 DEF ConfirmedInv, telegramVars, pollVars

\* A step after which the front is between two requests.
LEMMA ConfirmedLeft ==
  ASSUME TypeOK, ConfirmedInv, UNCHANGED <<front, telegramVars>>,
         DOMAIN events \subseteq DOMAIN events',
         at'["front"] \in {"idle", "down"}, offset' \in {0, offset}
  PROVE  ConfirmedInv'
<1>1. \A u : Settled(u) => Settled(u)'
  BY SettledKept DEF telegramVars
<1>2. \A u \in 1..Len(sent) : ~ (u < 0)
  BY DEF TypeOK, TelegramTypeOK
<1>. QED
  BY <1>1, <1>2 DEF ConfirmedInv, telegramVars, Inside

\* A step of x1-receive.
LEMMA ConfirmedBeside ==
  ASSUME TypeOK, ConfirmedInv, NEW label, NEW work, Goto("hand", label, work),
         DOMAIN events \subseteq DOMAIN events',
         UNCHANGED <<last, front, telegramVars, pollVars>>
  PROVE  ConfirmedInv'
<1>1. at'["front"] = at["front"] /\ doing'["front"] = doing["front"]
  BY DEF Goto, TypeOK, Procs
<1>2. \A u : Settled(u) => Settled(u)'
  BY SettledKept DEF telegramVars
<1>. QED
  BY <1>1, <1>2 DEF ConfirmedInv, telegramVars, pollVars

\* The front takes an update up: its event is on record, now or already.
LEMMA ConfirmedTaken ==
  ASSUME TypeOK, ConfirmedInv, NEW u \in 1..Len(sent),
         registerInboundEvent("front", sent[u]),
         front = "poller" => At("front", "next"),
         UNCHANGED <<last, front, telegramVars, pollVars>>
  PROVE  ConfirmedInv'
<1>1. sent[u].update = u /\ u # 0
  BY DEF TypeOK, TelegramTypeOK
<1>2. parseTelegramMessage(sent[u]).id = <<"update", u>>
  BY <1>1, IdOfUpdate
<1>3. <<"update", u>> \in DOMAIN events' /\ DOMAIN events \subseteq DOMAIN events'
  BY <1>2 DEF registerInboundEvent, Put
<1>4. doing'["front"].payload = sent[u]
  BY DEF registerInboundEvent, Goto, TypeOK, Procs
<1>5. \A v : Settled(v) => Settled(v)'
  BY <1>3, SettledKept DEF telegramVars
<1>. QED
  BY <1>1, <1>3, <1>4, <1>5 DEF ConfirmedInv, At, telegramVars, pollVars

\* The answer arrives: what it holds may leave it once on record, what it
\* leaves out is either told received or after its last.
LEMMA ConfirmedFetch ==
  ASSUME TypeOK, ConfirmedInv, pollerFetches
  PROVE  ConfirmedInv'
<1>1. /\ front = "poller" /\ at'["front"] = "next"
      /\ UNCHANGED <<events, front, sent, offset>>
      /\ batch' = Answer(offset) /\ pending' = Unconfirmed(offset)
      /\ last' = 0 \/ last' \in Answer(offset)
  BY DEF pollerFetches, fetchUpdates, Goto, TypeOK, Procs, tableVars
<1>2. \A u : Settled(u) <=> Settled(u)'
  BY <1>1 DEF Settled, allowedByUserId
<1>3. ASSUME NEW u \in 1..Len(sent) PROVE u \in Unconfirmed(offset) \/ Settled(u)
  <2>1. Len(sent) \in Nat /\ offset \in Nat /\ u \in Nat
    BY DEF TypeOK, TelegramTypeOK
  <2>2. CASE u < offset
    BY <1>1, <2>2 DEF ConfirmedInv
  <2>3. CASE u >= offset
    BY <1>1, <2>3 DEF ConfirmedInv, Unconfirmed
  <2>. QED
    BY <2>1, <2>2, <2>3
<1>4. ASSUME NEW u \in 1..Len(sent), u <= last' PROVE u \in batch' \/ Settled(u)
  <2>1. last' \in Answer(offset)
    <3>1. u # 0 /\ u \in Nat
      OBVIOUS
    <3>. QED
      BY <1>1, <1>4, <3>1
  <2>2. CASE u \in Unconfirmed(offset)
    BY <1>1, <1>4, <2>1, <2>2, AnswerHasNoGap
  <2>. QED
    BY <1>3, <2>2
<1>. QED
  BY <1>1, <1>2, <1>3, <1>4 DEF ConfirmedInv, Inside

\* The update taken up last leaves the batch.
LEMMA ConfirmedNext ==
  ASSUME TypeOK, ConfirmedInv, pollerAcks
  PROVE  ConfirmedInv'
<1>. DEFINE v == doing["front"].payload.update
<1>1. /\ front = "poller" /\ at["front"] = "ack" /\ at'["front"] = "next"
      /\ UNCHANGED <<events, front, sent, pending, offset, last>>
      /\ batch' = batch \ {v}
  BY DEF pollerAcks, Goto, At, TypeOK, Procs, telegramVars
<1>2. \A u : Settled(u) <=> Settled(u)'
  BY <1>1 DEF Settled, allowedByUserId
<1>3. Settled(v)
  BY <1>1 DEF ConfirmedInv, Settled
<1>. QED
  BY <1>1, <1>2, <1>3 DEF ConfirmedInv, Inside

LEMMA ConfirmedSkip ==
  ASSUME TypeOK, ConfirmedInv, pollerSkips
  PROVE  ConfirmedInv'
<1>1. /\ front = "poller" /\ at["front"] = "next"
      /\ UNCHANGED <<events, front, sent, pending, offset, last, at, doing>>
  BY DEF pollerSkips, At, telegramVars, ingressVars
<1>2. PICK v \in batch : ~ allowedByUserId(sent[v]) /\ batch' = batch \ {v}
  BY DEF pollerSkips
<1>3. \A u : Settled(u) <=> Settled(u)'
  BY <1>1 DEF Settled, allowedByUserId
<1>4. Settled(v)
  BY <1>1, <1>2 DEF Settled
<1>. QED
  BY <1>1, <1>2, <1>3, <1>4 DEF ConfirmedInv, Inside

\* The batch is done: the offset moves past updates that are dealt with.
LEMMA ConfirmedMove ==
  ASSUME TypeOK, ConfirmedInv, pollerMovesOffset
  PROVE  ConfirmedInv'
<1>1. /\ front = "poller" /\ at["front"] = "next" /\ at'["front"] = "idle"
      /\ UNCHANGED <<events, front, sent, pending, last>>
      /\ batch = {} /\ offset' = IF last = 0 THEN offset ELSE last + 1
  BY DEF pollerMovesOffset, Goto, At, TypeOK, Procs, telegramVars, tableVars
<1>2. \A u : Settled(u) <=> Settled(u)'
  BY <1>1 DEF Settled, allowedByUserId
<1>3. ASSUME NEW u \in 1..Len(sent), u < offset' PROVE Settled(u)
  <2>1. u \in Nat /\ last \in Nat /\ offset \in Nat
    BY DEF TypeOK, TelegramTypeOK
  <2>2. CASE u < offset
    BY <1>1, <2>2 DEF ConfirmedInv
  <2>3. CASE u <= last
    BY <1>1, <2>3 DEF ConfirmedInv
  <2>. QED
    BY <1>1, <1>3, <2>1, <2>2, <2>3
<1>. QED
  BY <1>1, <1>2, <1>3 DEF ConfirmedInv, Inside

\* Telegram forgets the update in the webhook's hand, which is on record.
LEMMA ConfirmedAnswer ==
  ASSUME TypeOK, ConfirmedInv, NEW lost \in BOOLEAN, webhookAnswers(lost)
  PROVE  ConfirmedInv'
<1>. DEFINE v == doing["front"].payload.update
<1>1. /\ front = "webhook" /\ at["front"] = "ack" /\ at'["front"] = "idle"
      /\ UNCHANGED <<events, front, sent, last>>
      /\ pending' = IF lost THEN pending ELSE pending \ {v}
  BY DEF webhookAnswers, Goto, At, TypeOK, Procs, pollVars
<1>2. \A u : Settled(u) <=> Settled(u)'
  BY <1>1 DEF Settled, allowedByUserId
<1>3. Settled(v)
  BY <1>1 DEF ConfirmedInv, Settled
<1>. QED
  BY <1>1, <1>2, <1>3 DEF ConfirmedInv, Inside

LEMMA ConfirmedSend ==
  ASSUME TypeOK, ConfirmedInv, Send, UNCHANGED ingressVars
  PROVE  ConfirmedInv'
<1>. DEFINE n == Len(sent) + 1
<1>1. /\ UNCHANGED <<front, offset, batch, events, last, at, doing>>
      /\ pending' = pending \cup {n}
  BY DEF Send, pollVars, ingressVars
<1>2. /\ 1..Len(sent') = 1..Len(sent) \cup {n} /\ n \notin 1..Len(sent)
      /\ \A u \in 1..Len(sent) : sent'[u] = sent[u]
      /\ ~ (n <= last) /\ ~ (n < offset)
  BY DEF Send, TypeOK, TelegramTypeOK
<1>3. \A u \in 1..Len(sent) : Settled(u) => Settled(u)'
  BY <1>1, <1>2, SettledKept
<1>. QED
  BY <1>1, <1>2, <1>3 DEF ConfirmedInv

LEMMA ConfirmedStep ==
  ASSUME TypeOK, ConfirmedInv, [Next]_allVars
  PROVE  ConfirmedInv'
<1>. USE DEF Procs
<1>1. ASSUME enqueueTelegramUpdate("front") PROVE ConfirmedInv'
  <2>1. \E label \in Inside \cup {"ack"} : \E work :
          work.payload = doing["front"].payload /\ Goto("front", label, work)
    BY <1>1 DEF enqueueTelegramUpdate, createTask, markReceived, markDuplicate,
                recordMetric, Inside, TypeOK, Works
  <2>2. at["front"] \in Inside
    BY <1>1 DEF enqueueTelegramUpdate, createTask, markReceived, markDuplicate,
                recordMetric, Inside, At
  <2>3. DOMAIN events \subseteq DOMAIN events'
    BY <1>1, RecordKept
    DEF enqueueTelegramUpdate, createTask, markReceived, markDuplicate,
        recordMetric, tableVars
  <2>. QED
    BY <1>1, <2>1, <2>2, <2>3, ConfirmedAlong
    DEF enqueueTelegramUpdate, createTask, markReceived, markDuplicate, recordMetric
<1>2. ASSUME enqueueTelegramUpdate("hand") PROVE ConfirmedInv'
  <2>1. \E label, work : Goto("hand", label, work)
    BY <1>2 DEF enqueueTelegramUpdate, createTask, markReceived, markDuplicate,
                recordMetric
  <2>2. DOMAIN events \subseteq DOMAIN events'
    BY <1>2, RecordKept
    DEF enqueueTelegramUpdate, createTask, markReceived, markDuplicate,
        recordMetric, tableVars
  <2>. QED
    BY <1>2, <2>1, <2>2, ConfirmedBeside
    DEF enqueueTelegramUpdate, createTask, markReceived, markDuplicate, recordMetric
<1>3. ASSUME storeThrows("front") \/ frontStarts \/ frontDies PROVE ConfirmedInv'
  BY <1>3, ConfirmedLeft
  DEF storeThrows, frontStarts, frontDies, Dies, Goto, tableVars, pollVars, TypeOK
<1>4. ASSUME storeThrows("hand") \/ handDies PROVE ConfirmedInv'
  BY <1>4, ConfirmedBeside
  DEF storeThrows, handDies, tableVars, pollVars
<1>5. ASSUME pollerFetchThrows PROVE ConfirmedInv'
  <2>1. /\ front = "poller" /\ UNCHANGED <<ingressVars, front, sent, pollVars>>
        /\ pending' \in {pending, Unconfirmed(offset)}
    BY <1>5 DEF pollerFetchThrows, fetchThrows
  <2>2. \A u : Settled(u) <=> Settled(u)'
    BY <2>1 DEF Settled, allowedByUserId, ingressVars
  <2>3. ASSUME NEW u \in 1..Len(sent) PROVE u \in Unconfirmed(offset) \/ Settled(u)
    <3>1. Len(sent) \in Nat /\ offset \in Nat /\ u \in Nat
      BY DEF TypeOK, TelegramTypeOK
    <3>2. CASE u < offset
      BY <2>1, <3>2 DEF ConfirmedInv
    <3>3. CASE u >= offset
      BY <2>1, <3>3 DEF ConfirmedInv, Unconfirmed
    <3>. QED
      BY <3>1, <3>2, <3>3
  <2>. QED
    BY <2>1, <2>2, <2>3 DEF ConfirmedInv, ingressVars, pollVars
<1>6. ASSUME pollerTakes PROVE ConfirmedInv'
  <2>1. PICK u \in batch : registerInboundEvent("front", sent[u])
    BY <1>6 DEF pollerTakes
  <2>2. u \in 1..Len(sent)
    BY DEF TypeOK, TelegramTypeOK
  <2>. QED
    BY <1>6, <2>1, <2>2, ConfirmedTaken DEF pollerTakes
<1>7. ASSUME NEW u \in pending, webhookReceives(u) PROVE ConfirmedInv'
  <2>1. u \in 1..Len(sent)
    BY DEF TypeOK, TelegramTypeOK
  <2>. QED
    BY <1>7, <2>1, ConfirmedTaken DEF webhookReceives
<1>8. ASSUME receiveStarts PROVE ConfirmedInv'
  <2>1. PICK payload : registerInboundEvent("hand", payload)
    BY <1>8 DEF receiveStarts
  <2>2. \E label, work : Goto("hand", label, work)
    BY <2>1 DEF registerInboundEvent
  <2>3. DOMAIN events \subseteq DOMAIN events'
    BY <2>1, RecordKept
  <2>. QED
    BY <1>8, <2>2, <2>3, ConfirmedBeside DEF receiveStarts
<1>9. ASSUME UNCHANGED allVars PROVE ConfirmedInv'
  BY <1>9 DEF allVars, telegramVars, pollVars, ingressVars, ConfirmedInv, Settled,
              allowedByUserId
<1>. QED
  BY <1>1, <1>2, <1>3, <1>4, <1>5, <1>6, <1>7, <1>8, <1>9, ConfirmedFetch,
     ConfirmedSkip, ConfirmedNext, ConfirmedMove, ConfirmedAnswer, ConfirmedSend
  DEF Next, IngressNext, poller

LEMMA ConfirmedStart == Init => ConfirmedInv
BY DEF Init, TelegramInit, IngressInit, ConfirmedInv, Procs, Inside

\* What Telegram was told is received is on record, whatever dies or throws.
THEOREM NothingConfirmedUnseen == Spec => []ConfirmedIsRecorded
<1>1. Init => TypeOK /\ ConfirmedInv
  BY TypeInit, ConfirmedStart
<1>2. TypeOK /\ ConfirmedInv /\ [Next]_allVars => (TypeOK /\ ConfirmedInv)'
  BY TypeStep, ConfirmedStep
<1>3. TypeOK /\ ConfirmedInv => ConfirmedIsRecorded
  <2>1. TypeOK => DOMAIN sent = 1..Len(sent)
    BY DEF TypeOK, TelegramTypeOK
  <2>. QED
    BY <2>1 DEF ConfirmedInv, ConfirmedIsRecorded, Settled
<1>. QED
  BY <1>1, <1>2, <1>3, PTL DEF Spec

-----------------------------------------------------------------------------
(* At most one notice per task. *)

WaitingForAck == {"created", "duplicate", "recording", "ack"}

\* The task the front is about to announce has not been announced.
AckInv ==
  /\ AckedOnce
  /\ at["front"] \in WaitingForAck /\ doing["front"].action = "enqueued" =>
       \A i \in DOMAIN tasks : i = doing["front"].task => tasks[i].acks = 0

\* A step after which the front announces what it did before, or nothing.
LEMMA AckKept ==
  ASSUME AckInv, UNCHANGED tasks,
         \/ at'["front"] \notin WaitingForAck
         \/ doing'["front"].action # "enqueued"
         \/ at["front"] \in WaitingForAck /\ doing'["front"] = doing["front"]
  PROVE  AckInv'
BY DEF AckInv, AckedOnce

LEMMA FrontGoes ==
  ASSUME TypeOK, NEW p \in Procs, NEW label, NEW work, Goto(p, label, work)
  PROVE  /\ p = "front" => at'["front"] = label /\ doing'["front"] = work
         /\ p = "hand" => at'["front"] = at["front"] /\ doing'["front"] = doing["front"]
BY DEF TypeOK, Goto, Procs

\* A step of x1-receive that creates no task.
LEMMA AckBeside ==
  ASSUME TypeOK, AckInv, NEW label, NEW work, Goto("hand", label, work),
         UNCHANGED tasks
  PROVE  AckInv'
<1>1. at'["front"] = at["front"] /\ doing'["front"] = doing["front"]
  BY FrontGoes DEF Procs
<1>. QED
  BY <1>1, AckKept

LEMMA AckCreate ==
  ASSUME TypeOK, AckInv, NEW p \in Procs, createTask(p)
  PROVE  AckInv'
<1>1. /\ DOMAIN tasks = 1..Len(tasks) /\ Len(tasks) \in Nat
      /\ DOMAIN tasks' = 1..(Len(tasks) + 1)
      /\ \A i \in 1..Len(tasks) : tasks'[i] = tasks[i]
      /\ tasks'[Len(tasks) + 1].acks = 0
  BY DEF createTask, TypeOK
<1>2. AckedOnce'
  BY <1>1 DEF AckInv, AckedOnce
<1>3. CASE p = "front"
  <2>. DEFINE work == [doing[p] EXCEPT !.task = Len(tasks) + 1]
  <2>1. doing'["front"] = work
    BY <1>3, FrontGoes DEF createTask
  <2>2. work.task = Len(tasks) + 1
    BY DEF TypeOK, Works
  <2>. HIDE DEF work
  <2>. QED
    BY <1>1, <1>2, <2>1, <2>2 DEF AckInv
<1>4. CASE p = "hand"
  <2>1. at'["front"] = at["front"] /\ doing'["front"] = doing["front"]
    BY <1>4, FrontGoes DEF createTask
  <2>. QED
    BY <1>1, <1>2, <2>1 DEF AckInv
<1>. QED
  BY <1>3, <1>4 DEF Procs

LEMMA AckRegister ==
  ASSUME TypeOK, AckInv, NEW p \in Procs, NEW payload,
         registerInboundEvent(p, payload), UNCHANGED tasks
  PROVE  AckInv'
<1>1. CASE p = "hand"
  BY <1>1, AckBeside DEF registerInboundEvent
<1>2. CASE p = "front"
  <2>1. \/ at'["front"] \notin WaitingForAck
        \/ doing'["front"].action # "enqueued"
    BY <1>2, FrontGoes DEF registerInboundEvent, WaitingForAck
  <2>. QED
    BY <2>1, AckKept
<1>. QED
  BY <1>1, <1>2 DEF Procs

\* The notice itself: the front has no task in hand afterwards.
LEMMA AckGiven ==
  ASSUME TypeOK, AckInv, notifyQueued("front"), At("front", "ack"),
         NEW label, label \notin WaitingForAck, NEW work, Goto("front", label, work)
  PROVE  AckInv'
<1>. DEFINE i == doing["front"].task
<1>1. at'["front"] \notin WaitingForAck
  BY FrontGoes DEF Procs
<1>2. CASE UNCHANGED tasks
  BY <1>1, <1>2, AckKept
<1>3. CASE /\ doing["front"].action = "enqueued"
           /\ tasks' = [tasks EXCEPT ![i].acks = @ + 1]
  <2>1. DOMAIN tasks' = DOMAIN tasks
    BY <1>3
  <2>2. ASSUME NEW j \in DOMAIN tasks PROVE tasks'[j].acks <= 1
    <3>1. tasks[j] \in Rows
      BY DEF TypeOK
    <3>2. CASE j # i
      BY <1>3, <3>2 DEF AckInv, AckedOnce
    <3>3. CASE j = i
      <4>1. tasks[j].acks = 0
        BY <1>3, <3>3 DEF AckInv, At, WaitingForAck
      <4>2. tasks'[j] = [tasks[j] EXCEPT !.acks = @ + 1]
        BY <1>3, <3>3
      <4>. QED
        BY <3>1, <4>1, <4>2 DEF Rows
    <3>. QED
      BY <3>2, <3>3
  <2>. QED
    BY <1>1, <2>1, <2>2 DEF AckInv, AckedOnce
<1>. QED
  BY <1>2, <1>3 DEF notifyQueued

LEMMA AckStep ==
  ASSUME TypeOK, AckInv, [Next]_allVars
  PROVE  AckInv'
<1>. USE DEF Procs
<1>1. ASSUME NEW p \in Procs, createTask(p) PROVE AckInv'
  BY <1>1, AckCreate
<1>2. ASSUME markReceived("front") \/ markDuplicate("front") \/ recordMetric("front")
      PROVE  AckInv'
  <2>1. at["front"] \in WaitingForAck /\ doing'["front"] = doing["front"]
    BY <1>2, FrontGoes DEF markReceived, markDuplicate, recordMetric, At, WaitingForAck
  <2>. QED
    BY <1>2, <2>1, AckKept DEF markReceived, markDuplicate, recordMetric, tableVars
<1>3. ASSUME \/ markReceived("hand") \/ markDuplicate("hand") \/ recordMetric("hand")
             \/ storeThrows("hand") \/ handDies
      PROVE  AckInv'
  BY <1>3, AckBeside
  DEF markReceived, markDuplicate, recordMetric, storeThrows, handDies, tableVars
<1>4. ASSUME \/ storeThrows("front") \/ frontStarts \/ pollerFetches
             \/ pollerMovesOffset \/ frontDies
      PROVE  AckInv'
  <2>1. at'["front"] \in {"idle", "next", "down"}
    BY <1>4, FrontGoes
    DEF storeThrows, frontStarts, pollerFetches, pollerMovesOffset, frontDies
  <2>. QED
    BY <1>4, <2>1, AckKept
    DEF storeThrows, frontStarts, pollerFetches, pollerMovesOffset, frontDies,
        tableVars, WaitingForAck
<1>5. ASSUME \/ pollerFetchThrows \/ pollerSkips \/ (Send /\ UNCHANGED ingressVars)
             \/ UNCHANGED allVars
      PROVE  AckInv'
  <2>1. UNCHANGED <<tasks, at, doing>>
    BY <1>5 DEF pollerFetchThrows, pollerSkips, ingressVars, allVars
  <2>. QED
    BY <2>1 DEF AckInv, AckedOnce
<1>6. ASSUME \/ pollerTakes \/ receiveStarts \/ \E u \in pending : webhookReceives(u)
      PROVE  AckInv'
  BY <1>6, AckRegister DEF pollerTakes, receiveStarts, webhookReceives
<1>7. ASSUME pollerAcks \/ \E lost \in BOOLEAN : webhookAnswers(lost)
      PROVE  AckInv'
  BY <1>7, AckGiven DEF pollerAcks, webhookAnswers, WaitingForAck
<1>. QED
  BY <1>1, <1>2, <1>3, <1>4, <1>5, <1>6, <1>7
  DEF Next, IngressNext, enqueueTelegramUpdate, poller

LEMMA AckStart == Init => AckInv
BY DEF Init, IngressInit, AckInv, AckedOnce, WaitingForAck, Procs

\* The user is told at most once that a task is queued, however often its
\* update comes again and whatever dies before the notice is out.
THEOREM NoticesAreGivenOnce == Spec => []AckedOnce
<1>1. Init => TypeOK /\ AckInv
  BY TypeInit, AckStart
<1>2. TypeOK /\ AckInv /\ [Next]_allVars => (TypeOK /\ AckInv)'
  BY TypeStep, AckStep
<1>3. AckInv => AckedOnce
  BY DEF AckInv
<1>. QED
  BY <1>1, <1>2, <1>3, PTL DEF Spec

-----------------------------------------------------------------------------
(* One message lost per fault. *)

Made(u) == \E i \in DOMAIN tasks : tasks[i].prompt = sent[u]

InHand(u) == \E p \in Procs : At(p, "registered") /\ doing[p].payload = sent[u]

\* Messages on record that are no task and on no way to it, whether or not
\* Telegram has been told they are received.
Orphans ==
  {u \in 1..Len(sent) :
     /\ parseTelegramMessage(sent[u]).ok
     /\ <<"update", u>> \in DOMAIN events
     /\ ~ Made(u) /\ ~ InHand(u)}

\* Each of them cost a fault, and no update is on record before it is sent.
LossInv ==
  /\ Cardinality(Orphans) <= deaths + throws
  /\ \A u \in Updates : <<"update", u>> \in DOMAIN events => u <= Len(sent)

\* An operator who makes a payload up does not give it the number of an update
\* of the bot: the update itself would then pass for a duplicate.
HandMadeApart == \A p \in HandMade : p.update \notin Updates

LEMMA OrphansSize ==
  ASSUME TypeOK
  PROVE  IsFiniteSet(Orphans) /\ Cardinality(Orphans) \in Nat
<1>1. IsFiniteSet(1..Len(sent))
  BY FS_Interval DEF TypeOK, TelegramTypeOK
<1>2. Orphans \subseteq 1..Len(sent)
  BY DEF Orphans
<1>. QED
  BY <1>1, <1>2, FS_Subset, FS_CardinalityType

\* A step that orphans at most the message x, and pays for it.
LEMMA LossCounted ==
  ASSUME TypeOK, LossInv, NEW x, Orphans' \subseteq Orphans \cup {x},
         Orphans' \subseteq Orphans \/ deaths' + throws' = deaths + throws + 1,
         deaths' \in Nat, throws' \in Nat, deaths' + throws' >= deaths + throws
  PROVE  Cardinality(Orphans') <= deaths' + throws'
<1>. DEFINE n == Cardinality(Orphans)
            m == Cardinality(Orphans')
            f == deaths + throws
            g == deaths' + throws'
<1>1. IsFiniteSet(Orphans) /\ n \in Nat /\ f \in Nat /\ n <= f
  <2>1. IsFiniteSet(Orphans) /\ n \in Nat
    BY OrphansSize
  <2>2. deaths \in Nat
    BY Constants DEF TypeOK, TelegramTypeOK
  <2>3. throws \in Nat
    BY Constants DEF TypeOK
  <2>4. f \in Nat
    BY <2>2, <2>3
  <2>5. n <= f
    BY DEF LossInv
  <2>. QED
    BY <2>1, <2>4, <2>5
<1>4. g \in Int
  OBVIOUS
<1>2. CASE Orphans' \subseteq Orphans
  <2>1. m <= n /\ m \in Nat
    BY <1>1, <1>2, FS_Subset, FS_CardinalityType
  <2>2. g >= f
    OBVIOUS
  <2>. HIDE DEF n, m, f, g
  <2>3. m <= g
    BY <1>1, <1>4, <2>1, <2>2
  <2>. QED
    BY <2>3 DEF m, g
<1>3. CASE g = f + 1
  <2>1. IsFiniteSet(Orphans \cup {x})
    BY <1>1, FS_AddElement
  <2>2. m <= Cardinality(Orphans \cup {x}) /\ m \in Nat
    BY <2>1, FS_Subset, FS_CardinalityType
  <2>3. Cardinality(Orphans \cup {x}) \in {n, n + 1}
    BY <1>1, FS_AddElement
  <2>. HIDE DEF n, m, f, g
  <2>4. m <= g
    BY <1>1, <1>3, <2>2, <2>3
  <2>. QED
    BY <2>4 DEF m, g
<1>. QED
  BY <1>2, <1>3

LEMMA LossFree ==
  ASSUME TypeOK, LossInv, Orphans' \subseteq Orphans, UNCHANGED <<deaths, throws>>
  PROVE  Cardinality(Orphans') <= deaths' + throws'
<1>1. deaths' \in Nat /\ throws' \in Nat /\ deaths' + throws' >= deaths + throws
  BY DEF TypeOK, TelegramTypeOK
<1>2. Orphans' \subseteq Orphans \cup {0}
  OBVIOUS
<1>. QED
  BY <1>1, <1>2, LossCounted

\* What a step leaves alone.
LEMMA OrphansKept ==
  ASSUME TypeOK, UNCHANGED sent, \A u \in 1..Len(sent) : Made(u) => Made(u)',
         \A u : <<"update", u>> \in DOMAIN events' => <<"update", u>> \in DOMAIN events,
         NEW x,
         \A u \in 1..Len(sent) : InHand(u) => InHand(u)' \/ Made(u)' \/ u = x
  PROVE  Orphans' \subseteq Orphans \cup {x}
BY DEF Orphans, parseTelegramMessage, pickMessage, pickText

LEMMA MadeKept ==
  ASSUME TypeOK, UNCHANGED sent,
         UNCHANGED tasks \/ (\E p \in Procs : createTask(p) \/ notifyQueued(p))
  PROVE  \A u \in 1..Len(sent) : Made(u) => Made(u)'
<1>. SUFFICES ASSUME NEW u \in 1..Len(sent), NEW i \in DOMAIN tasks,
                     tasks[i].prompt = sent[u]
              PROVE  i \in DOMAIN tasks' /\ tasks'[i].prompt = tasks[i].prompt
  BY DEF Made
<1>0. tasks[i] \in Rows
  BY DEF TypeOK
<1>1. CASE UNCHANGED tasks
  BY <1>1
<1>2. ASSUME NEW p \in Procs, createTask(p)
      PROVE  i \in DOMAIN tasks' /\ tasks'[i].prompt = tasks[i].prompt
  BY <1>2 DEF createTask, TypeOK
<1>3. ASSUME NEW p \in Procs, notifyQueued(p)
      PROVE  i \in DOMAIN tasks' /\ tasks'[i].prompt = tasks[i].prompt
  <2>. DEFINE n == doing[p].task
  <2>1. CASE tasks' = [tasks EXCEPT ![n].acks = @ + 1]
    <3>1. DOMAIN tasks' = DOMAIN tasks
      BY <2>1
    <3>2. tasks'[i] = IF i = n THEN [tasks[i] EXCEPT !.acks = @ + 1] ELSE tasks[i]
      BY <2>1
    <3>. QED
      BY <1>0, <3>1, <3>2 DEF Rows
  <2>. QED
    BY <1>1, <1>3, <2>1 DEF notifyQueued
<1>. QED
  BY <1>1, <1>2, <1>3

\* A process at no message goes on, or one at a message that is a task now, or
\* whose loss is paid for: then the step orphans that message at most.
LEMMA LossGoes ==
  ASSUME TypeOK, LossInv, NEW p \in Procs, NEW label, NEW work, Goto(p, label, work),
         DOMAIN events' = DOMAIN events, UNCHANGED sent,
         \A u \in 1..Len(sent) : Made(u) => Made(u)',
         \/ ~ At(p, "registered")
         \/ \A u \in 1..Len(sent) : doing[p].payload = sent[u] => Made(u)'
         \/ deaths' + throws' = deaths + throws + 1,
         deaths' \in Nat, throws' \in Nat, deaths' + throws' >= deaths + throws
  PROVE  LossInv'
<1>. DEFINE x == doing[p].payload.update
<1>1. ASSUME NEW u \in 1..Len(sent), InHand(u), ~ InHand(u)'
      PROVE  At(p, "registered") /\ doing[p].payload = sent[u]
  BY <1>1, GotoOthers DEF InHand, Goto, At, TypeOK
<1>2. ASSUME NEW u \in 1..Len(sent), doing[p].payload = sent[u] PROVE u = x
  BY <1>2 DEF TypeOK, TelegramTypeOK
<1>3. Orphans' \subseteq Orphans \cup {x}
  BY <1>1, <1>2, OrphansKept
<1>4. Orphans' \subseteq Orphans \/ deaths' + throws' = deaths + throws + 1
  <2>1. CASE \/ ~ At(p, "registered")
             \/ \A u \in 1..Len(sent) : doing[p].payload = sent[u] => Made(u)'
    <3>1. \A u \in 1..Len(sent) : InHand(u) => InHand(u)' \/ Made(u)' \/ u = 0
      BY <1>1, <2>1
    <3>2. Orphans' \subseteq Orphans \cup {0}
      BY <3>1, OrphansKept
    <3>3. 0 \notin Orphans'
      BY DEF Orphans, TypeOK, TelegramTypeOK
    <3>. QED
      BY <3>2, <3>3
  <2>. QED
    BY <2>1
<1>5. Cardinality(Orphans') <= deaths' + throws'
  BY <1>3, <1>4, LossCounted
<1>. QED
  BY <1>5 DEF LossInv

\* A payload that is registered is an update people sent, or has no number
\* of one.
LEMMA LossRegister ==
  ASSUME TypeOK, LossInv, NEW p \in Procs, ~ At(p, "registered"),
         NEW payload \in Payloads,
         payload.update \in Updates =>
           \E u \in 1..Len(sent) : payload = sent[u] /\ payload.update = u,
         registerInboundEvent(p, payload),
         UNCHANGED <<tasks, sent, deaths, throws>>
  PROVE  LossInv'
<1>. DEFINE id == parseTelegramMessage(payload).id
            ok == parseTelegramMessage(payload).ok
<1>0. \A u \in 1..Len(sent) : Made(u) => Made(u)'
  BY MadeKept
<1>1. CASE UNCHANGED events /\ \E label, work : Goto(p, label, work)
  BY <1>0, <1>1, LossGoes DEF TypeOK, TelegramTypeOK
<1>2. CASE /\ id \notin DOMAIN events
           /\ Put(id, IF ok THEN "received" ELSE "invalid", payload)
           /\ Goto(p, IF ok THEN "registered" ELSE "recording",
                   [payload |-> payload,
                    action  |-> IF ok THEN "enqueued" ELSE "invalid", task |-> 0])
  <2>1. DOMAIN events' = DOMAIN events \cup {id}
    BY <1>2 DEF Put
  <2>2. ok => At(p, "registered")' /\ doing'[p].payload = payload
    BY <1>2 DEF Goto, At, TypeOK
  <2>3. \A u \in 1..Len(sent) : InHand(u) => InHand(u)'
    BY <1>2, GotoOthers DEF InHand, Goto, TypeOK
  <2>4. ASSUME NEW u \in Updates, id = <<"update", u>>
        PROVE  u \in 1..Len(sent) /\ payload = sent[u]
    <3>1. payload.update = u
      BY <2>4 DEF parseTelegramMessage, deriveEventId
    <3>. QED
      BY <3>1
  <2>5. 1..Len(sent) \subseteq Updates
    BY Constants DEF TypeOK, TelegramTypeOK, Updates
  <2>6. Orphans' \subseteq Orphans
    <3>. SUFFICES ASSUME NEW u \in Orphans' PROVE u \in Orphans
      OBVIOUS
    <3>1. u \in 1..Len(sent) /\ parseTelegramMessage(sent[u]).ok
      BY DEF Orphans, parseTelegramMessage, pickMessage, pickText
    <3>2. ~ Made(u) /\ ~ InHand(u) /\ ~ InHand(u)'
      BY <1>0, <2>3, <3>1 DEF Orphans
    <3>3. <<"update", u>> \in DOMAIN events \cup {id}
      BY <2>1 DEF Orphans
    <3>4. id # <<"update", u>>
      BY <2>2, <2>4, <2>5, <3>1, <3>2 DEF InHand
    <3>. QED
      BY <3>1, <3>2, <3>3, <3>4 DEF Orphans
  <2>7. Cardinality(Orphans') <= deaths' + throws'
    BY <2>6, LossFree
  <2>8. \A u \in Updates : <<"update", u>> \in DOMAIN events' => u <= Len(sent)
    BY <2>1, <2>4 DEF LossInv, TypeOK, TelegramTypeOK
  <2>. QED
    BY <2>7, <2>8 DEF LossInv
<1>. QED
  BY <1>1, <1>2 DEF registerInboundEvent

\* A message that has just been sent is not on record.
LEMMA LossSend ==
  ASSUME TypeOK, LossInv, Send, UNCHANGED ingressVars
  PROVE  LossInv'
<1>. DEFINE n == Len(sent) + 1
<1>1. /\ 1..Len(sent') = 1..Len(sent) \cup {n} /\ n \notin 1..Len(sent) /\ n \in Updates
      /\ \A u \in 1..Len(sent) : sent'[u] = sent[u]
      /\ Len(sent') = n /\ Len(sent) \in Nat
  BY SendType, Constants DEF Send, TypeOK, TelegramTypeOK, Updates
<1>2. UNCHANGED <<events, tasks, at, doing, throws, deaths>>
  BY DEF Send, ingressVars
<1>3. <<"update", n>> \notin DOMAIN events
  BY <1>1 DEF LossInv
<1>4. Orphans' \subseteq Orphans
  BY <1>1, <1>2, <1>3
  DEF Orphans, Made, InHand, At, parseTelegramMessage, pickMessage, pickText
<1>5. Cardinality(Orphans') <= deaths' + throws'
  BY <1>2, <1>4, LossFree
<1>6. \A u \in Updates : u <= Len(sent) => u <= Len(sent')
  BY <1>1 DEF Updates
<1>. QED
  BY <1>2, <1>5, <1>6 DEF LossInv

LEMMA LossStep ==
  ASSUME TypeOK, LossInv, HandMadeApart, [Next]_allVars
  PROVE  LossInv'
<1>. USE DEF Procs
<1>0. /\ deaths \in Nat /\ throws \in Nat
      /\ deaths' \in Nat /\ throws' \in Nat
  BY TypeStep DEF TypeOK, TelegramTypeOK
<1>1. ASSUME NEW p \in Procs, createTask(p) PROVE LossInv'
  <2>1. ASSUME NEW u \in 1..Len(sent), doing[p].payload = sent[u] PROVE Made(u)'
    <3>. DEFINE n == Len(tasks) + 1
    <3>1. n \in DOMAIN tasks' /\ tasks'[n].prompt = doing[p].payload /\ sent' = sent
      BY <1>1 DEF createTask, TypeOK, telegramVars
    <3>. QED
      BY <2>1, <3>1 DEF Made
  <2>2. /\ \A u \in 1..Len(sent) : Made(u) => Made(u)'
        /\ UNCHANGED <<sent, events, deaths, throws>>
    BY <1>1, MadeKept DEF createTask, telegramVars
  <2>3. PICK label, work : Goto(p, label, work)
    BY <1>1 DEF createTask
  <2>. QED
    BY <1>0, <2>1, <2>2, <2>3, LossGoes
<1>2. ASSUME NEW p \in Procs, markReceived(p) \/ markDuplicate(p) \/ recordMetric(p)
      PROVE  LossInv'
  <2>1. ~ At(p, "registered") /\ UNCHANGED <<tasks, sent, deaths, throws>>
    BY <1>2 DEF markReceived, markDuplicate, recordMetric, At, tableVars, telegramVars
  <2>2. DOMAIN events' = DOMAIN events
    BY <1>2 DEF markReceived, markDuplicate, recordMetric, tableVars,
                updateInboundEventStatus
  <2>3. PICK label, work : Goto(p, label, work)
    BY <1>2 DEF markReceived, markDuplicate, recordMetric
  <2>4. \A u \in 1..Len(sent) : Made(u) => Made(u)'
    BY <2>1, MadeKept
  <2>. QED
    BY <1>0, <2>1, <2>2, <2>3, <2>4, LossGoes
<1>3. ASSUME NEW p \in Procs,
             \/ storeThrows(p)
             \/ p = "front" /\ frontDies
             \/ p = "hand" /\ handDies
      PROVE  LossInv'
  <2>1. UNCHANGED <<tasks, sent, events>>
    BY <1>3 DEF storeThrows, frontDies, handDies, Dies, tableVars, telegramVars
  <2>2. PICK label, work : Goto(p, label, work)
    BY <1>3 DEF storeThrows, frontDies, handDies
  <2>3. \/ deaths' = deaths + 1 /\ throws' = throws
        \/ deaths' = deaths /\ throws' = throws + 1
    BY <1>3 DEF storeThrows, frontDies, handDies, Dies
  <2>4. deaths' + throws' = deaths + throws + 1 /\ deaths' + throws' >= deaths + throws
    <3>1. CASE deaths' = deaths + 1 /\ throws' = throws
      BY <1>0, <3>1
    <3>2. CASE deaths' = deaths /\ throws' = throws + 1
      BY <1>0, <3>2
    <3>. QED
      BY <2>3, <3>1, <3>2
  <2>5. \A u \in 1..Len(sent) : Made(u) => Made(u)'
    BY <2>1, MadeKept
  <2>. QED
    BY <1>0, <2>1, <2>2, <2>4, <2>5, LossGoes
<1>4. ASSUME frontStarts \/ pollerFetches \/ pollerMovesOffset PROVE LossInv'
  <2>1. ~ At("front", "registered") /\ UNCHANGED <<tasks, sent, events, deaths, throws>>
    BY <1>4 DEF frontStarts, pollerFetches, fetchUpdates, pollerMovesOffset, At,
                tableVars, telegramVars
  <2>2. PICK label, work : Goto("front", label, work)
    BY <1>4 DEF frontStarts, pollerFetches, pollerMovesOffset
  <2>3. \A u \in 1..Len(sent) : Made(u) => Made(u)'
    BY <2>1, MadeKept
  <2>. QED
    BY <1>0, <2>1, <2>2, <2>3, LossGoes
<1>5. ASSUME pollerAcks \/ \E lost \in BOOLEAN : webhookAnswers(lost) PROVE LossInv'
  <2>1. /\ ~ At("front", "registered") /\ UNCHANGED <<sent, events, deaths, throws>>
        /\ notifyQueued("front")
    BY <1>5 DEF pollerAcks, webhookAnswers, At, telegramVars
  <2>2. PICK label, work : Goto("front", label, work)
    BY <1>5 DEF pollerAcks, webhookAnswers
  <2>3. \A u \in 1..Len(sent) : Made(u) => Made(u)'
    BY <2>1, MadeKept
  <2>. QED
    BY <1>0, <2>1, <2>2, <2>3, LossGoes
<1>6. ASSUME pollerFetchThrows \/ pollerSkips \/ UNCHANGED allVars PROVE LossInv'
  <2>1. UNCHANGED <<sent, events, tasks, at, doing, deaths, throws>>
    BY <1>6 DEF pollerFetchThrows, fetchThrows, pollerSkips, allVars, telegramVars,
                ingressVars
  <2>. QED
    BY <2>1 DEF LossInv, Orphans, Made, InHand, At, parseTelegramMessage,
                pickMessage, pickText
<1>7. ASSUME NEW u \in 1..Len(sent), registerInboundEvent("front", sent[u]),
             ~ At("front", "registered"), UNCHANGED <<tasks, sent, deaths, throws>>
      PROVE  LossInv'
  <2>1. sent[u] \in Payloads /\ sent[u].update = u
    BY DEF TypeOK, TelegramTypeOK
  <2>. QED
    BY <1>7, <2>1, LossRegister
<1>8. ASSUME pollerTakes \/ \E u \in pending : webhookReceives(u) PROVE LossInv'
  <2>1. PICK u \in batch \cup pending : registerInboundEvent("front", sent[u])
    BY <1>8 DEF pollerTakes, webhookReceives
  <2>2. u \in 1..Len(sent)
    BY DEF TypeOK, TelegramTypeOK
  <2>3. ~ At("front", "registered") /\ UNCHANGED <<tasks, sent, deaths, throws>>
    BY <1>8 DEF pollerTakes, webhookReceives, At, telegramVars
  <2>. QED
    BY <1>7, <2>1, <2>2, <2>3
<1>9. ASSUME receiveStarts PROVE LossInv'
  <2>1. PICK payload \in HandMade \cup {sent[u] : u \in DOMAIN sent} :
          registerInboundEvent("hand", payload)
    BY <1>9 DEF receiveStarts
  <2>2. ~ At("hand", "registered") /\ UNCHANGED <<tasks, sent, deaths, throws>>
    BY <1>9 DEF receiveStarts, At, telegramVars
  <2>3. /\ payload \in Payloads
        /\ payload.update \in Updates =>
             \E u \in 1..Len(sent) : payload = sent[u] /\ payload.update = u
    BY IngressAssumption DEF HandMadeApart, TypeOK, TelegramTypeOK
  <2>. QED
    BY <2>1, <2>2, <2>3, LossRegister
<1>10. ASSUME Send, UNCHANGED ingressVars PROVE LossInv'
  BY <1>10, LossSend
<1>. QED
  BY <1>1, <1>2, <1>3, <1>4, <1>5, <1>6, <1>8, <1>9, <1>10
  DEF Next, IngressNext, enqueueTelegramUpdate, poller

LEMMA LossStart == Init => LossInv
<1>. SUFFICES ASSUME Init PROVE LossInv
  OBVIOUS
<1>1. Orphans = {} /\ DOMAIN events = {} /\ deaths = 0 /\ throws = 0
  BY DEF Init, TelegramInit, IngressInit, Orphans
<1>2. Cardinality(Orphans) = 0
  BY <1>1, FS_EmptySet
<1>. QED
  BY <1>1, <1>2 DEF LossInv

\* Among the messages Telegram forgets, those that never become a task are
\* orphans.
LEMMA LostAreOrphans ==
  ASSUME TypeOK, ConfirmedInv, front \in {"webhook", "poller"}
  PROVE  LostUpdates \subseteq Orphans
<1>1. ASSUME NEW u \in LostUpdates PROVE u \in Orphans
  <2>1. u \in 1..Len(sent) /\ u \notin pending
    BY DEF LostUpdates, TypeOK, TelegramTypeOK
  <2>2. <<"update", u>> \in DOMAIN events
    BY <2>1 DEF ConfirmedInv, Settled, LostUpdates
  <2>. QED
    BY <2>1, <2>2 DEF LostUpdates, Orphans, Made, InHand
<1>. QED
  BY <1>1

\* Telegram forgets a message that never becomes a task only once for every
\* death or write that throws, whatever is delivered how often and whichever
\* processes run beside, as long as nobody makes up an update's number.
THEOREM LossesArePaidFor == HandMadeApart => (Spec => []OneLossPerFault)
<1>. SUFFICES ASSUME HandMadeApart PROVE Spec => []OneLossPerFault
  OBVIOUS
<1>1. Init => TypeOK /\ ConfirmedInv /\ LossInv
  BY TypeInit, ConfirmedStart, LossStart
<1>2. TypeOK /\ ConfirmedInv /\ LossInv /\ [Next]_allVars
        => (TypeOK /\ ConfirmedInv /\ LossInv)'
  BY TypeStep, ConfirmedStep, LossStep
<1>3. TypeOK /\ ConfirmedInv /\ LossInv => OneLossPerFault
  <2>. SUFFICES ASSUME TypeOK, ConfirmedInv, LossInv, front \in {"webhook", "poller"}
                PROVE  Cardinality(LostUpdates) <= deaths + throws
    BY DEF OneLossPerFault
  <2>1. LostUpdates \subseteq Orphans
    BY LostAreOrphans
  <2>2. /\ Cardinality(LostUpdates) <= Cardinality(Orphans)
        /\ Cardinality(LostUpdates) \in Nat /\ Cardinality(Orphans) \in Nat
    BY <2>1, OrphansSize, FS_Subset, FS_CardinalityType
  <2>3. Cardinality(Orphans) <= deaths + throws /\ deaths \in Nat /\ throws \in Nat
    BY DEF LossInv, TypeOK, TelegramTypeOK
  <2>. QED
    BY <2>2, <2>3
<1>. QED
  BY <1>1, <1>2, <1>3, PTL DEF Spec

=============================================================================
