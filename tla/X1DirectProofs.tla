----------------------------- MODULE X1DirectProofs -----------------------------
(***************************************************************************)
(* Proofs about the direct chatbot, for any number of updates, chats and   *)
(* sessions, batches of any size, both session modes, and any number of    *)
(* deaths, calls that fail and sessions the server drops.                  *)
(***************************************************************************)
EXTENDS X1Direct, TLAPS, FiniteSetTheorems, SequenceTheorems

Between == {"off", "idle", "each"}

\* A session is in hand; of it, until it is deleted.
Talking == {"post", "answer", "settle", "read", "delete", "reply"}
Holding == Talking \ {"reply"}

-----------------------------------------------------------------------------
(* Type correctness. *)

Turns == [update: Nat, session: Nat, retried: BOOLEAN, reply: Nat, failed: BOOLEAN]

Entries == [role: {"user", "assistant"}, of: Nat]

Records == [log: Seq(Entries), todo: Seq(Nat), alive: BOOLEAN]

Types ==
  /\ TelegramTypeOK
  /\ mode \in Modes
  /\ phase \in Phases
  /\ turn \in Turns
  /\ \A c \in DOMAIN chatSessions : chatSessions[c] \in 1..Len(sessions)
  /\ sessions \in Seq(Records)
  /\ turns \in [Updates -> Nat]
  /\ prompts \in [Updates -> Nat]
  /\ errors \in 0..MaxErrors
  /\ undeleted \in 0..errors

\* Between two updates there is no turn; else it is at an update that was
\* sent, with the session its phase needs and the answer it is to pass on.
TurnOK ==
  /\ phase \in Between => turn = NoTurn
  /\ phase \notin Between => turn.update \in 1..Len(sent)
  /\ turn.session \in 0..Len(sessions)
  /\ phase \in Talking => turn.session # 0
  /\ phase = "reply" \/ (phase = "delete" /\ ~ turn.failed) =>
       turn.reply \in DOMAIN sessions[turn.session].log

DirectInv == Types /\ TurnOK

LEMMA Constants ==
  /\ MaxUpdates \in Nat /\ MaxDeaths \in Nat /\ MaxErrors \in Nat /\ PollLimit \in Nat
  /\ NoTurn \in Turns
BY X1Assumption, DirectAssumption DEF NoTurn, Turns

\* The session in hand, and the update.
LEMMA InHand ==
  ASSUME DirectInv, phase \notin Between
  PROVE  /\ turn.update \in 1..Len(sent) /\ turn.update \in Updates /\ turn.update \in Nat
         /\ phase \in Talking =>
              /\ turn.session \in DOMAIN sessions
              /\ sessions[turn.session] \in Records
<1>1. turn.update \in 1..Len(sent) /\ Len(sent) \in Nat /\ Len(sent) <= MaxUpdates
  BY DEF DirectInv, Types, TelegramTypeOK, TurnOK
<1>2. turn.update \in Updates /\ turn.update \in Nat
  BY <1>1, Constants DEF Updates
<1>3. /\ sessions \in Seq(Records) /\ turn.session \in 0..Len(sessions)
      /\ phase \in Talking => turn.session # 0
  BY DEF DirectInv, Types, TurnOK
<1>4. ASSUME phase \in Talking
      PROVE  turn.session \in DOMAIN sessions /\ sessions[turn.session] \in Records
  <2>1. Len(sessions) \in Nat /\ DOMAIN sessions = 1..Len(sessions)
    BY <1>3
  <2>2. turn.session \in 1..Len(sessions)
    BY <1>3, <1>4, <2>1
  <2>. QED
    BY <1>3, <2>1, <2>2
<1>. QED
  BY <1>1, <1>2, <1>4

\* One session changes.
LEMMA SessionChanges ==
  ASSUME sessions \in Seq(Records), NEW s \in DOMAIN sessions, NEW r \in Records,
         sessions' = [sessions EXCEPT ![s] = r]
  PROVE  /\ sessions' \in Seq(Records)
         /\ Len(sessions') = Len(sessions) /\ DOMAIN sessions' = DOMAIN sessions
         /\ sessions'[s] = r
         /\ \A j \in DOMAIN sessions : j # s => sessions'[j] = sessions[j]
<1>1. s \in 1..Len(sessions) /\ Len(sessions) \in Nat
  OBVIOUS
<1>2. sessions' \in Seq(Records) /\ Len(sessions') = Len(sessions)
  BY <1>1, ExceptSeq
<1>. QED
  BY <1>2

LEMMA SessionCreated ==
  ASSUME sessions \in Seq(Records), sessions' = Append(sessions, Session(<<>>, <<>>))
  PROVE  /\ sessions' \in Seq(Records)
         /\ Len(sessions') = Len(sessions) + 1
         /\ DOMAIN sessions' = DOMAIN sessions \cup {Len(sessions) + 1}
         /\ sessions'[Len(sessions) + 1] = Session(<<>>, <<>>)
         /\ \A j \in DOMAIN sessions : sessions'[j] = sessions[j]
<1>1. Session(<<>>, <<>>) \in Records
  BY DEF Session, Records
<1>. QED
  BY <1>1

\* What the server writes to a session, and what closes one.
Prompted(s, u) ==
  [log   |-> Append(sessions[s].log, [role |-> "user", of |-> u]),
   todo  |-> Append(sessions[s].todo, u),
   alive |-> sessions[s].alive]

AnswersHead(s) ==
  [log   |-> Append(sessions[s].log, [role |-> "assistant", of |-> Head(sessions[s].todo)]),
   todo  |-> Tail(sessions[s].todo),
   alive |-> sessions[s].alive]

Closed(s) == [log |-> sessions[s].log, todo |-> <<>>, alive |-> FALSE]

LEMMA RecordTypes ==
  ASSUME sessions \in Seq(Records), NEW s \in DOMAIN sessions
  PROVE  /\ sessions[s] \in Records /\ Closed(s) \in Records
         /\ \A u \in Nat : Prompted(s, u) \in Records
         /\ sessions[s].todo # <<>> => AnswersHead(s) \in Records
<1>1. sessions[s] \in Records
  OBVIOUS
<1>2. sessions[s].log \in Seq(Entries) /\ sessions[s].todo \in Seq(Nat)
      /\ sessions[s].alive \in BOOLEAN
  BY <1>1 DEF Records
<1>3. ASSUME NEW u \in Nat PROVE Prompted(s, u) \in Records
  <2>1. [role |-> "user", of |-> u] \in Entries
    BY DEF Entries
  <2>. QED
    BY <1>2, <2>1 DEF Prompted, Records
<1>4. ASSUME sessions[s].todo # <<>> PROVE AnswersHead(s) \in Records
  <2>1. Head(sessions[s].todo) \in Nat /\ Tail(sessions[s].todo) \in Seq(Nat)
    BY <1>2, <1>4
  <2>2. [role |-> "assistant", of |-> Head(sessions[s].todo)] \in Entries
    BY <2>1 DEF Entries
  <2>. QED
    BY <1>2, <2>1, <2>2 DEF AnswersHead, Records
<1>. QED
  BY <1>1, <1>2, <1>3, <1>4 DEF Closed, Records

\* Two fields of one record of a sequence change.
LEMMA RecordChanges ==
  ASSUME sessions \in Seq(Records), NEW s \in DOMAIN sessions, NEW r,
         sessions'[s] = r, sessions' = [j \in DOMAIN sessions |-> sessions'[j]],
         \A j \in DOMAIN sessions : j # s => sessions'[j] = sessions[j]
  PROVE  sessions' = [sessions EXCEPT ![s] = r]
OBVIOUS

LEMMA AcceptChanges ==
  ASSUME DirectInv, promptAccepted
  PROVE  /\ turn.session \in DOMAIN sessions
         /\ Prompted(turn.session, turn.update) \in Records
         /\ sessions' = [sessions EXCEPT ![turn.session] = Prompted(turn.session, turn.update)]
<1>. DEFINE s == turn.session
<1>1. s \in DOMAIN sessions /\ turn.update \in Nat /\ sessions \in Seq(Records)
  BY InHand DEF promptAccepted, On, Between, Talking, DirectInv, Types
<1>2. Prompted(s, turn.update) \in Records /\ sessions[s] \in Records
  BY <1>1, RecordTypes
<1>3. sessions'[s] = Prompted(s, turn.update)
  BY <1>1, <1>2 DEF promptAccepted, Prompted, Records
<1>4. /\ sessions' = [j \in DOMAIN sessions |-> sessions'[j]]
      /\ \A j \in DOMAIN sessions : j # s => sessions'[j] = sessions[j]
  BY <1>1 DEF promptAccepted
<1>. HIDE DEF s
<1>5. sessions' = [sessions EXCEPT ![s] = Prompted(s, turn.update)]
  BY <1>1, <1>3, <1>4, RecordChanges
<1>. QED
  BY <1>1, <1>2, <1>5 DEF s

LEMMA AnswerChanges ==
  ASSUME DirectInv, NEW s \in DOMAIN sessions, serverAnswers(s)
  PROVE  /\ sessions' = [sessions EXCEPT ![s] = AnswersHead(s)]
         /\ AnswersHead(s) \in Records
<1>1. sessions \in Seq(Records) /\ sessions[s].todo # <<>>
  BY DEF DirectInv, Types, serverAnswers
<1>2. AnswersHead(s) \in Records /\ sessions[s] \in Records
  BY <1>1, RecordTypes
<1>3. sessions'[s] = AnswersHead(s)
  BY <1>1, <1>2 DEF serverAnswers, AnswersHead, Records
<1>4. /\ sessions' = [j \in DOMAIN sessions |-> sessions'[j]]
      /\ \A j \in DOMAIN sessions : j # s => sessions'[j] = sessions[j]
  BY <1>1 DEF serverAnswers
<1>. QED
  BY <1>1, <1>2, <1>3, <1>4, RecordChanges

LEMMA CloseChanges ==
  ASSUME DirectInv, NEW s \in DOMAIN sessions,
         sessions' = [sessions EXCEPT ![s].alive = FALSE, ![s].todo = <<>>]
  PROVE  sessions' = [sessions EXCEPT ![s] = Closed(s)] /\ Closed(s) \in Records
<1>1. sessions \in Seq(Records)
  BY DEF DirectInv, Types
<1>2. Closed(s) \in Records /\ sessions[s] \in Records
  BY <1>1, RecordTypes
<1>3. sessions'[s] = Closed(s)
  BY <1>1, <1>2 DEF Closed, Records
<1>4. /\ sessions' = [j \in DOMAIN sessions |-> sessions'[j]]
      /\ \A j \in DOMAIN sessions : j # s => sessions'[j] = sessions[j]
  BY <1>1
<1>. QED
  BY <1>1, <1>2, <1>3, <1>4, RecordChanges

\* What the shared part of the front does keeps its types.
LEMMA Written ==
  ASSUME TelegramTypeOK, Send
  PROVE  /\ TelegramTypeOK'
         /\ Len(sent') = Len(sent) + 1 /\ Len(sent) \in Nat
         /\ \A u \in 1..Len(sent) : sent'[u] = sent[u]
<1>1. PICK p \in Shapes : sent' = Append(sent, [p EXCEPT !.update = Len(sent) + 1])
  BY DEF Send
<1>2. p \in Payloads /\ Len(sent) \in Nat /\ Len(sent) < MaxUpdates
  BY X1Assumption DEF Send, TelegramTypeOK
<1>. DEFINE q == [p EXCEPT !.update = Len(sent) + 1]
<1>3. q \in Payloads /\ q.update = Len(sent) + 1
  BY <1>2 DEF Payloads
<1>. HIDE DEF q
<1>4. /\ sent' \in Seq(Payloads) /\ Len(sent') = Len(sent) + 1
      /\ \A u \in 1..Len(sent) : sent'[u] = sent[u]
      /\ sent'[Len(sent) + 1] = q
  BY <1>1, <1>2, <1>3 DEF TelegramTypeOK, q
<1>5. \A u \in 1..Len(sent') : sent'[u].update = u
  BY <1>2, <1>3, <1>4 DEF TelegramTypeOK
<1>6. Len(sent') <= MaxUpdates
  BY <1>2, <1>4, Constants
<1>7. /\ front' = front /\ offset' = offset /\ batch' = batch /\ deaths' = deaths
      /\ pending' = pending \cup {Len(sent) + 1}
  BY DEF Send, pollVars
<1>8. \A u \in 1..Len(sent) : u \in 1..Len(sent')
  BY <1>2, <1>4
<1>9. Len(sent) + 1 \in 1..Len(sent')
  BY <1>2, <1>4
<1>10. pending' \subseteq 1..Len(sent') /\ batch' \subseteq 1..Len(sent')
  BY <1>7, <1>8, <1>9, Zenon DEF TelegramTypeOK
<1>11. offset' \in 0..(Len(sent') + 1)
  BY <1>2, <1>4, <1>7 DEF TelegramTypeOK
<1>. QED
  BY <1>2, <1>4, <1>5, <1>6, <1>7, <1>10, <1>11 DEF TelegramTypeOK

LEMMA Fetched ==
  ASSUME TelegramTypeOK, fetchUpdates \/ fetchThrows
  PROVE  TelegramTypeOK' /\ UNCHANGED <<front, sent, offset, deaths>>
<1>1. pending' \subseteq pending /\ (batch' \subseteq pending \/ batch' = batch)
  BY DEF fetchUpdates, fetchThrows, Answer, Unconfirmed, pollVars
<1>2. UNCHANGED <<front, sent, offset, deaths>>
  BY DEF fetchUpdates, fetchThrows, pollVars
<1>3. pending' \subseteq 1..Len(sent) /\ batch' \subseteq 1..Len(sent)
  BY <1>1, Zenon DEF TelegramTypeOK
<1>. QED
  BY <1>2, <1>3 DEF TelegramTypeOK

LEMMA Died ==
  ASSUME TelegramTypeOK, Dies
  PROVE  TelegramTypeOK'
BY Constants DEF TelegramTypeOK, Dies, telegramVars

\* An update leaves the batch and the offset moves past it.
Passed(u) ==
  /\ u \in batch
  /\ IsNext(u)
  /\ offset' = offsetAfter(u)
  /\ batch' = batch \ {u}
  /\ UNCHANGED <<front, telegramVars, deaths>>

LEMMA PassedTypes ==
  ASSUME TelegramTypeOK, NEW u, Passed(u)
  PROVE  /\ TelegramTypeOK' /\ u \in 1..Len(sent) /\ u \in Nat
         /\ UNCHANGED <<front, sent, pending, deaths>>
<1>1. u \in 1..Len(sent) /\ Len(sent) \in Nat /\ UNCHANGED <<front, sent, pending, deaths>>
  BY DEF Passed, TelegramTypeOK, telegramVars
<1>2. offset' \in 0..(Len(sent) + 1) /\ batch' \subseteq 1..Len(sent)
  BY <1>1 DEF Passed, offsetAfter, TelegramTypeOK
<1>. QED
  BY <1>1, <1>2 DEF TelegramTypeOK

LEMMA Failed ==
  ASSUME DirectInv, Fails \/ UNCHANGED errorVars
  PROVE  errors' \in 0..MaxErrors /\ undeleted' \in 0..errors'
BY Constants DEF DirectInv, Types, Fails, errorVars

LEMMA FailedLeaving ==
  ASSUME DirectInv, FailsLeavingSession
  PROVE  errors' \in 0..MaxErrors /\ undeleted' \in 0..errors'
BY Constants DEF DirectInv, Types, FailsLeavingSession

LEMMA TypesStart == TelegramInit /\ DirectInit => DirectInv
<1>. SUFFICES ASSUME TelegramInit, DirectInit PROVE DirectInv
  OBVIOUS
<1>1. TelegramTypeOK
  BY Constants DEF TelegramInit, TelegramTypeOK
<1>2. Types
  BY <1>1, Constants DEF DirectInit, Types, Phases
<1>3. TurnOK
  BY DEF DirectInit, TurnOK, Between, Talking, NoTurn
<1>. QED
  BY <1>2, <1>3 DEF DirectInv

\* The steps of the poll loop that take up no update.
LEMMA TypesPolling ==
  ASSUME DirectInv,
         directStarts \/ directFetches \/ directFetchThrows \/ batchDone \/ skipUpdate
  PROVE  DirectInv'
<1>1. TelegramTypeOK' /\ sent' = sent
  <2>1. CASE directStarts \/ batchDone
    BY <2>1 DEF directStarts, batchDone, loopVars, telegramVars, pollVars,
                DirectInv, Types, TelegramTypeOK
  <2>2. CASE directFetches \/ directFetchThrows
    BY <2>2, Fetched DEF directFetches, directFetchThrows, DirectInv, Types
  <2>3. CASE skipUpdate
    <3>1. PICK u \in batch : Passed(u)
      BY <2>3 DEF skipUpdate, Passed
    <3>. QED
      BY <3>1, PassedTypes DEF DirectInv, Types
  <2>. QED
    BY <2>1, <2>2, <2>3
<1>2. /\ UNCHANGED <<mode, turn, chatSessions, sessions, turns, prompts, errors, undeleted>>
      /\ phase \in Between /\ phase' \in Between
  BY DEF directStarts, directFetches, directFetchThrows, batchDone, skipUpdate, On,
         loopVars, serverVars, errorVars, directVars, Between
<1>3. turn = NoTurn
  BY <1>2 DEF DirectInv, TurnOK
<1>4. Types'
  BY <1>1, <1>2 DEF DirectInv, Types, Between, Phases
<1>5. TurnOK'
  BY <1>1, <1>2, <1>3 DEF TurnOK, Between, Talking, NoTurn, DirectInv
<1>. QED
  BY <1>4, <1>5 DEF DirectInv

LEMMA TypesDies ==
  ASSUME DirectInv, directDies
  PROVE  DirectInv'
<1>1. TelegramTypeOK'
  BY Died DEF directDies, DirectInv, Types
<1>2. /\ UNCHANGED <<mode, sessions, turns, prompts, errors, undeleted>>
      /\ phase' = "off" /\ turn' = NoTurn /\ chatSessions' = << >>
  BY DEF directDies, serverVars, errorVars
<1>3. Types'
  BY <1>1, <1>2, Constants DEF DirectInv, Types, Phases
<1>4. TurnOK'
  BY <1>2 DEF TurnOK, Between, Talking, NoTurn, DirectInv, Types
<1>. QED
  BY <1>3, <1>4 DEF DirectInv

LEMMA TypesTake ==
  ASSUME DirectInv, takeUpdate
  PROVE  DirectInv'
<1>1. PICK u \in batch :
        LET s == IF mode = "oneshot" THEN 0 ELSE existing(chatOf(u))
        IN /\ Passed(u)
           /\ Answerable(u)
           /\ turn' = [NoTurn EXCEPT !.update = u, !.session = s]
           /\ phase' = IF s = 0 THEN "create" ELSE "post"
           /\ turns' = [turns EXCEPT ![u] = @ + 1]
  BY DEF takeUpdate, Passed
<1>. DEFINE s == IF mode = "oneshot" THEN 0 ELSE existing(chatOf(u))
<1>2. /\ TelegramTypeOK' /\ u \in 1..Len(sent) /\ u \in Nat
      /\ UNCHANGED <<front, sent, pending, deaths>>
  BY <1>1, PassedTypes DEF DirectInv, Types
<1>3. UNCHANGED <<mode, chatSessions, sessions, prompts, errors, undeleted>>
  BY DEF takeUpdate, serverVars, errorVars
<1>4. s \in 0..Len(sessions) /\ Len(sessions) \in Nat
  BY DEF existing, DirectInv, Types
<1>5. turn' \in Turns /\ turn'.update = u /\ turn'.session = s
  <2>1. turn' = [NoTurn EXCEPT !.update = u, !.session = s]
    BY <1>1
  <2>2. s \in Nat
    BY <1>4
  <2>. HIDE DEF s
  <2>. QED
    BY <1>2, <2>1, <2>2 DEF NoTurn, Turns
<1>6. u \in Updates
  BY <1>2, Constants DEF DirectInv, Types, TelegramTypeOK, Updates
<1>7. turns' \in [Updates -> Nat] /\ phase' \in {"create", "post"}
      /\ (phase' = "post" => s # 0)
  BY <1>1, <1>6 DEF DirectInv, Types
<1>. HIDE DEF s
<1>8. Types'
  BY <1>2, <1>3, <1>5, <1>7 DEF DirectInv, Types, Phases
<1>9. TurnOK'
  BY <1>2, <1>3, <1>4, <1>5, <1>7 DEF TurnOK, Between, Talking
<1>. QED
  BY <1>8, <1>9 DEF DirectInv

LEMMA TypesCreate ==
  ASSUME DirectInv, createSession
  PROVE  DirectInv'
<1>1. /\ sessions' = Append(sessions, Session(<<>>, <<>>))
      /\ turn' = [turn EXCEPT !.session = Len(sessions) + 1]
      /\ phase = "create" /\ phase' = "post"
      /\ UNCHANGED <<front, sent, pending, offset, batch, deaths, mode, turns, prompts,
                     errors, undeleted>>
  BY DEF createSession, On, loopVars, telegramVars, pollVars, errorVars
<1>2. /\ sessions' \in Seq(Records) /\ Len(sessions') = Len(sessions) + 1
      /\ Len(sessions) \in Nat
  BY <1>1, SessionCreated DEF DirectInv, Types
<1>3. turn.update \in 1..Len(sent)
  BY <1>1, InHand DEF Between
<1>. DEFINE n == Len(sessions) + 1
<1>4. turn' \in Turns /\ turn'.session = n /\ turn'.update = turn.update
  <2>1. turn' = [turn EXCEPT !.session = n] /\ n \in Nat /\ turn \in Turns
    BY <1>1, <1>2 DEF DirectInv, Types
  <2>. HIDE DEF n
  <2>. QED
    BY <2>1 DEF Turns
<1>5. \A c \in DOMAIN chatSessions' :
        \/ chatSessions'[c] = Len(sessions) + 1
        \/ c \in DOMAIN chatSessions /\ chatSessions'[c] = chatSessions[c]
  <2>1. CASE mode = "oneshot"
    BY <2>1 DEF createSession
  <2>2. CASE mode # "oneshot"
    <3>. DEFINE x == chatOf(turn.update)
                m == Len(sessions) + 1
    <3>1. chatSessions' = [c \in DOMAIN chatSessions \cup {x} |->
                             IF c = x THEN m ELSE chatSessions[c]]
      BY <2>2 DEF createSession
    <3>. HIDE DEF x, m
    <3>2. \A c \in DOMAIN chatSessions' :
            \/ chatSessions'[c] = m
            \/ c \in DOMAIN chatSessions /\ chatSessions'[c] = chatSessions[c]
      BY <3>1
    <3>. QED
      BY <3>2 DEF m
  <2>. QED
    BY <2>1, <2>2
<1>6. \A c \in DOMAIN chatSessions' : chatSessions'[c] \in 1..Len(sessions')
  BY <1>2, <1>5 DEF DirectInv, Types
<1>7. Types'
  BY <1>1, <1>2, <1>4, <1>6 DEF DirectInv, Types, TelegramTypeOK, Phases
<1>8. TurnOK'
  BY <1>1, <1>2, <1>3, <1>4 DEF TurnOK, Between, Talking
<1>. QED
  BY <1>7, <1>8 DEF DirectInv

\* A session is made whose id never arrives.
LEMMA TypesLost ==
  ASSUME DirectInv, createSessionLost
  PROVE  DirectInv'
<1>1. /\ sessions' = Append(sessions, Session(<<>>, <<>>))
      /\ turn' = [turn EXCEPT !.failed = TRUE]
      /\ phase = "create" /\ phase' = "apology" /\ FailsLeavingSession
      /\ UNCHANGED <<front, sent, pending, offset, batch, deaths, mode, turns, prompts,
                     chatSessions>>
  BY DEF createSessionLost, On, loopVars, telegramVars, pollVars
<1>2. /\ sessions' \in Seq(Records) /\ Len(sessions') = Len(sessions) + 1
      /\ Len(sessions) \in Nat
  BY <1>1, SessionCreated DEF DirectInv, Types
<1>3. turn.update \in 1..Len(sent) /\ turn.session \in 0..Len(sessions)
  BY <1>1, InHand DEF Between, DirectInv, TurnOK
<1>4. turn' \in Turns /\ turn'.session = turn.session /\ turn'.update = turn.update
  BY <1>1 DEF Turns, DirectInv, Types
<1>5. \A c \in DOMAIN chatSessions' : chatSessions'[c] \in 1..Len(sessions')
  BY <1>1, <1>2 DEF DirectInv, Types
<1>6. errors' \in 0..MaxErrors /\ undeleted' \in 0..errors'
  BY <1>1, FailedLeaving
<1>7. Types'
  BY <1>1, <1>2, <1>4, <1>5, <1>6 DEF DirectInv, Types, TelegramTypeOK, Phases
<1>8. TurnOK'
  BY <1>1, <1>2, <1>3, <1>4 DEF TurnOK, Between, Talking
<1>. QED
  BY <1>7, <1>8 DEF DirectInv

\* A call fails: the loop goes on to delete the session, to send the text
\* once more or to tell the chat.
LEMMA TypesFails ==
  ASSUME DirectInv,
         createSessionThrows \/ promptThrows \/ readThrows \/ sendTelegramMessageThrows
  PROVE  DirectInv'
<1>1. /\ UNCHANGED <<front, sent, pending, offset, batch, deaths, mode, sessions, turns,
                     prompts>>
      /\ phase \notin Between
  BY DEF createSessionThrows, promptThrows, readThrows, sendTelegramMessageThrows, On,
         loopVars, telegramVars, pollVars, serverVars, Between
<1>2. errors' \in 0..MaxErrors /\ undeleted' \in 0..errors'
  <2>1. Fails \/ UNCHANGED errorVars
    BY DEF createSessionThrows, promptThrows, readThrows, sendTelegramMessageThrows
  <2>. QED
    BY <2>1, Failed
<1>3. /\ turn' \in Turns /\ turn'.update = turn.update /\ turn'.session = turn.session
      /\ phase' \in {"delete", "create", "apology"}
      /\ phase' = "delete" => turn'.failed /\ phase \in Talking
  BY DEF createSessionThrows, promptThrows, readThrows, sendTelegramMessageThrows,
         promptFails, On, Talking, DirectInv, Types, Turns
<1>4. \A c \in DOMAIN chatSessions' :
        c \in DOMAIN chatSessions /\ chatSessions'[c] = chatSessions[c]
  BY DEF createSessionThrows, promptThrows, readThrows, sendTelegramMessageThrows,
         promptFails
<1>5. Types'
  BY <1>1, <1>2, <1>3, <1>4 DEF DirectInv, Types, TelegramTypeOK, Phases
<1>6. TurnOK'
  BY <1>1, <1>3 DEF TurnOK, Between, Talking, DirectInv
<1>. QED
  BY <1>5, <1>6 DEF DirectInv

LEMMA TypesAccept ==
  ASSUME DirectInv, promptAccepted
  PROVE  DirectInv'
<1>1. /\ UNCHANGED <<front, sent, pending, offset, batch, deaths, mode, turn, chatSessions,
                     turns, errors, undeleted>>
      /\ phase = "post" /\ phase' = "answer"
  BY DEF promptAccepted, On, loopVars, telegramVars, pollVars, errorVars
<1>2. sessions' \in Seq(Records) /\ Len(sessions') = Len(sessions)
  BY AcceptChanges, SessionChanges DEF DirectInv, Types
<1>3. turn.update \in Updates
  BY <1>1, InHand DEF Between
<1>4. prompts' \in [Updates -> Nat]
  BY <1>3 DEF promptAccepted, DirectInv, Types
<1>5. Types'
  BY <1>1, <1>2, <1>4 DEF DirectInv, Types, TelegramTypeOK, Phases
<1>6. TurnOK'
  BY <1>1, <1>2 DEF DirectInv, TurnOK, Between, Talking
<1>. QED
  BY <1>5, <1>6 DEF DirectInv

\* The answer to pass on is a message of the session in hand.
LEMMA TypesReplied ==
  ASSUME DirectInv, promptReturns \/ readMessages
  PROVE  DirectInv'
<1>1. /\ UNCHANGED <<front, sent, pending, offset, batch, deaths, mode, chatSessions,
                     sessions, turns, prompts, errors, undeleted>>
      /\ phase \in Talking /\ phase \notin Between
  BY DEF promptReturns, readMessages, On, loopVars, telegramVars, pollVars, serverVars,
         errorVars, Talking, Between
<1>2. PICK i \in DOMAIN sessions[turn.session].log : Replied(i)
  BY DEF promptReturns, readMessages
<1>3. turn.session \in DOMAIN sessions /\ sessions[turn.session] \in Records
  BY <1>1, InHand
<1>4. i \in Nat
  BY <1>3 DEF Records
<1>5. /\ turn' \in Turns /\ turn'.update = turn.update /\ turn'.session = turn.session
      /\ turn'.reply = i /\ phase' \in {"delete", "reply"}
  BY <1>2, <1>4 DEF Replied, DirectInv, Types, Turns
<1>6. Types'
  BY <1>1, <1>5 DEF DirectInv, Types, TelegramTypeOK, Phases
<1>7. TurnOK'
  BY <1>1, <1>5 DEF TurnOK, Between, Talking, DirectInv
<1>. QED
  BY <1>6, <1>7 DEF DirectInv

LEMMA TypesWaits ==
  ASSUME DirectInv, promptReturnsOther \/ waitForIdle
  PROVE  DirectInv'
<1>1. /\ UNCHANGED <<front, sent, pending, offset, batch, deaths, mode, turn, chatSessions,
                     sessions, turns, prompts>>
      /\ phase \in {"answer", "settle"} /\ phase' \in {"settle", "read"}
  BY DEF promptReturnsOther, waitForIdle, On, loopVars, telegramVars, pollVars, serverVars
<1>2. errors' \in 0..MaxErrors /\ undeleted' \in 0..errors'
  <2>1. Fails \/ UNCHANGED errorVars
    BY DEF promptReturnsOther, waitForIdle
  <2>. QED
    BY <2>1, Failed
<1>3. Types'
  BY <1>1, <1>2 DEF DirectInv, Types, TelegramTypeOK, Phases
<1>4. TurnOK'
  BY <1>1 DEF DirectInv, TurnOK, Between, Talking
<1>. QED
  BY <1>3, <1>4 DEF DirectInv

\* The session keeps its messages when it is deleted.
LEMMA TypesDelete ==
  ASSUME DirectInv, deleteSession
  PROVE  DirectInv'
<1>1. /\ UNCHANGED <<front, sent, pending, offset, batch, deaths, mode, turn, chatSessions,
                     turns, prompts>>
      /\ phase = "delete" /\ phase' = IF turn.failed THEN "apology" ELSE "reply"
  BY DEF deleteSession, On, loopVars, telegramVars, pollVars
<1>2. turn.session \in DOMAIN sessions /\ turn \in Turns
  BY <1>1, InHand DEF Talking, Between, DirectInv, Types
<1>3. /\ sessions' \in Seq(Records) /\ Len(sessions') = Len(sessions)
      /\ sessions'[turn.session].log = sessions[turn.session].log
  <2>1. CASE sessions' = [sessions EXCEPT ![turn.session].alive = FALSE,
                                          ![turn.session].todo = <<>>]
    <3>1. /\ sessions' = [sessions EXCEPT ![turn.session] = Closed(turn.session)]
          /\ Closed(turn.session) \in Records
      BY <1>2, <2>1, CloseChanges
    <3>2. /\ sessions' \in Seq(Records) /\ Len(sessions') = Len(sessions)
          /\ sessions'[turn.session] = Closed(turn.session)
      BY <1>2, <3>1, SessionChanges DEF DirectInv, Types
    <3>. QED
      BY <3>2 DEF Closed
  <2>2. CASE sessions' = sessions
    BY <2>2 DEF DirectInv, Types
  <2>. QED
    BY <2>1, <2>2 DEF deleteSession
<1>4. errors' \in 0..MaxErrors /\ undeleted' \in 0..errors'
  <2>1. UNCHANGED errorVars \/ FailsLeavingSession
    BY DEF deleteSession
  <2>. QED
    BY <2>1, Failed, FailedLeaving
<1>5. Types'
  BY <1>1, <1>3, <1>4 DEF DirectInv, Types, TelegramTypeOK, Phases
<1>6. TurnOK'
  BY <1>1, <1>2, <1>3 DEF DirectInv, TurnOK, Between, Talking
<1>. QED
  BY <1>5, <1>6 DEF DirectInv

LEMMA TypesEnds ==
  ASSUME DirectInv, sendTelegramMessage \/ apologise
  PROVE  DirectInv'
<1>1. /\ UNCHANGED <<front, sent, pending, offset, batch, deaths, mode, chatSessions,
                     sessions, turns, prompts, errors, undeleted>>
      /\ phase' = "each" /\ turn' = NoTurn
  BY DEF sendTelegramMessage, apologise, loopVars, telegramVars, pollVars, serverVars,
         errorVars
<1>2. Types'
  BY <1>1, Constants DEF DirectInv, Types, TelegramTypeOK, Phases
<1>3. TurnOK'
  BY <1>1 DEF DirectInv, Types, TurnOK, Between, Talking, NoTurn
<1>. QED
  BY <1>2, <1>3 DEF DirectInv

\* The server adds an answer to a session, or ends one with its messages.
LEMMA ServerChanges ==
  ASSUME DirectInv, NEW s \in DOMAIN sessions, serverAnswers(s) \/ serverDropsSession(s)
  PROVE  /\ sessions' \in Seq(Records) /\ Len(sessions') = Len(sessions)
         /\ DOMAIN sessions' = DOMAIN sessions
         /\ \A j \in DOMAIN sessions : j # s => sessions'[j] = sessions[j]
         /\ \/ sessions'[s] = AnswersHead(s) /\ sessions[s].todo # <<>>
            \/ sessions'[s] = Closed(s)
<1>1. sessions \in Seq(Records)
  BY DEF DirectInv, Types
<1>2. PICK r \in Records :
        /\ sessions' = [sessions EXCEPT ![s] = r]
        /\ \/ r = AnswersHead(s) /\ sessions[s].todo # <<>>
           \/ r = Closed(s)
  <2>1. CASE serverAnswers(s)
    <3>1. /\ sessions' = [sessions EXCEPT ![s] = AnswersHead(s)]
          /\ AnswersHead(s) \in Records
      BY <2>1, AnswerChanges
    <3>. QED
      BY <2>1, <3>1 DEF serverAnswers
  <2>2. CASE serverDropsSession(s)
    <3>1. sessions' = [sessions EXCEPT ![s] = Closed(s)] /\ Closed(s) \in Records
      BY <2>2, CloseChanges DEF serverDropsSession
    <3>. QED
      BY <3>1
  <2>. QED
    BY <2>1, <2>2
<1>3. /\ sessions' \in Seq(Records) /\ Len(sessions') = Len(sessions)
      /\ DOMAIN sessions' = DOMAIN sessions /\ sessions'[s] = r
      /\ \A j \in DOMAIN sessions : j # s => sessions'[j] = sessions[j]
  BY <1>1, <1>2, SessionChanges
<1>. QED
  BY <1>2, <1>3

LEMMA LogGrows ==
  ASSUME DirectInv, NEW s \in DOMAIN sessions,
         \/ sessions'[s] = AnswersHead(s)
         \/ sessions'[s] = Closed(s)
         \/ sessions'[s] = Prompted(s, turn.update)
  PROVE  DOMAIN sessions[s].log \subseteq DOMAIN sessions'[s].log
<1>1. sessions[s].log \in Seq(Entries)
  BY RecordTypes DEF DirectInv, Types, Records
<1>. QED
  BY <1>1 DEF AnswersHead, Closed, Prompted

LEMMA TypesServer ==
  ASSUME DirectInv, NEW s \in DOMAIN sessions, serverAnswers(s) \/ serverDropsSession(s)
  PROVE  DirectInv'
<1>1. UNCHANGED <<front, sent, pending, offset, batch, deaths, mode, phase, turn,
                  chatSessions, turns, prompts>>
  BY DEF serverAnswers, serverDropsSession, loopVars, telegramVars, pollVars
<1>2. errors' \in 0..MaxErrors /\ undeleted' \in 0..errors'
  <2>1. Fails \/ UNCHANGED errorVars
    BY DEF serverAnswers, serverDropsSession
  <2>. QED
    BY <2>1, Failed
<1>3. /\ sessions' \in Seq(Records) /\ Len(sessions') = Len(sessions)
      /\ \A j \in DOMAIN sessions : DOMAIN sessions[j].log \subseteq DOMAIN sessions'[j].log
  <2>1. DOMAIN sessions[s].log \subseteq DOMAIN sessions'[s].log
    BY ServerChanges, LogGrows
  <2>. QED
    BY <2>1, ServerChanges
<1>4. Types'
  BY <1>1, <1>2, <1>3 DEF DirectInv, Types, TelegramTypeOK
<1>5. TurnOK'
  <2>1. ASSUME phase \in {"reply", "delete"} PROVE turn.session \in DOMAIN sessions
    BY <2>1, InHand DEF Talking, Between
  <2>. QED
    BY <1>1, <1>3, <2>1 DEF DirectInv, TurnOK, Between, Talking
<1>. QED
  BY <1>4, <1>5 DEF DirectInv

LEMMA TypesSend ==
  ASSUME DirectInv, Send, UNCHANGED directVars
  PROVE  DirectInv'
<1>1. TelegramTypeOK' /\ Len(sent') = Len(sent) + 1 /\ Len(sent) \in Nat
  BY Written DEF DirectInv, Types
<1>2. UNCHANGED <<mode, phase, turn, chatSessions, sessions, said, turns, prompts, errors,
                  undeleted>>
  BY DEF directVars
<1>3. Types'
  BY <1>1, <1>2 DEF DirectInv, Types
<1>4. turn.update \in 1..Len(sent) => turn.update \in 1..Len(sent')
  BY <1>1
<1>5. TurnOK'
  BY <1>2, <1>4 DEF DirectInv, TurnOK
<1>. QED
  BY <1>3, <1>5 DEF DirectInv

\* The kinds of step there are.
LEMMA Steps ==
  ASSUME [DirectNext \/ (Send /\ UNCHANGED directVars)]_directAll
  PROVE  \/ directStarts \/ directFetches \/ directFetchThrows \/ batchDone \/ skipUpdate
         \/ takeUpdate
         \/ createSession \/ createSessionLost
         \/ createSessionThrows \/ promptThrows \/ readThrows \/ sendTelegramMessageThrows
         \/ promptAccepted
         \/ promptReturns \/ readMessages
         \/ promptReturnsOther \/ waitForIdle
         \/ deleteSession
         \/ sendTelegramMessage \/ apologise
         \/ directDies
         \/ \E s \in DOMAIN sessions : serverAnswers(s) \/ serverDropsSession(s)
         \/ Send /\ UNCHANGED directVars
         \/ UNCHANGED directAll
BY DEF DirectNext, Loop

LEMMA TypesStep ==
  ASSUME DirectInv, [DirectNext \/ (Send /\ UNCHANGED directVars)]_directAll
  PROVE  DirectInv'
<1>1. CASE UNCHANGED directAll
  BY <1>1 DEF directAll, directVars, telegramVars, pollVars, DirectInv, Types, TurnOK,
              TelegramTypeOK
<1>. QED
  BY <1>1, Steps, TypesPolling, TypesTake, TypesCreate, TypesLost, TypesFails,
     TypesAccept, TypesReplied, TypesWaits, TypesDelete, TypesEnds, TypesDies, TypesServer, TypesSend

LEMMA InvAlways == DirectSpec => []DirectInv
<1>1. TelegramInit /\ DirectInit => DirectInv
  BY TypesStart
<1>2. DirectInv /\ [DirectNext \/ (Send /\ UNCHANGED directVars)]_directAll => DirectInv'
  BY TypesStep
<1>. QED
  BY <1>1, <1>2, PTL DEF DirectSpec

\* Every variable of the chatbot keeps its type: the session in hand and those
\* kept for the chats exist, and a death or a failed call at any await leaves
\* the loop where it may go on (x1/direct-chatbot.ts:461-608).
THEOREM DirectTypeCorrect == DirectSpec => []DirectTypeOK
<1>1. ASSUME DirectInv PROVE DirectTypeOK
  <2>1. turn.update \in 0..MaxUpdates
    <3>1. Len(sent) \in Nat /\ Len(sent) <= MaxUpdates
      BY <1>1 DEF DirectInv, Types, TelegramTypeOK
    <3>2. turn.update = 0 \/ turn.update \in 1..Len(sent)
      BY <1>1 DEF DirectInv, TurnOK, NoTurn
    <3>. QED
      BY <3>1, <3>2, Constants
  <2>2. DOMAIN sessions = 1..Len(sessions)
    BY <1>1 DEF DirectInv, Types
  <2>. QED
    BY <1>1, <2>1, <2>2 DEF DirectInv, Types, TurnOK, DirectTypeOK
<1>. QED
  BY <1>1, InvAlways, PTL

-----------------------------------------------------------------------------
(* How often an update is taken up and its text sent. *)

\* In one life of the process the offset never returns to an update it has
\* moved past, and what is left of the batch lies ahead of it.
BoundInv ==
  /\ \A u \in batch : offset <= u
  /\ \A u \in Updates : turns[u] <= deaths + (IF u < offset THEN 1 ELSE 0)

\* What a turn may still send: its text, and once more after a failure.
Limit == IF mode = "per-chat" THEN 2 ELSE 1

Again == mode = "per-chat" /\ ~ turn.retried /\ phase # "apology"

Left(u) ==
  IF phase \in Between \/ u # turn.update THEN 0
  ELSE (IF Again THEN 1 ELSE 0) + (IF phase \in {"create", "post"} THEN 1 ELSE 0)

PromptInv == \A u \in Updates : prompts[u] + Left(u) <= Limit * turns[u]

\* The steps that touch neither the poll loop's variables nor the counts of
\* turns, which is all but taking an update up, polling and dying.
LEMMA Inside ==
  ASSUME \/ createSession \/ createSessionThrows \/ promptThrows \/ readThrows
         \/ sendTelegramMessageThrows \/ promptAccepted \/ promptReturns \/ readMessages
         \/ promptReturnsOther \/ waitForIdle \/ deleteSession \/ createSessionLost
         \/ sendTelegramMessage \/ apologise \/ directStarts \/ batchDone
         \/ \E s \in DOMAIN sessions : serverAnswers(s) \/ serverDropsSession(s)
         \/ UNCHANGED directAll
  PROVE  UNCHANGED <<front, sent, pending, offset, batch, deaths, mode, turns>>
BY DEF createSession, createSessionThrows, promptThrows, readThrows,
       sendTelegramMessageThrows, promptAccepted, promptReturns, readMessages,
       promptReturnsOther, waitForIdle, deleteSession, createSessionLost,
       sendTelegramMessage, apologise, directStarts, batchDone, serverAnswers, serverDropsSession, directAll, directVars,
       loopVars, telegramVars, pollVars

LEMMA BoundKept ==
  ASSUME BoundInv, UNCHANGED <<offset, batch, deaths, turns>>
  PROVE  BoundInv'
BY DEF BoundInv

LEMMA BoundFetch ==
  ASSUME DirectInv, BoundInv, directFetches \/ directFetchThrows
  PROVE  BoundInv'
<1>1. UNCHANGED <<offset, deaths, turns>>
  BY DEF directFetches, directFetchThrows, fetchUpdates, fetchThrows, pollVars, directVars
<1>2. \A u \in batch' : offset <= u
  <2>1. CASE directFetches
    <3>1. \A u \in batch' : u \in pending /\ u >= offset
      BY <2>1 DEF directFetches, fetchUpdates, Answer, Unconfirmed
    <3>2. pending \subseteq 1..Len(sent) /\ offset \in Nat
      BY DEF DirectInv, Types, TelegramTypeOK
    <3>. QED
      BY <3>1, <3>2
  <2>2. CASE directFetchThrows
    BY <2>2 DEF directFetchThrows, fetchThrows, pollVars, BoundInv
  <2>. QED
    BY <2>1, <2>2
<1>. QED
  BY <1>1, <1>2 DEF BoundInv

\* The update passed was the first of those left: it lies at or after the
\* offset, all others after it.
LEMMA BoundPassed ==
  ASSUME DirectInv, BoundInv, NEW u, Passed(u)
  PROVE  /\ u \in Updates /\ u \in Nat /\ offset \in Nat /\ offset <= u
         /\ offset' = u + 1 /\ deaths' = deaths
         /\ \A v \in batch' : offset' <= v
<1>1. u \in 1..Len(sent) /\ u \in Nat /\ deaths' = deaths
  BY PassedTypes DEF DirectInv, Types
<1>2. Len(sent) \in Nat /\ Len(sent) <= MaxUpdates /\ offset \in Nat
      /\ batch \subseteq 1..Len(sent)
  BY DEF DirectInv, Types, TelegramTypeOK
<1>3. u \in Updates
  BY <1>1, <1>2, Constants DEF Updates
<1>4. offset <= u /\ offset' = u + 1
  BY DEF Passed, BoundInv, offsetAfter
<1>5. ASSUME NEW v \in batch' PROVE offset' <= v
  <2>1. v \in batch /\ v # u /\ u <= v
    BY <1>5 DEF Passed, IsNext
  <2>. QED
    BY <1>1, <1>2, <1>4, <2>1
<1>. QED
  BY <1>1, <1>2, <1>3, <1>4, <1>5

LEMMA BoundSkip ==
  ASSUME DirectInv, BoundInv, skipUpdate
  PROVE  BoundInv'
<1>1. PICK u \in batch : Passed(u)
  BY DEF skipUpdate, Passed
<1>2. turns' = turns
  BY DEF skipUpdate, directVars
<1>3. ASSUME NEW v \in Updates PROVE turns[v] <= deaths + (IF v < u + 1 THEN 1 ELSE 0)
  <2>1. turns[v] \in Nat /\ deaths \in Nat /\ v \in Nat
    BY <1>3, Constants DEF DirectInv, Types, TelegramTypeOK, Updates
  <2>. QED
    BY <1>1, <1>3, <2>1, BoundPassed DEF BoundInv
<1>. QED
  BY <1>1, <1>2, <1>3, BoundPassed DEF BoundInv

LEMMA BoundTake ==
  ASSUME DirectInv, BoundInv, takeUpdate
  PROVE  BoundInv'
<1>1. PICK u \in batch : Passed(u) /\ turns' = [turns EXCEPT ![u] = @ + 1]
  BY DEF takeUpdate, Passed
<1>2. ASSUME NEW v \in Updates PROVE turns'[v] <= deaths + (IF v < u + 1 THEN 1 ELSE 0)
  <2>1. /\ turns[v] \in Nat /\ deaths \in Nat /\ v \in Nat
        /\ u \in Nat /\ offset \in Nat /\ offset <= u
    <3>1. u \in Nat /\ offset \in Nat /\ offset <= u
      BY <1>1, BoundPassed
    <3>. QED
      BY <1>2, <3>1, Constants DEF DirectInv, Types, TelegramTypeOK, Updates
  <2>2. turns'[v] = IF v = u THEN turns[v] + 1 ELSE turns[v]
    BY <1>1, <1>2 DEF DirectInv, Types
  <2>3. turns[v] <= deaths + (IF v < offset THEN 1 ELSE 0)
    BY <1>2 DEF BoundInv
  <2>. QED
    BY <2>1, <2>2, <2>3
<1>. QED
  BY <1>1, <1>2, BoundPassed DEF BoundInv

LEMMA BoundDies ==
  ASSUME DirectInv, BoundInv, directDies
  PROVE  BoundInv'
<1>1. offset' = 0 /\ batch' = {} /\ deaths' = deaths + 1 /\ turns' = turns
  BY DEF directDies, Dies
<1>2. \A u \in Updates : turns[u] <= deaths + 1
  <2>1. \A u \in Updates : turns[u] \in Nat
    BY DEF DirectInv, Types
  <2>2. deaths \in Nat
    BY DEF DirectInv, Types, TelegramTypeOK
  <2>. QED
    BY <2>1, <2>2 DEF BoundInv
<1>3. \A u \in Updates : ~ (u < 0)
  BY DEF Updates
<1>4. deaths \in Nat
  BY DEF DirectInv, Types, TelegramTypeOK
<1>. QED
  BY <1>1, <1>2, <1>3, <1>4 DEF BoundInv

LEMMA BoundStep ==
  ASSUME DirectInv, BoundInv, [DirectNext \/ (Send /\ UNCHANGED directVars)]_directAll
  PROVE  BoundInv'
<1>1. CASE Send /\ UNCHANGED directVars
  BY <1>1, BoundKept DEF Send, pollVars, directVars
<1>. QED
  BY <1>1, Steps, Inside, BoundKept, BoundFetch, BoundSkip, BoundTake, BoundDies

LEMMA LeftIs ==
  ASSUME DirectInv, NEW u \in Updates
  PROVE  /\ Left(u) \in 0..2 /\ Limit \in 1..2
         /\ prompts[u] \in Nat /\ turns[u] \in Nat
BY DEF Left, Limit, DirectInv, Types

\* A step that sends nothing and leaves no more to be sent.
LEMMA PromptKept ==
  ASSUME DirectInv, DirectInv', PromptInv, UNCHANGED <<mode, turns, prompts>>,
         \A u \in Updates : Left(u)' <= Left(u)
  PROVE  PromptInv'
<1>1. Limit' = Limit
  BY DEF Limit
<1>2. ASSUME NEW u \in Updates PROVE prompts[u] + Left(u)' <= Limit * turns[u]
  <2>1. Left(u)' \in Nat
    BY DEF Left
  <2>. DEFINE due == Limit * turns[u]
  <2>2. due \in Nat /\ prompts[u] \in Nat /\ Left(u) \in Nat
    BY <1>2, LeftIs
  <2>3. prompts[u] + Left(u) <= due
    BY <1>2 DEF PromptInv
  <2>. HIDE DEF due
  <2>4. prompts[u] + Left(u)' <= due
    BY <1>2, <2>1, <2>2, <2>3
  <2>. QED
    BY <2>4 DEF due
<1>. QED
  BY <1>1, <1>2 DEF PromptInv

LEMMA PromptTake ==
  ASSUME DirectInv, DirectInv', PromptInv, takeUpdate
  PROVE  PromptInv'
<1>1. PICK w \in batch :
        LET s == IF mode = "oneshot" THEN 0 ELSE existing(chatOf(w))
        IN /\ Passed(w)
           /\ turn' = [NoTurn EXCEPT !.update = w, !.session = s]
           /\ phase' = IF s = 0 THEN "create" ELSE "post"
           /\ turns' = [turns EXCEPT ![w] = @ + 1]
  BY DEF takeUpdate, Passed
<1>2. /\ phase = "each" /\ mode' = mode /\ prompts' = prompts
      /\ turn'.update = w /\ turn'.retried = FALSE /\ phase' \in {"create", "post"}
  BY <1>1 DEF takeUpdate, On, serverVars, NoTurn
<1>3. ASSUME NEW u \in Updates PROVE prompts'[u] + Left(u)' <= Limit' * turns'[u]
  <2>1. Left(u) = 0 /\ Left(u)' = (IF u = w THEN Limit ELSE 0) /\ Limit' = Limit
    BY <1>2 DEF Left, Limit, Again, Between
  <2>2. turns'[u] = IF u = w THEN turns[u] + 1 ELSE turns[u]
    BY <1>1, <1>3 DEF DirectInv, Types
  <2>3. prompts[u] \in Nat /\ turns[u] \in Nat
    BY <1>3, LeftIs
  <2>4. prompts[u] <= Limit * turns[u]
    BY <1>3, <2>1, <2>3 DEF PromptInv
  <2>5. CASE mode = "per-chat"
    <3>1. Limit = 2
      BY <2>5 DEF Limit
    <3>. QED
      BY <1>2, <2>1, <2>2, <2>3, <2>4, <3>1
  <2>6. CASE mode # "per-chat"
    <3>1. Limit = 1
      BY <2>6 DEF Limit
    <3>. QED
      BY <1>2, <2>1, <2>2, <2>3, <2>4, <3>1
  <2>. QED
    BY <2>5, <2>6
<1>. QED
  BY <1>3 DEF PromptInv

LEMMA PromptAccept ==
  ASSUME DirectInv, DirectInv', PromptInv, promptAccepted
  PROVE  PromptInv'
<1>1. /\ phase = "post" /\ phase' = "answer" /\ UNCHANGED <<mode, turn, turns>>
      /\ prompts' = [prompts EXCEPT ![turn.update] = @ + 1]
  BY DEF promptAccepted, On, loopVars
<1>2. ASSUME NEW u \in Updates PROVE prompts'[u] + Left(u)' = prompts[u] + Left(u)
  <2>1. prompts'[u] = IF u = turn.update THEN prompts[u] + 1 ELSE prompts[u]
    BY <1>1, <1>2 DEF DirectInv, Types
  <2>2. Left(u) = IF u = turn.update THEN Left(u)' + 1 ELSE Left(u)'
    BY <1>1 DEF Left, Again, Between
  <2>3. prompts[u] \in Nat /\ Left(u)' \in Nat
    BY <1>2, LeftIs DEF Left
  <2>. QED
    BY <2>1, <2>2, <2>3
<1>3. Limit' = Limit
  BY <1>1 DEF Limit
<1>. QED
  BY <1>1, <1>2, <1>3 DEF PromptInv

\* Every other step moves the turn on or ends it.
LEMMA PromptMoves ==
  ASSUME DirectInv, DirectInv', PromptInv,
         \/ createSession \/ createSessionThrows \/ promptThrows \/ readThrows
         \/ sendTelegramMessageThrows \/ promptReturns \/ readMessages
         \/ promptReturnsOther \/ waitForIdle \/ deleteSession \/ createSessionLost
  PROVE  PromptInv'
<1>1. UNCHANGED <<mode, turns, prompts>> /\ turn'.update = turn.update
  BY DEF createSession, createSessionThrows, promptThrows, readThrows,
         sendTelegramMessageThrows, promptReturns, readMessages, promptReturnsOther,
         waitForIdle, deleteSession, createSessionLost, promptFails, Replied, loopVars,
         serverVars, DirectInv, Types, Turns
<1>2. phase \notin Between /\ phase' \notin Between
  BY DEF createSession, createSessionThrows, promptThrows, readThrows,
         sendTelegramMessageThrows, promptReturns, readMessages, promptReturnsOther,
         waitForIdle, deleteSession, createSessionLost, promptFails, Replied, On, Between
<1>3. \/ /\ turn'.retried = turn.retried
         /\ phase' \in {"create", "post"} => phase \in {"create", "post"}
         /\ phase = "apology" => phase' = "apology"
      \/ phase' = "apology"
      \/ ~ turn.retried /\ turn'.retried /\ phase' = "create" /\ phase # "apology"
         /\ mode = "per-chat"
  BY DEF createSession, createSessionThrows, promptThrows, readThrows,
         sendTelegramMessageThrows, promptReturns, readMessages, promptReturnsOther,
         waitForIdle, deleteSession, createSessionLost, promptFails, Replied, On, DirectInv,
         Types, Turns
<1>4. \A u \in Updates : Left(u)' <= Left(u)
  BY <1>1, <1>2, <1>3 DEF Left, Again
<1>. QED
  BY <1>1, <1>4, PromptKept

LEMMA PromptRests ==
  ASSUME DirectInv, DirectInv', PromptInv,
         \/ directStarts \/ directFetches \/ directFetchThrows \/ batchDone \/ skipUpdate
         \/ directDies \/ sendTelegramMessage \/ apologise
         \/ \E s \in DOMAIN sessions : serverAnswers(s) \/ serverDropsSession(s)
         \/ Send /\ UNCHANGED directVars
         \/ UNCHANGED directAll
  PROVE  PromptInv'
<1>1. UNCHANGED <<mode, turns, prompts>> /\ (UNCHANGED <<phase, turn>> \/ phase' \in Between)
  BY DEF directStarts, directFetches, directFetchThrows, batchDone, skipUpdate,
         directDies, sendTelegramMessage, apologise, serverAnswers, serverDropsSession,
         directAll, directVars, loopVars, serverVars, Between
<1>2. \A u \in Updates : Left(u)' <= Left(u)
  BY <1>1 DEF Left, Again
<1>. QED
  BY <1>1, <1>2, PromptKept

LEMMA PromptStep ==
  ASSUME DirectInv, DirectInv', PromptInv,
         [DirectNext \/ (Send /\ UNCHANGED directVars)]_directAll
  PROVE  PromptInv'
BY Steps, PromptTake, PromptAccept, PromptMoves, PromptRests

\* One life of the process takes an update up once and sends its text once,
\* in per-chat mode once more after a failure: neither a batch that is fetched
\* again nor a session that has to be replaced adds to that; only a restart,
\* which forgets the offset, begins again (x1/direct-chatbot.ts:471-476, :572).
THEOREM PromptsAreBounded == DirectSpec => []PromptsBounded
<1>1. TelegramInit /\ DirectInit => BoundInv /\ PromptInv
  <2>. SUFFICES ASSUME TelegramInit, DirectInit PROVE BoundInv /\ PromptInv
    OBVIOUS
  <2>1. BoundInv
    BY DEF TelegramInit, DirectInit, BoundInv, Updates
  <2>2. PromptInv
    BY DEF DirectInit, PromptInv, Left, Limit, Between
  <2>. QED
    BY <2>1, <2>2
<1>2. DirectInv /\ DirectInv' /\ BoundInv /\ PromptInv
        /\ [DirectNext \/ (Send /\ UNCHANGED directVars)]_directAll
      => BoundInv' /\ PromptInv'
  BY BoundStep, PromptStep
<1>3. ASSUME DirectInv, BoundInv, PromptInv PROVE PromptsBounded
  <2>1. ASSUME NEW u \in Updates
        PROVE  /\ turns[u] <= 1 + deaths
               /\ prompts[u] <= Limit * turns[u]
    <3>1. turns[u] \in Nat /\ prompts[u] \in Nat /\ Left(u) \in Nat /\ Limit \in Nat
      BY <1>3, <2>1, LeftIs
    <3>2. deaths \in Nat
      BY <1>3 DEF DirectInv, Types, TelegramTypeOK
    <3>3. turns[u] <= 1 + deaths
      BY <1>3, <2>1, <3>1, <3>2 DEF BoundInv
    <3>. DEFINE due == Limit * turns[u]
    <3>4. due \in Nat /\ prompts[u] + Left(u) <= due
      BY <1>3, <2>1, <3>1 DEF PromptInv
    <3>. HIDE DEF due
    <3>5. prompts[u] <= due
      BY <3>1, <3>4
    <3>. QED
      BY <3>3, <3>5 DEF due
  <2>. QED
    BY <2>1 DEF PromptsBounded, Limit
<1>. QED
  BY <1>1, <1>2, <1>3, InvAlways, PTL DEF DirectSpec

-----------------------------------------------------------------------------
(* What Telegram has been told. *)

Dealt(u) == Answerable(u) => turns[u] > 0

\* What is no longer pending, what lies before the offset and what the batch
\* has left out up to any of its updates was taken up, or needs no answer.
TakenInv ==
  front = "direct" =>
    /\ \A u \in 1..Len(sent) : u \in pending \/ Dealt(u)
    /\ \A u \in 1..Len(sent) : u < offset => Dealt(u)
    /\ \A w \in batch : \A u \in 1..Len(sent) :
         offset <= u /\ u <= w => u \in batch \/ Dealt(u)

\* Nothing in Telegram's answer is missing before its last update.
LEMMA AnswerHasNoGap ==
  ASSUME DirectInv, NEW w \in Answer(offset), NEW u \in Unconfirmed(offset), u <= w
  PROVE  u \in Answer(offset)
<1>. DEFINE Upto(k) == {v \in Unconfirmed(offset) : v <= k}
<1>1. \A v \in Unconfirmed(offset) : v \in 1..Len(sent)
  BY Zenon DEF DirectInv, Types, TelegramTypeOK, Unconfirmed
<1>2. Len(sent) \in Nat
  BY DEF DirectInv, Types, TelegramTypeOK
<1>3. w \in Unconfirmed(offset) /\ Cardinality(Upto(w)) <= PollLimit
  BY DEF Answer
<1>4. Upto(u) \subseteq Upto(w) /\ Upto(w) \subseteq 1..Len(sent)
  <2>1. \A v \in Unconfirmed(offset) : v <= u => v <= w
    BY <1>1, <1>2, <1>3
  <2>2. Upto(u) \subseteq Upto(w)
    BY <2>1, Zenon
  <2>3. Upto(w) \subseteq 1..Len(sent)
    BY <1>1, Zenon
  <2>. QED
    BY <2>2, <2>3
<1>5. IsFiniteSet(Upto(w))
  <2>1. IsFiniteSet(1..Len(sent))
    BY <1>2, FS_Interval
  <2>. HIDE DEF Upto
  <2>. QED
    BY <1>4, <2>1, FS_Subset
<1>6. Cardinality(Upto(u)) <= Cardinality(Upto(w)) /\ IsFiniteSet(Upto(u))
  BY <1>4, <1>5, FS_Subset
<1>7. Cardinality(Upto(u)) \in Nat /\ Cardinality(Upto(w)) \in Nat /\ PollLimit \in Nat
  BY <1>5, <1>6, FS_CardinalityType, Constants
<1>8. Cardinality(Upto(u)) <= PollLimit
  BY <1>3, <1>6, <1>7
<1>. QED
  BY <1>8 DEF Answer

LEMMA DealtKept ==
  ASSUME NEW u, sent'[u] = sent[u], turns'[u] = turns[u]
  PROVE  Dealt(u)' <=> Dealt(u)
BY DEF Dealt, Answerable, chatOf, allowedByUserId

LEMMA TakenKept ==
  ASSUME TakenInv, UNCHANGED <<front, sent, pending, offset, batch, turns>>
  PROVE  TakenInv'
BY DealtKept DEF TakenInv

LEMMA TakenFetch ==
  ASSUME DirectInv, TakenInv, directFetches \/ directFetchThrows
  PROVE  TakenInv'
<1>1. UNCHANGED <<front, sent, offset, turns>> /\ front = "direct"
  BY DEF directFetches, directFetchThrows, fetchUpdates, fetchThrows, pollVars, directVars,
         On
<1>2. \A u : Dealt(u)' <=> Dealt(u)
  BY <1>1, DealtKept
<1>3. Len(sent) \in Nat /\ offset \in Nat
  BY DEF DirectInv, Types, TelegramTypeOK
<1>4. pending' = pending \/ pending' = Unconfirmed(offset)
  BY DEF directFetches, directFetchThrows, fetchUpdates, fetchThrows
<1>5. ASSUME NEW u \in 1..Len(sent) PROVE u \in pending' \/ Dealt(u)
  BY <1>1, <1>3, <1>4, <1>5 DEF TakenInv, Unconfirmed
<1>6. ASSUME NEW w \in batch', NEW u \in 1..Len(sent), offset <= u, u <= w
      PROVE  u \in batch' \/ Dealt(u)
  <2>1. CASE batch' = batch
    BY <1>1, <1>6, <2>1 DEF TakenInv
  <2>2. CASE batch' = Answer(offset)
    <3>1. CASE u \in pending
      <4>1. u \in Unconfirmed(offset)
        BY <1>3, <1>6, <3>1 DEF Unconfirmed
      <4>. QED
        BY <1>6, <2>2, <4>1, AnswerHasNoGap
    <3>. QED
      BY <1>1, <1>6, <3>1 DEF TakenInv
  <2>. QED
    BY <2>1, <2>2 DEF directFetches, directFetchThrows, fetchUpdates, fetchThrows, pollVars
<1>. QED
  BY <1>1, <1>2, <1>5, <1>6 DEF TakenInv

\* The loop moves past an update that it takes up or that needs no answer.
LEMMA TakenPassed ==
  ASSUME DirectInv, BoundInv, TakenInv, front = "direct", NEW u, Passed(u), Dealt(u)',
         \A v \in Updates : v # u => turns'[v] = turns[v]
  PROVE  TakenInv'
<1>1. /\ UNCHANGED <<front, sent, pending>> /\ batch' = batch \ {u} /\ offset' = u + 1
      /\ u \in 1..Len(sent) /\ u \in Nat /\ offset \in Nat /\ offset <= u
  BY PassedTypes, BoundPassed DEF Passed, DirectInv, Types
<1>2. /\ Len(sent) \in Nat /\ batch \subseteq 1..Len(sent)
      /\ \A v \in 1..Len(sent) : v \in Updates
  BY Constants DEF DirectInv, Types, TelegramTypeOK, Updates
<1>3. \A v \in 1..Len(sent) : Dealt(v) => Dealt(v)'
  <2>1. ASSUME NEW v \in 1..Len(sent), v # u PROVE Dealt(v)' <=> Dealt(v)
    BY <1>1, <1>2, <2>1, DealtKept
  <2>. QED
    BY <2>1
<1>4. \A v \in 1..Len(sent) : v \in pending' \/ Dealt(v)'
  BY <1>1, <1>3 DEF TakenInv
<1>5. ASSUME NEW v \in 1..Len(sent), v < u + 1 PROVE Dealt(v)'
  <2>1. v \in Nat /\ (v < offset \/ (offset <= v /\ v <= u))
    BY <1>1, <1>2, <1>5
  <2>2. CASE v < offset
    BY <1>3, <2>2 DEF TakenInv
  <2>3. CASE offset <= v /\ v <= u
    <3>1. v \in batch \/ Dealt(v)
      BY <1>5, <2>3 DEF TakenInv, Passed
    <3>2. v \in batch => v = u
      BY <1>1, <1>2, <2>1, <2>3 DEF Passed, IsNext
    <3>. QED
      BY <1>3, <1>5, <3>1, <3>2
  <2>. QED
    BY <2>1, <2>2, <2>3
<1>6. ASSUME NEW w \in batch', NEW v \in 1..Len(sent), u + 1 <= v, v <= w
      PROVE  v \in batch' \/ Dealt(v)'
  <2>1. w \in batch /\ offset <= v /\ v # u
    BY <1>1, <1>2, <1>6
  <2>2. v \in batch \/ Dealt(v)
    BY <1>6, <2>1 DEF TakenInv
  <2>. QED
    BY <1>1, <1>3, <1>6, <2>1, <2>2
<1>. QED
  BY <1>1, <1>4, <1>5, <1>6 DEF TakenInv

LEMMA TakenSkip ==
  ASSUME DirectInv, BoundInv, TakenInv, skipUpdate
  PROVE  TakenInv'
<1>1. PICK u \in batch : Passed(u) /\ ~ Answerable(u)
  BY DEF skipUpdate, Passed
<1>2. front = "direct" /\ turns' = turns /\ sent' = sent
  BY DEF skipUpdate, On, directVars, telegramVars
<1>3. Dealt(u)'
  BY <1>1, <1>2, DealtKept DEF Dealt
<1>. QED
  BY <1>1, <1>2, <1>3, TakenPassed

LEMMA TakenTake ==
  ASSUME DirectInv, BoundInv, TakenInv, takeUpdate
  PROVE  TakenInv'
<1>1. PICK u \in batch : Passed(u) /\ turns' = [turns EXCEPT ![u] = @ + 1]
  BY DEF takeUpdate, Passed
<1>2. front = "direct" /\ u \in Updates /\ turns \in [Updates -> Nat]
  BY <1>1, BoundPassed DEF takeUpdate, On, DirectInv, Types
<1>3. turns'[u] = turns[u] + 1 /\ turns[u] \in Nat
  BY <1>1, <1>2
<1>4. Dealt(u)'
  BY <1>3 DEF Dealt
<1>5. \A v \in Updates : v # u => turns'[v] = turns[v]
  BY <1>1, <1>2
<1>. QED
  BY <1>1, <1>2, <1>4, <1>5, TakenPassed

LEMMA TakenDies ==
  ASSUME DirectInv, TakenInv, directDies
  PROVE  TakenInv'
<1>1. UNCHANGED <<front, sent, pending, turns>> /\ offset' = 0 /\ batch' = {}
  BY DEF directDies, Dies, telegramVars
<1>2. \A u \in 1..Len(sent) : ~ (u < 0)
  BY DEF DirectInv, Types, TelegramTypeOK
<1>. QED
  BY <1>1, <1>2, DealtKept DEF TakenInv

\* The new update is pending, and lies after all the batch holds.
LEMMA TakenSend ==
  ASSUME DirectInv, TakenInv, Send, UNCHANGED directVars
  PROVE  TakenInv'
<1>. SUFFICES ASSUME front' = "direct" PROVE TakenInv'
  BY DEF TakenInv
<1>1. /\ Len(sent') = Len(sent) + 1 /\ Len(sent) \in Nat
      /\ \A u \in 1..Len(sent) : sent'[u] = sent[u]
  BY Written DEF DirectInv, Types
<1>2. /\ UNCHANGED <<front, offset, batch, turns>> /\ pending' = pending \cup {Len(sent) + 1}
      /\ front = "direct"
  BY DEF Send, pollVars, directVars
<1>3. \A u \in 1..Len(sent) : Dealt(u)' <=> Dealt(u)
  BY <1>1, <1>2, DealtKept
<1>4. \A u \in 1..Len(sent') : u \in 1..Len(sent) \/ u = Len(sent) + 1
  BY <1>1
<1>5. offset \in 0..(Len(sent) + 1) /\ batch \subseteq 1..Len(sent)
  BY DEF DirectInv, Types, TelegramTypeOK
<1>6. \A u \in 1..Len(sent') : u \in pending' \/ Dealt(u)'
  BY <1>2, <1>3, <1>4 DEF TakenInv
<1>7. ASSUME NEW u \in 1..Len(sent'), u < offset PROVE Dealt(u)'
  <2>1. u \in 1..Len(sent)
    BY <1>1, <1>4, <1>5, <1>7
  <2>. QED
    BY <1>2, <1>3, <1>7, <2>1 DEF TakenInv
<1>8. ASSUME NEW w \in batch, NEW u \in 1..Len(sent'), offset <= u, u <= w
      PROVE  u \in batch \/ Dealt(u)'
  <2>1. u \in 1..Len(sent)
    BY <1>1, <1>4, <1>5, <1>8
  <2>. QED
    BY <1>2, <1>3, <1>8, <2>1 DEF TakenInv
<1>. QED
  BY <1>2, <1>6, <1>7, <1>8 DEF TakenInv

LEMMA TakenStep ==
  ASSUME DirectInv, BoundInv, TakenInv,
         [DirectNext \/ (Send /\ UNCHANGED directVars)]_directAll
  PROVE  TakenInv'
BY Steps, Inside, TakenKept, TakenFetch, TakenSkip, TakenTake, TakenDies, TakenSend

\* No restart, no request that fails on its way and no batch that a death cuts
\* short moves the offset past an update nobody took up
\* (x1/direct-chatbot.ts:572).
THEOREM NothingConfirmedUntaken == DirectSpec => []ConfirmedIsTakenUp
<1>1. TelegramInit /\ DirectInit => BoundInv /\ TakenInv
  BY DEF TelegramInit, DirectInit, BoundInv, TakenInv, Updates
<1>2. DirectInv /\ BoundInv /\ TakenInv
        /\ [DirectNext \/ (Send /\ UNCHANGED directVars)]_directAll
      => BoundInv' /\ TakenInv'
  BY BoundStep, TakenStep
<1>3. DirectInv /\ TakenInv => ConfirmedIsTakenUp
  BY DEF DirectInv, Types, TelegramTypeOK, TakenInv, ConfirmedIsTakenUp, Dealt
<1>. QED
  BY <1>1, <1>2, <1>3, InvAlways, PTL DEF DirectSpec

-----------------------------------------------------------------------------
(* No chat hears what was said in another. *)

\* Update u was sent, in chat c.
Told(u, c) == u \in 1..Len(sent) /\ chatOf(u) = c

\* All a session holds, and all it has still to answer, is of one chat.
SaysOnly(s, c) ==
  /\ \A i \in DOMAIN sessions[s].log : Told(sessions[s].log[i].of, c)
  /\ \A i \in DOMAIN sessions[s].todo : Told(sessions[s].todo[i], c)

Kept(c) == c \in DOMAIN chatSessions

\* A session kept for a chat holds what is of that chat and is kept for no
\* other; so does the session in hand, which may be kept for none.
ApartInv ==
  /\ \A a \in said : a.update \in 1..Len(sent) /\ Told(a.of, chatOf(a.update))
  /\ \A c \in DOMAIN chatSessions : SaysOnly(chatSessions[c], c)
  /\ \A c, d \in DOMAIN chatSessions : chatSessions[c] = chatSessions[d] => c = d
  /\ phase \in Talking =>
       /\ SaysOnly(turn.session, chatOf(turn.update))
       /\ \A c \in DOMAIN chatSessions :
            chatSessions[c] = turn.session => c = chatOf(turn.update)

LEMMA ToldKept ==
  ASSUME DirectInv, sent' = sent \/ Send, NEW u, NEW c, Told(u, c)
  PROVE  Told(u, c)'
<1>1. CASE sent' = sent
  BY <1>1 DEF Told, chatOf
<1>2. CASE Send
  BY <1>2, Written DEF Told, chatOf, DirectInv, Types
<1>. QED
  BY <1>1, <1>2

LEMMA SaysKept ==
  ASSUME DirectInv, sent' = sent \/ Send, NEW s, NEW c, SaysOnly(s, c),
         sessions'[s] = sessions[s]
  PROVE  SaysOnly(s, c)'
BY ToldKept DEF SaysOnly

\* An answer is to what the session had still to answer.
LEMMA SaysAnswers ==
  ASSUME DirectInv, sent' = sent, NEW s \in DOMAIN sessions, NEW c, SaysOnly(s, c),
         sessions[s].todo # <<>>, sessions'[s] = AnswersHead(s)
  PROVE  SaysOnly(s, c)'
<1>. DEFINE log == sessions[s].log
            todo == sessions[s].todo
            entry == [role |-> "assistant", of |-> Head(todo)]
<1>1. log \in Seq(Entries) /\ todo \in Seq(Nat)
  BY RecordTypes DEF DirectInv, Types, Records
<1>2. \A u : Told(u, c) => Told(u, c)'
  BY ToldKept
<1>3. sessions'[s].log = Append(log, entry) /\ sessions'[s].todo = Tail(todo)
  BY DEF AnswersHead
<1>4. Told(entry.of, c)
  BY <1>1 DEF SaysOnly
<1>5. (\A i \in DOMAIN log : Told(log[i].of, c)) /\ (\A i \in DOMAIN todo : Told(todo[i], c))
  BY DEF SaysOnly
<1>6. entry \in [role: {"assistant"}, of: Nat]
  BY <1>1
<1>. HIDE DEF log, todo, entry
<1>7. \A i \in DOMAIN Append(log, entry) :
        \/ i \in DOMAIN log /\ Append(log, entry)[i] = log[i]
        \/ Append(log, entry)[i] = entry
  BY <1>1
<1>8. todo # <<>>
  BY DEF todo
<1>9. \A i \in DOMAIN Tail(todo) : i + 1 \in DOMAIN todo /\ Tail(todo)[i] = todo[i + 1]
  BY <1>1, <1>8
<1>. QED
  BY <1>2, <1>3, <1>4, <1>5, <1>7, <1>9 DEF SaysOnly

LEMMA SaysClosed ==
  ASSUME DirectInv, sent' = sent, NEW s \in DOMAIN sessions, NEW c, SaysOnly(s, c),
         sessions'[s] = Closed(s)
  PROVE  SaysOnly(s, c)'
BY ToldKept DEF SaysOnly, Closed

LEMMA SaysPrompted ==
  ASSUME DirectInv, sent' = sent, NEW s \in DOMAIN sessions, NEW c, SaysOnly(s, c),
         NEW u, Told(u, c), sessions'[s] = Prompted(s, u)
  PROVE  SaysOnly(s, c)'
<1>. DEFINE log == sessions[s].log
            todo == sessions[s].todo
            entry == [role |-> "user", of |-> u]
<1>1. log \in Seq(Entries) /\ todo \in Seq(Nat)
  BY RecordTypes DEF DirectInv, Types, Records
<1>2. \A v : Told(v, c) => Told(v, c)'
  BY ToldKept
<1>3. sessions'[s].log = Append(log, entry) /\ sessions'[s].todo = Append(todo, u)
  BY DEF Prompted
<1>4. entry.of = u
  OBVIOUS
<1>5. (\A i \in DOMAIN log : Told(log[i].of, c)) /\ (\A i \in DOMAIN todo : Told(todo[i], c))
  BY DEF SaysOnly
<1>. HIDE DEF log, todo, entry
<1>6. \A i \in DOMAIN Append(log, entry) :
        \/ i \in DOMAIN log /\ Append(log, entry)[i] = log[i]
        \/ Append(log, entry)[i] = entry
  BY <1>1
<1>7. \A i \in DOMAIN Append(todo, u) :
        \/ i \in DOMAIN todo /\ Append(todo, u)[i] = todo[i]
        \/ Append(todo, u)[i] = u
  BY <1>1
<1>. QED
  BY <1>2, <1>3, <1>4, <1>5, <1>6, <1>7 DEF SaysOnly

\* A step that says nothing, keeps no further session and takes none in hand.
LEMMA ApartKept ==
  ASSUME DirectInv, ApartInv, sent' = sent \/ Send, said' = said,
         \A s \in DOMAIN sessions : \A c : SaysOnly(s, c) => SaysOnly(s, c)',
         \A c \in DOMAIN chatSessions' : Kept(c) /\ chatSessions'[c] = chatSessions[c],
         phase' \in Talking =>
           phase \in Talking /\ turn'.session = turn.session /\ turn'.update = turn.update
  PROVE  ApartInv'
<1>1. DOMAIN sessions = 1..Len(sessions)
  BY DEF DirectInv, Types
<1>2. ASSUME NEW a \in said'
      PROVE  a.update \in 1..Len(sent') /\ Told(a.of, chatOf(a.update))'
  <2>1. PICK c : Told(a.update, c) /\ Told(a.of, c)
    BY <1>2 DEF ApartInv, Told
  <2>2. Told(a.update, c)' /\ Told(a.of, c)'
    BY <2>1, ToldKept
  <2>. QED
    BY <2>2 DEF Told
<1>3. ASSUME NEW c \in DOMAIN chatSessions' PROVE SaysOnly(chatSessions[c], c)'
  <2>1. PICK s \in DOMAIN sessions : s = chatSessions[c] /\ SaysOnly(s, c)
    BY <1>1, <1>3 DEF ApartInv, DirectInv, Types, Kept
  <2>2. SaysOnly(s, c)'
    BY <2>1
  <2>3. chatSessions'[c] = s
    BY <1>3, <2>1
  <2>. QED
    BY <2>2, <2>3
<1>4. ASSUME phase' \in Talking
      PROVE  /\ SaysOnly(turn.session, chatOf(turn.update))'
             /\ \A c \in DOMAIN chatSessions' :
                  chatSessions'[c] = turn'.session => c = chatOf(turn.update)'
  <2>1. PICK s \in DOMAIN sessions : s = turn.session
    BY <1>4, InHand DEF Talking, Between
  <2>2. PICK u : u = turn.update
    OBVIOUS
  <2>3. PICK c : c = chatOf(u)
    OBVIOUS
  <2>4. Told(u, c) /\ SaysOnly(s, c)
    BY <1>4, <2>1, <2>2, <2>3, InHand DEF ApartInv, Told, Talking, Between
  <2>5. Told(u, c)' /\ SaysOnly(s, c)'
    BY <2>4, ToldKept
  <2>6. chatOf(turn.update)' = c /\ turn'.session = s
    BY <1>4, <2>1, <2>2, <2>5 DEF Told, chatOf
  <2>7. \A d \in DOMAIN chatSessions : chatSessions[d] = s => d = c
    BY <1>4, <2>1, <2>2, <2>3 DEF ApartInv
  <2>8. SaysOnly(turn.session, chatOf(turn.update))'
    BY <2>5, <2>6
  <2>. QED
    BY <2>6, <2>7, <2>8 DEF Kept
<1>5. \A c, d \in DOMAIN chatSessions' : chatSessions'[c] = chatSessions'[d] => c = d
  BY DEF ApartInv, Kept
<1>6. phase' \in Talking =>
        /\ SaysOnly(turn.session, chatOf(turn.update))'
        /\ \A c \in DOMAIN chatSessions' :
             chatSessions'[c] = turn'.session => c = chatOf(turn.update)'
  BY <1>4
<1>. QED
  BY <1>2, <1>3, <1>5, <1>6 DEF ApartInv

LEMMA ApartRests ==
  ASSUME DirectInv, ApartInv,
         \/ directStarts \/ directFetches \/ directFetchThrows \/ batchDone \/ skipUpdate
         \/ createSessionThrows \/ promptThrows \/ readThrows \/ sendTelegramMessageThrows
         \/ promptReturns \/ readMessages \/ promptReturnsOther \/ waitForIdle
         \/ apologise \/ directDies
         \/ Send /\ UNCHANGED directVars
         \/ UNCHANGED directAll
  PROVE  ApartInv'
<1>1. /\ sent' = sent \/ Send
      /\ said' = said /\ sessions' = sessions
  BY DEF directStarts, directFetches, directFetchThrows, batchDone, skipUpdate,
         createSessionThrows, promptThrows, readThrows, sendTelegramMessageThrows,
         promptReturns, readMessages, promptReturnsOther, waitForIdle, apologise,
         directDies, fetchUpdates, fetchThrows, Dies,
         directAll, directVars, loopVars, telegramVars, serverVars
<1>2. \A c \in DOMAIN chatSessions' : Kept(c) /\ chatSessions'[c] = chatSessions[c]
  BY DEF directStarts, directFetches, directFetchThrows, batchDone, skipUpdate,
         createSessionThrows, promptThrows, readThrows, sendTelegramMessageThrows,
         promptReturns, readMessages, promptReturnsOther, waitForIdle, apologise,
         directDies, directAll, directVars, promptFails, Kept
<1>3. phase' \in Talking =>
        phase \in Talking /\ turn'.session = turn.session /\ turn'.update = turn.update
  BY DEF directStarts, directFetches, directFetchThrows, batchDone, skipUpdate,
         createSessionThrows, promptThrows, readThrows, sendTelegramMessageThrows,
         promptReturns, readMessages, promptReturnsOther, waitForIdle, apologise,
         directDies, directAll, directVars, promptFails, Replied, Talking, On,
         DirectInv, Types, Turns
<1>4. \A s \in DOMAIN sessions : \A c : SaysOnly(s, c) => SaysOnly(s, c)'
  BY <1>1, SaysKept
<1>. QED
  BY <1>1, <1>2, <1>3, <1>4, ApartKept

LEMMA ApartSessions ==
  ASSUME DirectInv, ApartInv,
         \/ deleteSession
         \/ \E s \in DOMAIN sessions : serverAnswers(s) \/ serverDropsSession(s)
  PROVE  ApartInv'
<1>1. /\ sent' = sent /\ said' = said /\ turn' = turn /\ chatSessions' = chatSessions
      /\ phase' \in Talking => phase \in Talking
  BY DEF deleteSession, serverAnswers, serverDropsSession, On, loopVars, telegramVars,
         Talking
<1>2. PICK s \in DOMAIN sessions :
        /\ \A j \in DOMAIN sessions : j # s => sessions'[j] = sessions[j]
        /\ \/ sessions'[s] = AnswersHead(s) /\ sessions[s].todo # <<>>
           \/ sessions'[s] = Closed(s)
           \/ sessions'[s] = sessions[s]
  <2>1. CASE deleteSession
    <3>1. turn.session \in DOMAIN sessions
      BY <2>1, InHand DEF deleteSession, On, Talking, Between
    <3>2. CASE sessions' = [sessions EXCEPT ![turn.session].alive = FALSE,
                                            ![turn.session].todo = <<>>]
      <4>1. /\ sessions' = [sessions EXCEPT ![turn.session] = Closed(turn.session)]
            /\ Closed(turn.session) \in Records
        BY <3>1, <3>2, CloseChanges
      <4>2. /\ sessions'[turn.session] = Closed(turn.session)
            /\ \A j \in DOMAIN sessions : j # turn.session => sessions'[j] = sessions[j]
        BY <3>1, <4>1, SessionChanges DEF DirectInv, Types
      <4>. QED
        BY <3>1, <4>2
    <3>3. CASE sessions' = sessions
      BY <3>1, <3>3
    <3>. QED
      BY <2>1, <3>2, <3>3 DEF deleteSession
  <2>2. CASE \E s \in DOMAIN sessions : serverAnswers(s) \/ serverDropsSession(s)
    BY <2>2, ServerChanges
  <2>. QED
    BY <2>1, <2>2
<1>3. ASSUME NEW j \in DOMAIN sessions, NEW c, SaysOnly(j, c) PROVE SaysOnly(j, c)'
  BY <1>1, <1>2, <1>3, SaysKept, SaysAnswers, SaysClosed
<1>. QED
  BY <1>1, <1>3, ApartKept DEF Kept

\* The session a chat has is taken in hand for that chat.
LEMMA ApartTake ==
  ASSUME DirectInv, ApartInv, takeUpdate
  PROVE  ApartInv'
<1>1. PICK u \in batch :
        LET s == IF mode = "oneshot" THEN 0 ELSE existing(chatOf(u))
        IN /\ turn' = [NoTurn EXCEPT !.update = u, !.session = s]
           /\ phase' = IF s = 0 THEN "create" ELSE "post"
  BY DEF takeUpdate
<1>2. UNCHANGED <<sent, said, sessions, chatSessions>>
  BY DEF takeUpdate, telegramVars, serverVars
<1>3. \A s, c : SaysOnly(s, c)' <=> SaysOnly(s, c)
  BY <1>2 DEF SaysOnly, Told, chatOf
<1>4. ASSUME phase' \in Talking
      PROVE  /\ Kept(chatOf(u)) /\ turn'.update = u
             /\ turn'.session = chatSessions[chatOf(u)]
  BY <1>1, <1>4 DEF existing, Kept, Talking, NoTurn
<1>5. phase' \in Talking =>
        /\ SaysOnly(turn.session, chatOf(turn.update))'
        /\ \A c \in DOMAIN chatSessions :
             chatSessions[c] = turn'.session => c = chatOf(turn.update)'
  <2>. SUFFICES ASSUME phase' \in Talking
                PROVE  /\ SaysOnly(turn.session, chatOf(turn.update))'
                       /\ \A c \in DOMAIN chatSessions :
                            chatSessions[c] = turn'.session => c = chatOf(turn.update)'
    OBVIOUS
  <2>1. PICK c : c = chatOf(u)
    OBVIOUS
  <2>2. PICK s : s = chatSessions[c]
    OBVIOUS
  <2>3. Kept(c) /\ turn'.session = s /\ chatOf(turn.update)' = c
    BY <1>2, <1>4, <2>1, <2>2 DEF chatOf
  <2>4. SaysOnly(s, c)'
    BY <1>3, <2>2, <2>3 DEF ApartInv, Kept
  <2>5. \A d \in DOMAIN chatSessions : chatSessions[d] = s => d = c
    BY <2>2, <2>3 DEF ApartInv, Kept
  <2>. QED
    BY <2>3, <2>4, <2>5
<1>6. \A a \in said' : a.update \in 1..Len(sent') /\ Told(a.of, chatOf(a.update))'
  BY <1>2 DEF ApartInv, Told, chatOf
<1>7. /\ \A c \in DOMAIN chatSessions' : SaysOnly(chatSessions[c], c)'
      /\ \A c, d \in DOMAIN chatSessions' : chatSessions'[c] = chatSessions'[d] => c = d
  BY <1>2 DEF ApartInv, SaysOnly, Told, chatOf
<1>. QED
  BY <1>2, <1>5, <1>6, <1>7 DEF ApartInv

\* A new session holds nothing, and is no session kept before.
LEMMA ApartCreate ==
  ASSUME DirectInv, ApartInv, createSession
  PROVE  ApartInv'
<1>1. PICK s : s = Len(sessions) + 1
  OBVIOUS
<1>2. PICK u : u = turn.update
  OBVIOUS
<1>3. PICK x : x = chatOf(u)
  OBVIOUS
<1>4. /\ sessions' = Append(sessions, Session(<<>>, <<>>)) /\ turn \in Turns
      /\ UNCHANGED <<sent, said>> /\ phase = "create"
      /\ turn' = [turn EXCEPT !.session = s]
  BY <1>1 DEF createSession, On, loopVars, telegramVars, DirectInv, Types
<1>5. /\ sessions'[s] = Session(<<>>, <<>>)
      /\ \A j \in DOMAIN sessions : sessions'[j] = sessions[j]
      /\ DOMAIN sessions = 1..Len(sessions) /\ Len(sessions) \in Nat
  BY <1>1, <1>4, SessionCreated DEF DirectInv, Types
<1>6. turn'.session = s /\ turn'.update = u /\ chatOf(turn.update)' = x
  BY <1>2, <1>3, <1>4 DEF chatOf, Turns
<1>7. \A c \in DOMAIN chatSessions' :
        \/ c = x /\ chatSessions'[c] = s
        \/ Kept(c) /\ chatSessions'[c] = chatSessions[c]
  <2>1. CASE mode = "oneshot"
    BY <2>1 DEF createSession, Kept
  <2>2. CASE mode # "oneshot"
    <3>1. chatSessions' = [c \in DOMAIN chatSessions \cup {x} |->
                             IF c = x THEN s ELSE chatSessions[c]]
      BY <1>1, <1>2, <1>3, <2>2 DEF createSession
    <3>. QED
      BY <3>1 DEF Kept
  <2>. QED
    BY <2>1, <2>2
<1>8. \A c : Kept(c) => chatSessions[c] \in DOMAIN sessions /\ chatSessions[c] # s
  BY <1>1, <1>5 DEF Kept, DirectInv, Types
<1>9. SaysOnly(s, x)'
  BY <1>5 DEF SaysOnly, Session
<1>10. ASSUME NEW c \in DOMAIN chatSessions' PROVE SaysOnly(chatSessions[c], c)'
  <2>1. CASE c = x /\ chatSessions'[c] = s
    BY <1>9, <2>1
  <2>2. CASE Kept(c) /\ chatSessions'[c] = chatSessions[c]
    <3>1. PICK j \in DOMAIN sessions : j = chatSessions[c] /\ SaysOnly(j, c)
      BY <1>8, <2>2 DEF ApartInv, Kept
    <3>2. SaysOnly(j, c)'
      BY <1>4, <1>5, <3>1, SaysKept
    <3>. QED
      BY <2>2, <3>1, <3>2
  <2>. QED
    BY <1>7, <1>10, <2>1, <2>2
<1>11. \A c, d \in DOMAIN chatSessions' : chatSessions'[c] = chatSessions'[d] => c = d
  BY <1>7, <1>8 DEF ApartInv, Kept
<1>12. /\ SaysOnly(turn.session, chatOf(turn.update))'
       /\ \A c \in DOMAIN chatSessions' :
            chatSessions'[c] = turn'.session => c = chatOf(turn.update)'
  <2>1. SaysOnly(turn.session, chatOf(turn.update))'
    BY <1>6, <1>9
  <2>. QED
    BY <1>6, <1>7, <1>8, <2>1
<1>13. \A a \in said' : a.update \in 1..Len(sent') /\ Told(a.of, chatOf(a.update))'
  BY <1>4 DEF ApartInv, Told, chatOf
<1>. QED
  BY <1>10, <1>11, <1>12, <1>13 DEF ApartInv

\* A session nobody knows of says nothing to anybody.
LEMMA ApartLost ==
  ASSUME DirectInv, ApartInv, createSessionLost
  PROVE  ApartInv'
<1>1. /\ sessions' = Append(sessions, Session(<<>>, <<>>))
      /\ UNCHANGED <<sent, said, chatSessions>> /\ phase' = "apology"
  BY DEF createSessionLost, On, loopVars, telegramVars
<1>2. \A j \in DOMAIN sessions : sessions'[j] = sessions[j]
  BY <1>1, SessionCreated DEF DirectInv, Types
<1>3. ASSUME NEW c \in DOMAIN chatSessions' PROVE SaysOnly(chatSessions[c], c)'
  <2>1. PICK j \in DOMAIN sessions : j = chatSessions[c] /\ SaysOnly(j, c)
    BY <1>1, <1>3 DEF ApartInv, DirectInv, Types
  <2>2. SaysOnly(j, c)'
    BY <1>1, <1>2, <2>1, SaysKept
  <2>. QED
    BY <1>1, <2>1, <2>2
<1>4. \A a \in said' : a.update \in 1..Len(sent') /\ Told(a.of, chatOf(a.update))'
  BY <1>1 DEF ApartInv, Told, chatOf
<1>5. \A c, d \in DOMAIN chatSessions' : chatSessions'[c] = chatSessions'[d] => c = d
  BY <1>1 DEF ApartInv
<1>. QED
  BY <1>1, <1>3, <1>4, <1>5 DEF ApartInv, Talking

\* The text that is sent to the session in hand is of its chat.
LEMMA ApartAccept ==
  ASSUME DirectInv, ApartInv, promptAccepted
  PROVE  ApartInv'
<1>1. PICK u : u = turn.update
  OBVIOUS
<1>2. PICK x : x = chatOf(u)
  OBVIOUS
<1>3. PICK s \in DOMAIN sessions :
        /\ s = turn.session
        /\ sessions'[s] = Prompted(s, u)
        /\ \A j \in DOMAIN sessions : j # s => sessions'[j] = sessions[j]
  <2>1. /\ turn.session \in DOMAIN sessions
        /\ Prompted(turn.session, turn.update) \in Records
        /\ sessions' = [sessions EXCEPT ![turn.session] = Prompted(turn.session, turn.update)]
    BY AcceptChanges
  <2>2. /\ sessions'[turn.session] = Prompted(turn.session, turn.update)
        /\ \A j \in DOMAIN sessions : j # turn.session => sessions'[j] = sessions[j]
    BY <2>1, SessionChanges DEF DirectInv, Types
  <2>. QED
    BY <1>1, <2>1, <2>2
<1>4. UNCHANGED <<sent, said, turn, chatSessions>> /\ phase = "post" /\ phase' = "answer"
  BY DEF promptAccepted, On, loopVars, telegramVars
<1>5. Told(u, x) /\ SaysOnly(s, x)
  BY <1>1, <1>2, <1>3, <1>4, InHand DEF ApartInv, Told, Talking, Between
<1>6. SaysOnly(s, x)'
  BY <1>3, <1>4, <1>5, SaysPrompted
<1>7. \A c \in DOMAIN chatSessions : chatSessions[c] = s => c = x
  BY <1>1, <1>2, <1>3, <1>4 DEF ApartInv, Talking
<1>8. ASSUME NEW c \in DOMAIN chatSessions' PROVE SaysOnly(chatSessions[c], c)'
  <2>1. PICK j \in DOMAIN sessions : j = chatSessions[c] /\ SaysOnly(j, c)
    BY <1>4, <1>8 DEF ApartInv, DirectInv, Types
  <2>2. SaysOnly(j, c)'
    BY <1>3, <1>4, <1>6, <1>7, <1>8, <2>1, SaysKept
  <2>. QED
    BY <1>4, <2>1, <2>2
<1>9. chatOf(turn.update)' = x /\ turn'.session = s
  BY <1>1, <1>2, <1>3, <1>4 DEF chatOf
<1>10. SaysOnly(turn.session, chatOf(turn.update))'
  BY <1>6, <1>9
<1>11. \A a \in said' : a.update \in 1..Len(sent') /\ Told(a.of, chatOf(a.update))'
  BY <1>4 DEF ApartInv, Told, chatOf
<1>12. \A c, d \in DOMAIN chatSessions' : chatSessions'[c] = chatSessions'[d] => c = d
  BY <1>4 DEF ApartInv
<1>. QED
  BY <1>4, <1>7, <1>8, <1>9, <1>10, <1>11, <1>12 DEF ApartInv

\* The answer passed on is a message of the session in hand.
LEMMA ApartSays ==
  ASSUME DirectInv, ApartInv, sendTelegramMessage
  PROVE  ApartInv'
<1>1. /\ said' = said \cup {[update |-> turn.update,
                             of |-> sessions[turn.session].log[turn.reply].of]}
      /\ UNCHANGED <<sent, sessions, chatSessions>> /\ phase = "reply" /\ phase' = "each"
  BY DEF sendTelegramMessage, On, loopVars, telegramVars, serverVars
<1>2. /\ turn.update \in 1..Len(sent)
      /\ turn.reply \in DOMAIN sessions[turn.session].log
      /\ SaysOnly(turn.session, chatOf(turn.update))
  BY <1>1, InHand DEF ApartInv, DirectInv, TurnOK, Talking, Between
<1>3. Told(sessions[turn.session].log[turn.reply].of, chatOf(turn.update))
  BY <1>2 DEF SaysOnly
<1>4. \A a \in said' : a.update \in 1..Len(sent) /\ Told(a.of, chatOf(a.update))
  BY <1>1, <1>2, <1>3 DEF ApartInv
<1>5. \A a \in said' : a.update \in 1..Len(sent') /\ Told(a.of, chatOf(a.update))'
  BY <1>1, <1>4 DEF Told, chatOf
<1>6. /\ \A c \in DOMAIN chatSessions' : SaysOnly(chatSessions[c], c)'
      /\ \A c, d \in DOMAIN chatSessions' : chatSessions'[c] = chatSessions'[d] => c = d
  BY <1>1 DEF ApartInv, SaysOnly, Told, chatOf
<1>7. ~ (phase' \in Talking)
  BY <1>1 DEF Talking
<1>. QED
  BY <1>5, <1>6, <1>7 DEF ApartInv

LEMMA ApartStep ==
  ASSUME DirectInv, ApartInv, [DirectNext \/ (Send /\ UNCHANGED directVars)]_directAll
  PROVE  ApartInv'
BY Steps, ApartRests, ApartSessions, ApartTake, ApartCreate, ApartLost,
   ApartAccept, ApartSays

\* A chat is only told what was generated for a message of that chat, whether
\* the answer came with the prompt or was looked up afterwards, its session was
\* replaced, dropped by the server, or the process was restarted
\* (x1/direct-chatbot.ts:461-477).
THEOREM ChatsStayApart == DirectSpec => []ChatsApart
<1>1. TelegramInit /\ DirectInit => ApartInv
  BY DEF DirectInit, ApartInv, Talking
<1>2. DirectInv /\ ApartInv /\ [DirectNext \/ (Send /\ UNCHANGED directVars)]_directAll
      => ApartInv'
  BY ApartStep
<1>3. ApartInv => ChatsApart
  BY DEF ApartInv, Told, ChatsApart
<1>. QED
  BY <1>1, <1>2, <1>3, InvAlways, PTL DEF DirectSpec

-----------------------------------------------------------------------------
(* What a oneshot process leaves on the server. *)

Alive == {s \in DOMAIN sessions : sessions[s].alive}

Held == IF phase \in Holding THEN {turn.session} ELSE {}

\* All sessions but the one in hand are paid for by a death, by a deletion that
\* failed or by a creation whose response was lost.
LeftInv == mode = "oneshot" => Cardinality(Alive \ Held) <= deaths + undeleted

LEMMA LeftFinite ==
  ASSUME DirectInv
  PROVE  /\ IsFiniteSet(Alive \ Held) /\ Cardinality(Alive \ Held) \in Nat
         /\ deaths \in Nat /\ undeleted \in Nat
<1>1. DOMAIN sessions = 1..Len(sessions) /\ Len(sessions) \in Nat
  BY DEF DirectInv, Types
<1>2. IsFiniteSet(1..Len(sessions))
  BY <1>1, FS_Interval
<1>3. Alive \ Held \subseteq 1..Len(sessions)
  BY <1>1 DEF Alive
<1>4. IsFiniteSet(Alive \ Held)
  BY <1>2, <1>3, FS_Subset
<1>. QED
  BY <1>4, FS_CardinalityType DEF DirectInv, Types, TelegramTypeOK

LEMMA LeftKept ==
  ASSUME DirectInv, LeftInv, mode' = mode, (Alive \ Held)' \subseteq Alive \ Held,
         deaths' = deaths, undeleted' = undeleted
  PROVE  LeftInv'
<1>. DEFINE A == Alive \ Held
            B == (Alive \ Held)'
<1>1. IsFiniteSet(A) /\ Cardinality(A) \in Nat /\ deaths \in Nat /\ undeleted \in Nat
  BY LeftFinite
<1>2. B \subseteq A
  OBVIOUS
<1>3. mode = "oneshot" => Cardinality(A) <= deaths + undeleted
  BY DEF LeftInv
<1>4. LeftInv' <=> (mode' = "oneshot" => Cardinality(B) <= deaths' + undeleted')
  BY DEF LeftInv
<1>. HIDE DEF A, B
<1>5. Cardinality(B) <= Cardinality(A) /\ Cardinality(B) \in Nat
  BY <1>1, <1>2, FS_Subset, FS_CardinalityType
<1>6. mode = "oneshot" => Cardinality(B) <= deaths + undeleted
  BY <1>1, <1>3, <1>5
<1>. QED
  BY <1>4, <1>6

\* One more session is left, at the price of one fault.
LEMMA LeftPaid ==
  ASSUME DirectInv, LeftInv, NEW x, mode' = mode,
         (Alive \ Held)' \subseteq (Alive \ Held) \cup {x},
         \/ deaths' = deaths + 1 /\ undeleted' = undeleted
         \/ deaths' = deaths /\ undeleted' = undeleted + 1
  PROVE  LeftInv'
<1>. DEFINE A == Alive \ Held
            B == (Alive \ Held)'
<1>1. IsFiniteSet(A) /\ Cardinality(A) \in Nat /\ deaths \in Nat /\ undeleted \in Nat
  BY LeftFinite
<1>2. B \subseteq A \cup {x}
  OBVIOUS
<1>3. mode = "oneshot" => Cardinality(A) <= deaths + undeleted
  BY DEF LeftInv
<1>4. LeftInv' <=> (mode' = "oneshot" => Cardinality(B) <= deaths' + undeleted')
  BY DEF LeftInv
<1>. HIDE DEF A, B
<1>5. /\ IsFiniteSet(A \cup {x})
      /\ Cardinality(A \cup {x}) \in {Cardinality(A), Cardinality(A) + 1}
  BY <1>1, FS_AddElement
<1>6. /\ IsFiniteSet(B) /\ Cardinality(B) <= Cardinality(A \cup {x})
      /\ Cardinality(B) \in Nat
  BY <1>2, <1>5, FS_Subset, FS_CardinalityType
<1>7. Cardinality(B) <= Cardinality(A) + 1
  BY <1>1, <1>5, <1>6
<1>8. mode = "oneshot" => Cardinality(B) <= deaths' + undeleted'
  BY <1>1, <1>3, <1>6, <1>7
<1>. QED
  BY <1>4, <1>8

\* The sessions stay as they are, and so does the one in hand while it is held.
LEMMA LeftRests ==
  ASSUME DirectInv, LeftInv,
         \/ directStarts \/ directFetches \/ directFetchThrows \/ batchDone \/ skipUpdate
         \/ takeUpdate
         \/ createSessionThrows \/ promptThrows \/ readThrows \/ sendTelegramMessageThrows
         \/ promptReturns \/ readMessages \/ promptReturnsOther \/ waitForIdle
         \/ sendTelegramMessage \/ apologise
         \/ Send /\ UNCHANGED directVars
         \/ UNCHANGED directAll
  PROVE  LeftInv'
<1>1. UNCHANGED <<mode, sessions, deaths, undeleted>>
  BY DEF directStarts, directFetches, directFetchThrows, batchDone, skipUpdate, takeUpdate,
         createSessionThrows, promptThrows, readThrows, sendTelegramMessageThrows,
         promptReturns, readMessages, promptReturnsOther, waitForIdle, sendTelegramMessage,
         apologise, fetchUpdates, fetchThrows, Send, Fails, directAll, directVars, loopVars,
         serverVars, errorVars
<1>2. mode = "oneshot" /\ phase \in Holding =>
        phase' \in Holding /\ turn'.session = turn.session
  BY DEF directStarts, directFetches, directFetchThrows, batchDone, skipUpdate, takeUpdate,
         createSessionThrows, promptThrows, readThrows, sendTelegramMessageThrows,
         promptReturns, readMessages, promptReturnsOther, waitForIdle, sendTelegramMessage,
         apologise, promptFails, Replied, On, directAll, directVars, Holding, Talking,
         DirectInv, Types, Turns
<1>3. CASE mode = "oneshot"
  <2>1. Held \subseteq Held'
    BY <1>2, <1>3 DEF Held
  <2>2. Alive' = Alive
    BY <1>1 DEF Alive
  <2>3. (Alive \ Held)' \subseteq Alive \ Held
    BY <2>1, <2>2
  <2>. QED
    BY <1>1, <2>3, LeftKept
<1>4. CASE mode # "oneshot"
  BY <1>1, <1>4 DEF LeftInv
<1>. QED
  BY <1>3, <1>4

LEMMA LeftCreate ==
  ASSUME DirectInv, LeftInv, createSession
  PROVE  LeftInv'
<1>1. PICK n : n = Len(sessions) + 1
  OBVIOUS
<1>2. /\ sessions' = Append(sessions, Session(<<>>, <<>>)) /\ turn \in Turns
      /\ UNCHANGED <<mode, deaths, undeleted>> /\ phase = "create" /\ phase' = "post"
      /\ turn' = [turn EXCEPT !.session = n]
  BY <1>1 DEF createSession, On, loopVars, errorVars, DirectInv, Types
<1>3. /\ DOMAIN sessions' = DOMAIN sessions \cup {n}
      /\ \A j \in DOMAIN sessions : sessions'[j] = sessions[j]
  BY <1>1, <1>2, SessionCreated DEF DirectInv, Types
<1>4. Held' = {n} /\ Held = {}
  BY <1>2 DEF Held, Holding, Talking, Turns
<1>5. (Alive \ Held)' \subseteq Alive \ Held
  BY <1>3, <1>4 DEF Alive
<1>. QED
  BY <1>2, <1>5, LeftKept

LEMMA LeftLost ==
  ASSUME DirectInv, LeftInv, createSessionLost
  PROVE  LeftInv'
<1>1. PICK n : n = Len(sessions) + 1
  OBVIOUS
<1>2. /\ sessions' = Append(sessions, Session(<<>>, <<>>))
      /\ UNCHANGED <<mode, deaths>> /\ undeleted' = undeleted + 1
      /\ phase = "create" /\ phase' = "apology"
  BY DEF createSessionLost, FailsLeavingSession, On, loopVars
<1>3. /\ DOMAIN sessions' = DOMAIN sessions \cup {n}
      /\ \A j \in DOMAIN sessions : sessions'[j] = sessions[j]
  BY <1>1, <1>2, SessionCreated DEF DirectInv, Types
<1>4. Held' = {} /\ Held = {}
  BY <1>2 DEF Held, Holding, Talking
<1>5. (Alive \ Held)' \subseteq (Alive \ Held) \cup {n}
  BY <1>3, <1>4 DEF Alive
<1>. QED
  BY <1>2, <1>5, LeftPaid

LEMMA LeftAccept ==
  ASSUME DirectInv, LeftInv, promptAccepted
  PROVE  LeftInv'
<1>1. /\ UNCHANGED <<mode, deaths, undeleted, turn>> /\ phase = "post" /\ phase' = "answer"
  BY DEF promptAccepted, On, loopVars, errorVars
<1>2. /\ DOMAIN sessions' = DOMAIN sessions
      /\ sessions'[turn.session] = Prompted(turn.session, turn.update)
      /\ turn.session \in DOMAIN sessions
      /\ \A j \in DOMAIN sessions : j # turn.session => sessions'[j] = sessions[j]
  BY AcceptChanges, SessionChanges DEF DirectInv, Types
<1>3. \A j \in DOMAIN sessions : sessions'[j].alive = sessions[j].alive
  BY <1>2 DEF Prompted
<1>4. Held' = Held
  BY <1>1 DEF Held, Holding, Talking
<1>5. (Alive \ Held)' \subseteq Alive \ Held
  BY <1>2, <1>3, <1>4 DEF Alive
<1>. QED
  BY <1>1, <1>5, LeftKept

LEMMA LeftServer ==
  ASSUME DirectInv, LeftInv, NEW s \in DOMAIN sessions,
         serverAnswers(s) \/ serverDropsSession(s)
  PROVE  LeftInv'
<1>1. UNCHANGED <<mode, deaths, undeleted, turn, phase>>
  BY DEF serverAnswers, serverDropsSession, loopVars, errorVars, Fails
<1>2. /\ DOMAIN sessions' = DOMAIN sessions
      /\ \A j \in DOMAIN sessions : j # s => sessions'[j] = sessions[j]
      /\ sessions'[s] = AnswersHead(s) \/ sessions'[s] = Closed(s)
  BY ServerChanges
<1>3. \A j \in DOMAIN sessions : sessions'[j].alive => sessions[j].alive
  BY <1>2 DEF AnswersHead, Closed
<1>4. Held' = Held
  BY <1>1 DEF Held
<1>5. (Alive \ Held)' \subseteq Alive \ Held
  BY <1>2, <1>3, <1>4 DEF Alive
<1>. QED
  BY <1>1, <1>5, LeftKept

\* The session in hand is deleted, or left behind by a call that fails.
LEMMA LeftDelete ==
  ASSUME DirectInv, LeftInv, deleteSession
  PROVE  LeftInv'
<1>1. /\ UNCHANGED <<mode, deaths, turn>> /\ phase = "delete"
      /\ phase' \in {"apology", "reply"} /\ turn.session \in DOMAIN sessions
  BY InHand DEF deleteSession, On, loopVars, Talking, Between
<1>2. Held = {turn.session} /\ Held' = {}
  BY <1>1 DEF Held, Holding, Talking
<1>3. CASE /\ sessions' = [sessions EXCEPT ![turn.session].alive = FALSE,
                                           ![turn.session].todo = <<>>]
           /\ UNCHANGED errorVars
  <2>1. /\ sessions' = [sessions EXCEPT ![turn.session] = Closed(turn.session)]
        /\ Closed(turn.session) \in Records
    BY <1>1, <1>3, CloseChanges
  <2>2. /\ DOMAIN sessions' = DOMAIN sessions
        /\ sessions'[turn.session] = Closed(turn.session)
        /\ \A j \in DOMAIN sessions : j # turn.session => sessions'[j] = sessions[j]
    BY <1>1, <2>1, SessionChanges DEF DirectInv, Types
  <2>3. (Alive \ Held)' \subseteq Alive \ Held
    BY <1>2, <2>2 DEF Alive, Closed
  <2>. QED
    BY <1>1, <1>3, <2>3, LeftKept DEF errorVars
<1>4. CASE sessions' = sessions /\ FailsLeavingSession
  <2>1. PICK s : s = turn.session
    OBVIOUS
  <2>2. Alive' = Alive /\ undeleted' = undeleted + 1
    BY <1>4 DEF Alive, FailsLeavingSession
  <2>3. (Alive \ Held)' \subseteq (Alive \ Held) \cup {s}
    BY <1>2, <2>1, <2>2
  <2>. QED
    BY <1>1, <2>2, <2>3, LeftPaid
<1>. QED
  BY <1>3, <1>4 DEF deleteSession

LEMMA LeftDies ==
  ASSUME DirectInv, LeftInv, directDies
  PROVE  LeftInv'
<1>1. /\ UNCHANGED <<mode, sessions, undeleted>> /\ phase' = "off" /\ deaths' = deaths + 1
  BY DEF directDies, Dies, serverVars, errorVars
<1>2. PICK s : s = turn.session
  OBVIOUS
<1>3. Alive' = Alive /\ Held' = {} /\ Held \subseteq {s}
  BY <1>1, <1>2 DEF Alive, Held, Holding, Talking
<1>4. (Alive \ Held)' \subseteq (Alive \ Held) \cup {s}
  BY <1>3
<1>. QED
  BY <1>1, <1>4, LeftPaid

LEMMA LeftStep ==
  ASSUME DirectInv, LeftInv, [DirectNext \/ (Send /\ UNCHANGED directVars)]_directAll
  PROVE  LeftInv'
BY Steps, LeftRests, LeftCreate, LeftLost, LeftAccept, LeftServer, LeftDelete, LeftDies

\* Between two updates each session a oneshot process left on the server is
\* one it died over, one whose deletion failed or one it never learnt the id
\* of: no failed prompt, lost answer or failed look-up leaves another
\* (opencode-server-wrapper.ts:740-750).
THEOREM FaultsLeaveSessions == DirectSpec => []OneshotLeavesNothing
<1>1. TelegramInit /\ DirectInit => LeftInv
  <2>. SUFFICES ASSUME TelegramInit, DirectInit PROVE LeftInv
    OBVIOUS
  <2>1. Alive \ Held = {}
    BY DEF DirectInit, Alive
  <2>2. Cardinality(Alive \ Held) = 0
    BY <2>1, FS_EmptySet
  <2>3. deaths = 0 /\ undeleted = 0
    BY DEF TelegramInit, DirectInit
  <2>. QED
    BY <2>2, <2>3 DEF LeftInv
<1>2. DirectInv /\ LeftInv /\ [DirectNext \/ (Send /\ UNCHANGED directVars)]_directAll
      => LeftInv'
  BY LeftStep
<1>3. ASSUME LeftInv PROVE OneshotLeavesNothing
  <2>1. phase \in Between => Alive \ Held = Alive
    BY DEF Held, Holding, Talking, Between
  <2>. QED
    BY <1>3, <2>1 DEF LeftInv, OneshotLeavesNothing, Alive, Between
<1>. QED
  BY <1>1, <1>2, <1>3, InvAlways, PTL DEF DirectSpec
=============================================================================
