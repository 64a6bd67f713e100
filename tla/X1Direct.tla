------------------------------- MODULE X1Direct -------------------------------
(***************************************************************************)
(* The direct chatbot (x1/direct-chatbot.ts): an X1 front beside the task  *)
(* queue that sends each message to an OpenCode session and the answer     *)
(* back to the chat, one update after the other, with the calls of the     *)
(* server's wrapper it uses (opencode-server-wrapper.ts) and, external,    *)
(* the sessions behind them.                                               *)
(***************************************************************************)
EXTENDS X1Telegram

CONSTANTS
  Modes,        \* --session-mode in play, of "per-chat", "oneshot"
  MaxErrors     \* bound on calls that fail and sessions the server drops

ASSUME DirectAssumption ==
  /\ Modes \subseteq {"per-chat", "oneshot"}
  /\ MaxErrors \in Nat

VARIABLES
  mode,         \* the session mode the process was started with
  phase,        \* the await the loop is suspended at
  turn,         \* [update, session, retried, reply, failed] being processed
  chatSessions, \* from chat to the session kept for it
  sessions,     \* per session in order of creation: its messages, the prompts
                \* it has still to answer, and whether it still exists
  said,         \* answers sent to a chat: the update, the message's prompt
  turns,        \* per update: times it was taken up
  prompts,      \* per update: times the server accepted its text
  errors,       \* calls that failed and sessions that were dropped
  undeleted     \* of them, those that left a session: calls of deleteSession,
                \* and of createSession whose response alone was lost

directVars == <<mode, phase, turn, chatSessions, sessions, said, turns,
                prompts, errors, undeleted>>

NoTurn == [update |-> 0, session |-> 0, retried |-> FALSE, reply |-> 0,
           failed |-> FALSE]

\* Where the loop stands:
\*   off       not running                idle      between two getUpdates
\*   each      in the loop over a batch   create    createSession
\*   post      session.prompt, not yet accepted
\*   answer    session.prompt, accepted, its response not here
\*   settle    waitForIdle                read      getMessages
\*   delete    deleteSession              reply     sendTelegramMessage
\*   apology   sendTelegramMessage of the error
Phases == {"off", "idle", "each", "create", "post", "answer", "settle",
           "read", "delete", "reply", "apology"}

DirectInit ==
  /\ mode \in Modes
  /\ phase = "off"
  /\ turn = NoTurn
  /\ chatSessions = << >>
  /\ sessions = <<>>
  /\ said = {}
  /\ turns = [u \in Updates |-> 0]
  /\ prompts = [u \in Updates |-> 0]
  /\ errors = 0
  /\ undeleted = 0

On(label) == front = "direct" /\ phase = label

chatOf(u) == sent[u].chat

serverVars == <<sessions, prompts>>
errorVars  == <<errors, undeleted>>
loopVars   == <<front, telegramVars, pollVars, deaths, mode>>

Session(log, todo) == [log |-> log, todo |-> todo, alive |-> TRUE]

Fails ==
  /\ errors < MaxErrors
  /\ errors' = errors + 1
  /\ UNCHANGED undeleted

FailsLeavingSession ==
  /\ errors < MaxErrors
  /\ errors' = errors + 1
  /\ undeleted' = undeleted + 1

-----------------------------------------------------------------------------
(* The poll loop. *)

\* verifyToken and health have passed.
directStarts ==
  /\ On("off")
  /\ phase' = "idle"
  /\ UNCHANGED <<loopVars, turn, chatSessions, serverVars, said, turns, errorVars>>

directFetches ==
  /\ On("idle")
  /\ fetchUpdates
  /\ phase' = "each"
  /\ UNCHANGED <<mode, turn, chatSessions, serverVars, said, turns, errorVars>>

directFetchThrows ==
  /\ On("idle")
  /\ fetchThrows
  /\ UNCHANGED directVars

batchDone ==
  /\ On("each")
  /\ batch = {}
  /\ phase' = "idle"
  /\ UNCHANGED <<loopVars, turn, chatSessions, serverVars, said, turns, errorVars>>

Answerable(u) ==
  /\ parseTelegramMessage(sent[u]).ok
  /\ allowedByUserId(sent[u])
  /\ chatOf(u) # Nothing

\* Mutant: the offset ends up one too far.
offsetPastNext(u) == IF u < MaxUpdates THEN u + 2 ELSE u + 1

\* Mutant: the offset stays where it was.
offsetKept(u) == offset

offsetAfter(u) == u + 1

\* The offset moves past an update before anything is done with it.
skipUpdate ==
  /\ On("each")
  /\ \E u \in batch :
       /\ IsNext(u)
       /\ ~ Answerable(u)
       /\ offset' = offsetAfter(u)
       /\ batch' = batch \ {u}
  /\ UNCHANGED <<front, telegramVars, deaths, directVars>>

\* Mutant: sessions are kept per bot, not per chat.
existingOfAnyChat(c) ==
  IF DOMAIN chatSessions = {} THEN 0
  ELSE chatSessions[CHOOSE d \in DOMAIN chatSessions : TRUE]

\* Mutant: an unknown chat is given the id the next session will have.
existingGuessed(c) ==
  IF c \in DOMAIN chatSessions THEN chatSessions[c] ELSE Len(sessions) + 1

existing(c) == IF c \in DOMAIN chatSessions THEN chatSessions[c] ELSE 0

\* runDirectPrompt begins: run() creates a session, ensureSessionId does
\* unless the chat has one.
takeUpdate ==
  /\ On("each")
  /\ \E u \in batch :
       LET s == IF mode = "oneshot" THEN 0 ELSE existing(chatOf(u))
       IN /\ IsNext(u)
          /\ Answerable(u)
          /\ offset' = offsetAfter(u)
          /\ batch' = batch \ {u}
          /\ turn' = [NoTurn EXCEPT !.update = u, !.session = s]
          /\ phase' = IF s = 0 THEN "create" ELSE "post"
          /\ turns' = [turns EXCEPT ![u] = @ + 1]
  /\ UNCHANGED <<front, telegramVars, deaths, mode, chatSessions, serverVars,
                 said, errorVars>>

-----------------------------------------------------------------------------
(* The wrapper's calls. *)

createSession ==
  /\ On("create")
  /\ sessions' = Append(sessions, Session(<<>>, <<>>))
  /\ turn' = [turn EXCEPT !.session = Len(sessions) + 1]
  /\ chatSessions' =
       IF mode = "oneshot" THEN chatSessions
       ELSE [c \in DOMAIN chatSessions \cup {chatOf(turn.update)} |->
               IF c = chatOf(turn.update) THEN Len(sessions) + 1
               ELSE chatSessions[c]]
  /\ phase' = "post"
  /\ UNCHANGED <<loopVars, said, turns, prompts, errorVars>>

\* What awaits createSession throws, before run()'s try: nothing is deleted.
createSessionThrows ==
  /\ On("create")
  /\ Fails
  /\ phase' = "apology"
  /\ turn' = [turn EXCEPT !.failed = TRUE]
  /\ UNCHANGED <<loopVars, chatSessions, serverVars, said, turns>>

\* The same, but the server made the session and only its response is lost:
\* nobody knows the session's id.
createSessionLost ==
  /\ On("create")
  /\ FailsLeavingSession
  /\ sessions' = Append(sessions, Session(<<>>, <<>>))
  /\ phase' = "apology"
  /\ turn' = [turn EXCEPT !.failed = TRUE]
  /\ UNCHANGED <<loopVars, chatSessions, said, turns, prompts>>

\* Mutant: run() deletes its session only after an answer.
promptFailsUndeleted ==
  /\ phase' = IF mode = "per-chat" /\ ~ turn.retried THEN "create" ELSE "apology"
  /\ turn' = [turn EXCEPT !.retried = TRUE, !.failed = TRUE]
  /\ chatSessions' = [c \in DOMAIN chatSessions \ {chatOf(turn.update)} |->
                        chatSessions[c]]

\* session.prompt or getMessages throws out of prompt().  run() still deletes
\* its session; a chat's session is forgotten and, the first time, the text
\* is sent once more to a new one; the second failure reaches the loop.
promptFails ==
  \/ /\ mode = "oneshot"
     /\ phase' = "delete"
     /\ turn' = [turn EXCEPT !.failed = TRUE]
     /\ UNCHANGED chatSessions
  \/ /\ mode = "per-chat"
     /\ ~ turn.retried
     /\ phase' = "create"
     /\ turn' = [turn EXCEPT !.retried = TRUE]
     /\ chatSessions' = [c \in DOMAIN chatSessions \ {chatOf(turn.update)} |->
                           chatSessions[c]]
  \/ /\ mode = "per-chat"
     /\ turn.retried
     /\ phase' = "apology"
     /\ turn' = [turn EXCEPT !.failed = TRUE]
     /\ UNCHANGED chatSessions

promptAccepted ==
  /\ On("post")
  /\ sessions[turn.session].alive
  /\ sessions' = [sessions EXCEPT
       ![turn.session].log = Append(@, [role |-> "user", of |-> turn.update]),
       ![turn.session].todo = Append(@, turn.update)]
  /\ prompts' = [prompts EXCEPT ![turn.update] = @ + 1]
  /\ phase' = "answer"
  /\ UNCHANGED <<loopVars, turn, chatSessions, said, turns, errorVars>>

\* The session no longer exists, the server refuses the request, or the
\* response to an accepted one does not arrive.
promptThrows ==
  /\ On("post") \/ On("answer")
  /\ \/ ~ sessions[turn.session].alive /\ UNCHANGED errorVars
     \/ Fails
  /\ promptFails
  /\ UNCHANGED <<loopVars, serverVars, said, turns>>

Replied(i) ==
  /\ turn' = [turn EXCEPT !.reply = i]
  /\ phase' = IF mode = "oneshot" THEN "delete" ELSE "reply"

\* The response is the message that answers the prompt.
promptReturns ==
  /\ On("answer")
  /\ \E i \in DOMAIN sessions[turn.session].log :
       /\ sessions[turn.session].log[i] =
            [role |-> "assistant", of |-> turn.update]
       /\ Replied(i)
  /\ UNCHANGED <<loopVars, chatSessions, serverVars, said, turns, errorVars>>

\* The response has another form (isMessageWithParts): the prompt is on its
\* way and its answer has to be looked for.
promptReturnsOther ==
  /\ On("answer")
  /\ phase' = "settle"
  /\ UNCHANGED <<loopVars, turn, chatSessions, serverVars, said, turns, errorVars>>

\* The session is idle or unknown to the server; after thirty seconds, or
\* when the request fails, the same, because the error is dropped.
waitForIdle ==
  /\ On("settle")
  /\ \/ sessions[turn.session].todo = <<>> /\ UNCHANGED errorVars
     \/ Fails
  /\ phase' = "read"
  /\ UNCHANGED <<loopVars, turn, chatSessions, serverVars, said, turns>>

IsLast(log, i, M) == i \in M /\ \A k \in M : k <= i

\* The last assistant message, whatever it answers, else the last message.
readMessages ==
  /\ On("read")
  /\ sessions[turn.session].alive
  /\ LET log     == sessions[turn.session].log
         answers == {i \in DOMAIN log : log[i].role = "assistant"}
     IN \E i \in DOMAIN log :
          /\ IsLast(log, i, IF answers # {} THEN answers ELSE DOMAIN log)
          /\ Replied(i)
  /\ UNCHANGED <<loopVars, chatSessions, serverVars, said, turns, errorVars>>

readThrows ==
  /\ On("read")
  /\ \/ ~ sessions[turn.session].alive /\ UNCHANGED errorVars
     \/ Fails
  /\ promptFails
  /\ UNCHANGED <<loopVars, serverVars, said, turns>>

\* run()'s finally, whose error is dropped.  What the loop does with the
\* answer it has read needs no session.
deleteSession ==
  /\ On("delete")
  /\ \/ sessions' = [sessions EXCEPT ![turn.session].alive = FALSE,
                                     ![turn.session].todo = <<>>]
        /\ UNCHANGED errorVars
     \/ FailsLeavingSession /\ UNCHANGED sessions
  /\ phase' = IF turn.failed THEN "apology" ELSE "reply"
  /\ UNCHANGED <<loopVars, turn, chatSessions, said, turns, prompts>>

-----------------------------------------------------------------------------
(* Answering the chat. *)

\* All chunks of the text are sent.
sendTelegramMessage ==
  /\ On("reply")
  /\ said' = said \cup
       {[update |-> turn.update,
         of     |-> sessions[turn.session].log[turn.reply].of]}
  /\ phase' = "each"
  /\ turn' = NoTurn
  /\ UNCHANGED <<loopVars, chatSessions, serverVars, turns, errorVars>>

sendTelegramMessageThrows ==
  /\ On("reply")
  /\ Fails
  /\ phase' = "apology"
  /\ turn' = [turn EXCEPT !.failed = TRUE]
  /\ UNCHANGED <<loopVars, chatSessions, serverVars, said, turns>>

\* An error of this call is dropped.
apologise ==
  /\ On("apology")
  /\ phase' = "each"
  /\ turn' = NoTurn
  /\ UNCHANGED <<loopVars, chatSessions, serverVars, said, turns, errorVars>>

\* The process ends: SIGTERM, or it is killed.
directDies ==
  /\ front = "direct"
  /\ phase # "off"
  /\ Dies
  /\ phase' = "off"
  /\ turn' = NoTurn
  /\ chatSessions' = << >>
  /\ UNCHANGED <<mode, serverVars, said, turns, errorVars>>

-----------------------------------------------------------------------------
(* The OpenCode server (external). *)

serverAnswers(s) ==
  /\ sessions[s].todo # <<>>
  /\ sessions' = [sessions EXCEPT
       ![s].log = Append(@, [role |-> "assistant", of |-> Head(sessions[s].todo)]),
       ![s].todo = Tail(@)]
  /\ UNCHANGED <<loopVars, phase, turn, chatSessions, said, turns, prompts, errorVars>>

serverDropsSession(s) ==
  /\ sessions[s].alive
  /\ Fails
  /\ sessions' = [sessions EXCEPT ![s].alive = FALSE, ![s].todo = <<>>]
  /\ UNCHANGED <<loopVars, phase, turn, chatSessions, said, turns, prompts>>

-----------------------------------------------------------------------------
Loop ==
  \/ directStarts \/ directFetches \/ batchDone \/ skipUpdate \/ takeUpdate
  \/ createSession \/ promptAccepted \/ promptThrows \/ promptReturns
  \/ waitForIdle \/ readMessages \/ readThrows \/ deleteSession
  \/ sendTelegramMessage \/ apologise

DirectNext ==
  \/ Loop \/ directFetchThrows \/ createSessionThrows \/ createSessionLost
  \/ promptReturnsOther \/ sendTelegramMessageThrows \/ directDies
  \/ \E s \in DOMAIN sessions : serverAnswers(s) \/ serverDropsSession(s)

directAll == <<front, telegramVars, pollVars, deaths, directVars>>

\* The chatbot as the front of its bot, by itself.
DirectSpec ==
  /\ TelegramInit /\ DirectInit
  /\ [][DirectNext \/ (Send /\ UNCHANGED directVars)]_directAll

\* The loop runs while it can, and the server answers what it accepted, or
\* fails the request if the session is gone: prompt() has no time limit of
\* its own, so both have to be assumed.
DirectFairness ==
  /\ WF_directAll(Loop)
  /\ \A s \in 1..(2 * MaxUpdates * (1 + MaxDeaths)) :
       WF_directAll(s \in DOMAIN sessions /\ serverAnswers(s))

-----------------------------------------------------------------------------
(* Properties. *)

\* Types of the variables of this module.
DirectTypeOK ==
  /\ mode \in Modes
  /\ phase \in Phases
  /\ turn.update \in 0..MaxUpdates
  /\ turn.session \in 0..Len(sessions)
  /\ \A c \in DOMAIN chatSessions : chatSessions[c] \in DOMAIN sessions
  /\ turns \in [Updates -> Nat]
  /\ prompts \in [Updates -> Nat]
  /\ errors \in 0..MaxErrors
  /\ undeleted \in 0..errors

\* One life of the process takes an update up once and sends its text to the
\* server once, in per-chat mode once more after a failure; only a restart,
\* which forgets the offset, does so again (x1/direct-chatbot.ts:471-476,
\* :572).
PromptsBounded ==
  \A u \in Updates :
    /\ turns[u] <= 1 + deaths
    /\ prompts[u] <= (IF mode = "per-chat" THEN 2 ELSE 1) * turns[u]

\* A chat is only told what was generated for a message of that chat, also
\* when the answer had to be looked up, its session was replaced, or the
\* process was restarted (x1/direct-chatbot.ts:461-477).
ChatsApart == \A a \in said : chatOf(a.update) = chatOf(a.of)

\* Between two updates a oneshot session still exists only where the process
\* died over it, the call to delete it failed, or the response that would have
\* named it was lost (opencode-server-wrapper.ts:740-750).
OneshotLeavesNothing ==
  mode = "oneshot" /\ phase \in {"off", "idle", "each"} =>
    Cardinality({s \in DOMAIN sessions : sessions[s].alive}) <= deaths + undeleted

\* What Telegram has been told is received was taken up, unless it is not to
\* be answered: no restart moves the offset past an update nobody saw
\* (x1/direct-chatbot.ts:572).
ConfirmedIsTakenUp ==
  front = "direct" =>
    \A u \in DOMAIN sent \ pending : Answerable(u) => turns[u] > 0

=============================================================================
