------------------------------ MODULE X1Telegram ------------------------------
(***************************************************************************)
(* What every X1 front that serves a Telegram bot shares: the Bot API's    *)
(* queue of updates, as getUpdates and the webhook show it, the parser of  *)
(* x1/telegram.ts, the allow list, and the loop variables of a process     *)
(* that polls (x1/poller.ts and x1/direct-chatbot.ts have the same ones).  *)
(***************************************************************************)
EXTENDS Naturals, Sequences, FiniteSets

CONSTANTS
  Names,        \* identifiers of chats, users and messages
  MaxUpdates,   \* bound on the updates Telegram holds for the bot
  Shapes,       \* the messages people send: payloads without an update_id
  Allowed,      \* --allowed-users, the empty set admits everyone
  PollLimit,    \* --poll-limit
  MaxDeaths,    \* bound on process deaths
  Fronts        \* deployments in play, of "webhook", "poller", "direct"

Nothing == "nothing"      \* a field that is missing or null

\* Telegram numbers updates from some positive number; here from 1.
Updates == 1..MaxUpdates

\* The fields of an update that the parser reads; length is the text's.
Bodies == {"none", "blank", "text"}
Identity == Names \cup {Nothing}
Payloads == [update: Nat, message: Identity, chat: Identity, user: Identity,
             body: Bodies, length: Nat]

ASSUME X1Assumption ==
  /\ MaxUpdates \in Nat
  /\ PollLimit \in Nat \ {0}
  /\ MaxDeaths \in Nat
  /\ Fronts \subseteq {"webhook", "poller", "direct"}
  /\ Shapes \subseteq Payloads
  /\ \A p \in Shapes : p.update = 0

VARIABLES
  front,     \* the process that serves the bot: Telegram admits only one
  sent,      \* the payloads people sent, in order: sent[u] has update_id u
  pending,   \* updates Telegram has not been told are received
  offset,    \* let offset: the polling process's, 0 while undefined
  batch,     \* updates of the answer to getUpdates not looked at yet
  deaths     \* process deaths so far

telegramVars == <<sent, pending>>
pollVars     == <<offset, batch>>

TelegramInit ==
  /\ front \in Fronts
  /\ sent = <<>>
  /\ pending = {}
  /\ offset = 0
  /\ batch = {}
  /\ deaths = 0

-----------------------------------------------------------------------------
(* x1/telegram.ts: the parser. *)

\* Telegram puts the message in one of message, edited_message, channel_post
\* and edited_channel_post; a message with neither text nor caption is none.
pickMessage(p) == p.body # "none"

\* trimText(text) ?? trimText(caption)
pickText(p) == p.body = "text"

\* Mutant: the message's identity in its chat comes first, so that an edit
\* passes for the message it edits.
deriveEventIdOfMessage(p) ==
  IF p.chat # Nothing /\ p.message # Nothing THEN <<"message", p.chat, p.message>>
  ELSE <<"update", p.update>>

\* The first identity that is there: the update's, else the message's in its
\* chat, else the user's with the length of the text, else of user and
\* message; what has none of them is known by a hash of the whole payload.
deriveEventId(p) ==
  IF p.update # 0 THEN <<"update", p.update>>
  ELSE IF p.chat # Nothing /\ p.message # Nothing
    THEN <<"message", p.chat, p.message>>
  ELSE IF p.chat # Nothing /\ p.user # Nothing
    THEN <<"length", p.chat, p.user, p.length>>
  ELSE IF p.user # Nothing /\ p.message # Nothing
    THEN <<"user", p.user, p.message>>
  ELSE <<"hash", p>>

\* A payload without a message has no identity but its update's or a hash.
parseTelegramMessage(p) ==
  [ok |-> pickMessage(p) /\ pickText(p),
   id |-> IF pickMessage(p) THEN deriveEventId(p)
          ELSE IF p.update # 0 THEN <<"update", p.update>>
          ELSE <<"hash", p>>]

\* An empty list allows everyone; a message without a user is nobody's.
allowedByUserId(p) ==
  \/ Allowed = {}
  \/ p.user # Nothing /\ p.user \in Allowed

-----------------------------------------------------------------------------
(* The Bot API (external) and the poll loop. *)

\* Somebody writes to the bot.
Send ==
  /\ Len(sent) < MaxUpdates
  /\ \E p \in Shapes :
       sent' = Append(sent, [p EXCEPT !.update = Len(sent) + 1])
  /\ pending' = pending \cup {Len(sent) + 1}
  /\ UNCHANGED <<front, pollVars, deaths>>

\* An offset tells Telegram that every update before it was received.
Unconfirmed(o) == {u \in pending : u >= o}

\* The oldest PollLimit of them.
Answer(o) ==
  {u \in Unconfirmed(o) :
     Cardinality({v \in Unconfirmed(o) : v <= u}) <= PollLimit}

\* for (const update of updates): Telegram answers in order of update_id.
IsNext(u) == u \in batch /\ \A v \in batch : u <= v

\* The answer arrives, or the request fails on its way there or back.
fetchUpdates ==
  /\ pending' = Unconfirmed(offset)
  /\ batch' = Answer(offset)
  /\ UNCHANGED <<front, sent, offset, deaths>>

fetchThrows ==
  /\ pending' \in {pending, Unconfirmed(offset)}
  /\ UNCHANGED <<front, sent, pollVars, deaths>>

Dies ==
  /\ deaths < MaxDeaths
  /\ deaths' = deaths + 1
  /\ offset' = 0
  /\ batch' = {}
  /\ UNCHANGED <<front, telegramVars>>

TelegramTypeOK ==
  /\ front \in Fronts
  /\ sent \in Seq(Payloads)
  /\ Len(sent) <= MaxUpdates
  /\ \A u \in 1..Len(sent) : sent[u].update = u
  /\ pending \subseteq 1..Len(sent)
  /\ offset \in 0..(Len(sent) + 1)
  /\ batch \subseteq 1..Len(sent)
  /\ deaths \in 0..MaxDeaths

=============================================================================
