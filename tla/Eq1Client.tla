------------------------------- MODULE Eq1Client -------------------------------
(***************************************************************************)
(* The client of the small model Eq1 (eq1/llm-client.ts) and the providers *)
(* behind it (eq1/providers/*.ts): which provider the environment selects, *)
(* the calls a request makes, the retries inside a provider, the fallback  *)
(* to the next one, and the OpenCode session behind each internal call,    *)
(* which outlives the time limit of the call.                              *)
(*                                                                         *)
(* X2 and X3 each hold one client and await every request before the next. *)
(***************************************************************************)
EXTENDS Naturals, Sequences, FiniteSets

CONSTANTS
  Clients,      \* the clients in play: the EQ1_* variables, and the option
                \* retryAttempts, which X2 and X3 leave at its default of 1
  Requests,     \* the types of request the caller makes
  Outputs,      \* by type of request, the JSON objects a model may answer
  MaxRequests,  \* bound on requests
  MaxDeaths     \* bound on deaths of the process

Endpoints == {"groq", "cerebras", "openai_compatible"}
Internal  == "opencode_internal"
Chained   == "opencode_internal_fallback"
Providers == Endpoints \cup {Internal}

\* own holds the providers that have an API key of their own, shared which of
\* EQ1_API_KEY, EQ1_BASE_URL and EQ1_MODEL are set.
IsEnvironment(env) ==
  /\ env.provider \in Providers \cup {Chained, "unset", "unsupported"}
  /\ env.fallback \in Providers \cup {Chained, "unset", "off", "unsupported"}
  /\ env.own \subseteq {"groq", "cerebras"}
  /\ env.shared \subseteq {"key", "url", "model"}

ASSUME Eq1Assumption ==
  /\ \A c \in Clients : IsEnvironment(c.env) /\ c.attempts \in Nat
  /\ MaxRequests \in Nat
  /\ MaxDeaths \in Nat

-----------------------------------------------------------------------------
(* eq1/providers/factory.ts: the chain of providers. *)

\* Of the endpoints two have a default URL and model and need a key only.
CanBeBuilt(provider, env) ==
  \/ provider = Internal
  \/ provider \in {"groq", "cerebras"}
     /\ (provider \in env.own \/ "key" \in env.shared)
  \/ provider = "openai_compatible" /\ env.shared = {"key", "url", "model"}

resolveProviderName(env) ==
  IF env.provider = "unset" THEN Chained ELSE env.provider

fallbackName(env) == IF env.fallback = "unset" THEN "cerebras" ELSE env.fallback

\* A fallback that lacks its key is left out; one that is misspelt, or is the
\* chain itself, makes the whole factory throw.
createFallbackProvider(env) ==
  IF fallbackName(env) \notin Providers \cup {"off"} THEN "throws"
  ELSE IF fallbackName(env) = "off" \/ ~CanBeBuilt(fallbackName(env), env)
         THEN "none"
         ELSE fallbackName(env)

NoChain == [primary |-> "none", fallback |-> "none"]

\* NoChain when it throws: X2 then routes without Eq1, and X3 has no processor.
createEq1ProviderChainFromEnv(env) ==
  LET name == resolveProviderName(env) IN
  IF name = Chained
    THEN IF createFallbackProvider(env) = "throws" THEN NoChain
         ELSE [primary |-> Internal, fallback |-> createFallbackProvider(env)]
    ELSE IF name \in Providers /\ CanBeBuilt(name, env)
           THEN [primary |-> name, fallback |-> "none"]
           ELSE NoChain

-----------------------------------------------------------------------------
VARIABLES
  chain,     \* the providers of the client
  retryAttempts, \* its limit on the attempts with one provider
  type,      \* type of the request under way, or of the last one
  phase,     \* where the caller is suspended
  leg,       \* which provider of the chain executeWithProvider was given
  attempt,   \* its attempt
  answer,    \* output of the request, once answered
  answeredBy, \* history: the number of the call it was the answer to
  calls,     \* the calls of this request, each with how it ended
  launched,  \* calls so far, which number them
  runs,      \* server.run calls that have not returned
  sessions,  \* sessions of those runs that exist on the server
  lost,      \* history: sessions nobody knows of, since the response to their
             \* creation was lost, their deletion failed or their owner died
  requests,  \* requests so far
  deaths     \* deaths so far

requestVars == <<type, phase, leg, attempt, answer, answeredBy, calls, launched>>
clientVars  == <<chain, retryAttempts, requestVars, runs, sessions, lost, requests, deaths>>

NotAnObject == [object |-> FALSE]
NoAnswer    == [answer |-> FALSE]

\* idle     no request            calling   a call to a provider is under way
\* backoff  retryAsync sleeps     answered, failed   the request has returned
Phases == {"idle", "calling", "backoff", "answered", "failed"}

\* What a call comes back with: "passing" no connection, 408, 429 or 5xx, errors
\* whose text isRetriableProviderError recognises; "lasting" any other error,
\* a reply that is not the protocol's JSON or has no text in it; or a text.
Replies == {"passing", "lasting", "text"}

Retriable == {"passing", "timeout"}

\* A run is awaited as long as the race of withTimeout is open.
NewRun(id, t) == [id |-> id, type |-> t, at |-> "create", awaited |-> TRUE]

ClientInit ==
  /\ \E c \in Clients :
       /\ chain = createEq1ProviderChainFromEnv(c.env)
       /\ retryAttempts = IF c.attempts = 0 THEN 1 ELSE c.attempts
  /\ type = "none" /\ phase = "idle" /\ leg = "primary" /\ attempt = 0
  /\ answer = NoAnswer /\ answeredBy = 0 /\ calls = <<>> /\ launched = 0
  /\ runs = {} /\ sessions = {} /\ lost = {}
  /\ requests = 0 /\ deaths = 0

\* provider.complete of a leg: the internal provider starts a server.run.
RunOf(l, t) ==
  IF chain[l] = Internal THEN {NewRun(launched + 1, t)} ELSE {}

Begun(l) == [leg |-> l, ended |-> "under way"]

Ask(t) ==
  /\ phase \notin {"calling", "backoff"}
  /\ chain # NoChain
  /\ requests < MaxRequests
  /\ type' = t /\ phase' = "calling" /\ leg' = "primary" /\ attempt' = 1
  /\ answer' = NoAnswer /\ answeredBy' = 0
  /\ calls' = <<Begun("primary")>>
  /\ launched' = launched + 1
  /\ runs' = runs \cup RunOf("primary", t)
  /\ requests' = requests + 1
  /\ UNCHANGED <<chain, retryAttempts, sessions, lost, deaths>>

Ended(reply) == [calls EXCEPT ![Len(calls)].ended = reply]

Answers(reply, output) == reply = "text" /\ output # NotAnObject

\* Mutant: one attempt too many.
triesOnceMore(reply) == reply \in Retriable /\ attempt <= retryAttempts

\* retryAsync tries again; the text is parsed outside of it, so an answer that
\* is not an object is never asked for again.
TriesAgain(reply) == reply \in Retriable /\ attempt < retryAttempts

FallsBack == leg = "primary" /\ chain.fallback # "none"

\* The promise of provider.complete of a call settles: with an answer, an error
\* that retryAsync takes on, or one that run hands to the fallback or the caller.
CallSettles(call, reply, output, left) ==
  /\ phase = "calling"
  /\ \/ /\ Answers(reply, output)
        /\ phase' = "answered" /\ answer' = output /\ answeredBy' = call
        /\ calls' = Ended(reply) /\ runs' = left
        /\ UNCHANGED <<leg, attempt, launched>>
     \/ /\ ~Answers(reply, output) /\ TriesAgain(reply)
        /\ phase' = "backoff"
        /\ calls' = Ended(reply) /\ runs' = left
        /\ UNCHANGED <<leg, attempt, answer, answeredBy, launched>>
     \/ /\ ~Answers(reply, output) /\ ~TriesAgain(reply) /\ FallsBack
        /\ leg' = "fallback" /\ attempt' = 1
        /\ calls' = Append(Ended(reply), Begun("fallback"))
        /\ runs' = left \cup RunOf("fallback", type)
        /\ launched' = launched + 1
        /\ UNCHANGED <<phase, answer, answeredBy>>
     \/ /\ ~Answers(reply, output) /\ ~TriesAgain(reply) /\ ~FallsBack
        /\ phase' = "failed"
        /\ calls' = Ended(reply) /\ runs' = left
        /\ UNCHANGED <<leg, attempt, answer, answeredBy, launched>>
  /\ UNCHANGED <<chain, retryAttempts, type, requests, deaths>>

\* The model may put any output of the type it was asked for in a text, or
\* something that is no object.
Texts(reply, t) ==
  IF reply = "text" THEN Outputs[t] \cup {NotAnObject} ELSE {NotAnObject}

\* OpenAICompatibleProvider: fetch ends, or its AbortSignal ends it.
EndpointAnswers(reply) ==
  /\ phase = "calling" /\ chain[leg] \in Endpoints
  /\ \E output \in Texts(reply, type) : CallSettles(launched, reply, output, runs)
  /\ UNCHANGED <<sessions, lost>>

Abandoned(r) == (runs \ {r}) \cup {[r EXCEPT !.awaited = FALSE]}

\* Mutant: what the run returns later still settles the promise.
runStillAwaited ==
  /\ \E r \in runs : r.awaited /\ CallSettles(r.id, "timeout", NotAnObject, runs)
  /\ UNCHANGED <<sessions, lost>>

\* withTimeout: the timer wins the race, and the run goes on by itself.
RunTimesOut ==
  /\ \E r \in runs : /\ r.awaited
                     /\ CallSettles(r.id, "timeout", NotAnObject, Abandoned(r))
  /\ UNCHANGED <<sessions, lost>>

\* Mutant: only fetch has a time limit.
onlyFetchTimesOut == EndpointAnswers("timeout")

CallTimesOut == EndpointAnswers("timeout") \/ RunTimesOut

\* run: what it returns settles the race if it is still open, or nothing.
RunReturns(r, reply) ==
  \/ /\ r.awaited
     /\ \E output \in Texts(reply, r.type) :
          CallSettles(r.id, reply, output, runs \ {r})
  \/ /\ ~r.awaited
     /\ runs' = runs \ {r}
     /\ UNCHANGED <<chain, retryAttempts, requestVars, requests, deaths>>

RunMoves(r, label) ==
  /\ runs' = (runs \ {r}) \cup {[r EXCEPT !.at = label]}
  /\ UNCHANGED <<chain, retryAttempts, requestVars, requests, deaths>>

\* createSession stands before the try: an error ends the run, though the server
\* may have made the session and only the response is lost.
RunCreates(r) ==
  /\ r.at = "create"
  /\ \/ /\ RunMoves(r, "prompt")
        /\ sessions' = sessions \cup {r.id} /\ UNCHANGED lost
     \/ /\ \E reply \in {"passing", "lasting"} : RunReturns(r, reply)
        /\ \/ UNCHANGED <<sessions, lost>>
           \/ sessions' = sessions \cup {r.id} /\ lost' = lost \cup {r.id}

\* Mutant: without deleteAfter.
runPromptedOnly(r) ==
  /\ r.at = "prompt"
  /\ \E reply \in Replies : RunReturns(r, reply)
  /\ UNCHANGED <<sessions, lost>>

\* The prompt has ended, well or not: its finally deletes the session.
RunPrompted(r) ==
  /\ r.at = "prompt"
  /\ RunMoves(r, "delete")
  /\ UNCHANGED <<sessions, lost>>

\* deleteSession, whose failure is swallowed; only then does run return.
RunDeletes(r) ==
  /\ r.at = "delete"
  /\ \E reply \in Replies : RunReturns(r, reply)
  /\ \/ sessions' = sessions \ {r.id} /\ UNCHANGED lost
     \/ lost' = lost \cup {r.id} /\ UNCHANGED sessions

BackoffOver ==
  /\ phase = "backoff"
  /\ phase' = "calling" /\ attempt' = attempt + 1
  /\ calls' = Append(calls, Begun(leg))
  /\ launched' = launched + 1
  /\ runs' = runs \cup RunOf(leg, type)
  /\ UNCHANGED <<chain, retryAttempts, type, leg, answer, answeredBy, sessions, lost, requests, deaths>>

\* The worker's process dies and is started again: nothing goes on with its
\* runs, and their sessions stay. The prompt of one may still be working.
ProcessDies ==
  /\ deaths < MaxDeaths
  /\ deaths' = deaths + 1
  /\ phase' = "idle" /\ type' = "none" /\ leg' = "primary" /\ attempt' = 0
  /\ answer' = NoAnswer /\ answeredBy' = 0 /\ calls' = <<>>
  /\ runs' = {}
  /\ lost' = lost \cup sessions
  /\ UNCHANGED <<chain, retryAttempts, launched, sessions, requests>>

RunSteps == \E r \in runs : RunCreates(r) \/ RunPrompted(r) \/ RunDeletes(r)

CallSteps ==
  \/ \E reply \in Replies : EndpointAnswers(reply)
  \/ CallTimesOut
  \/ RunSteps
  \/ BackoffOver

ClientNext == (\E t \in Requests : Ask(t)) \/ CallSteps \/ ProcessDies

ClientSpec == ClientInit /\ [][ClientNext]_clientVars

-----------------------------------------------------------------------------
(* Properties. *)

Runs == [id: 1..launched, type: Requests,
         at: {"create", "prompt", "delete"}, awaited: BOOLEAN]

Call == [leg: {"primary", "fallback"},
         ended: Replies \cup {"timeout", "under way"}]

\* Types of the variables.
ClientTypeOK ==
  /\ chain \in [primary: Providers \cup {"none"},
                fallback: Providers \cup {"none"}]
  /\ retryAttempts \in Nat \ {0}
  /\ type \in Requests \cup {"none"}
  /\ phase \in Phases
  /\ leg \in {"primary", "fallback"}
  /\ attempt \in 0..retryAttempts
  /\ calls \in Seq(Call)
  /\ launched \in Nat
  /\ answeredBy \in 0..launched
  /\ runs \subseteq Runs
  /\ sessions \subseteq 1..launched
  /\ lost \subseteq 1..launched
  /\ requests \in 0..MaxRequests
  /\ deaths \in 0..MaxDeaths

\* The retries inside a provider and the fallback over providers multiply:
\* a request makes at most retryAttempts calls per provider of its chain, and
\* one that is answered or has failed makes no more.
CallsBounded ==
  Len(calls) <= retryAttempts * (IF chain.fallback = "none" THEN 1 ELSE 2)

\* The answer of a request comes from the last call it made and is of the type it
\* asked for. A run that was given up goes on, and may answer while a retry, the
\* fallback or the next request is under way: that answer is nobody's
\* (withTimeout, retryAsync, Eq1Client.run).
AnswerIsToItsRequest ==
  phase = "answered" => answeredBy = launched /\ answer \in Outputs[type]

\* Every session of Eq1 on the OpenCode server is about to be deleted by the run
\* that made it, also when nobody awaits the run any more, unless the response to
\* its creation was lost, its deletion failed or the process died (server.run).
SessionsAreSwept == sessions \subseteq {r.id : r \in runs} \cup lost

=============================================================================
