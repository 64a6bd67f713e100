------------------------------- MODULE Eq1Proofs -------------------------------
(***************************************************************************)
(* Proofs about the requests to Eq1 behind every judgement: for any client *)
(* environments and retry limits, any number of requests and deaths, and   *)
(* whatever a provider answers, when it answers at all.                    *)
(***************************************************************************)
EXTENDS Judgement, TLAPS, SequenceTheorems, WellFoundedInduction

-----------------------------------------------------------------------------
(* What one step does.                                                     *)

\* A call ends in one of these ways.
Endings == Replies \cup {"timeout"}

\* The runs of a step that may start one: left are those that go on.
Launches(left) ==
  \E new \in SUBSET {NewRun(launched + 1, type')} :
    /\ runs' = left \cup new
    /\ launched' = launched + 1 \/ (launched' = launched /\ new = {})

\* The last call gets its ending and nothing else of the list changes.
LEMMA EndedCall ==
  ASSUME calls \in Seq(Call), Len(calls) > 0, NEW reply \in Endings
  PROVE  /\ Ended(reply) \in Seq(Call)
         /\ Len(Ended(reply)) = Len(calls)
<1>1. Len(calls) \in DOMAIN calls
  OBVIOUS
<1>2. calls[Len(calls)] \in Call
  OBVIOUS
<1>3. [calls[Len(calls)] EXCEPT !.ended = reply] \in Call
  BY <1>2 DEF Call, Endings
<1>4. DOMAIN Ended(reply) = 1 .. Len(calls)
  BY DEF Ended
<1>5. \A i \in 1 .. Len(calls) : Ended(reply)[i] \in Call
  BY <1>1, <1>3 DEF Ended
<1>6. Ended(reply) = [i \in 1 .. Len(calls) |-> Ended(reply)[i]]
  BY <1>4 DEF Ended
<1>. QED
  BY <1>4, <1>5, <1>6, IsASeq, LenProperties

-----------------------------------------------------------------------------
(* Type correctness of the client.                                         *)

LEMMA ChainType ==
  ASSUME NEW env
  PROVE  createEq1ProviderChainFromEnv(env)
           \in [primary : Providers \cup {"none"}, fallback : Providers \cup {"none"}]
<1>1. createFallbackProvider(env) = "throws"
        \/ createFallbackProvider(env) \in Providers \cup {"none"}
  BY DEF createFallbackProvider
<1>2. NoChain \in [primary : Providers \cup {"none"}, fallback : Providers \cup {"none"}]
  BY DEF NoChain
<1>3. Internal \in Providers
  BY DEF Providers
<1>. QED
  BY <1>1, <1>2, <1>3 DEF createEq1ProviderChainFromEnv

LEMMA NewRunType ==
  ASSUME launched \in Nat, type \in Requests \cup {"none"}, NEW t \in Requests,
         NEW l \in {"primary", "fallback"}
  PROVE  /\ RunOf(l, t) \in SUBSET {NewRun(launched + 1, t)}
         /\ NewRun(launched + 1, t) \in
              [id : 1 .. launched + 1, type : Requests,
               at : {"create", "prompt", "delete"}, awaited : BOOLEAN]
BY DEF RunOf, NewRun

\* A request under way has a type, and calls of which the last is under way.
Asking ==
  /\ phase \in {"calling", "backoff"} => type \in Requests /\ Len(calls) > 0
  /\ phase = "backoff" => attempt < retryAttempts

\* What a call that settles does to the request.
LEMMA SettleStep ==
  ASSUME ClientTypeOK, Asking, NEW call \in 0 .. launched, NEW reply \in Endings, NEW output,
         NEW left, CallSettles(call, reply, output, left)
  PROVE  /\ UNCHANGED <<chain, retryAttempts, type, requests, deaths>>
         /\ phase' \in Phases /\ leg' \in {"primary", "fallback"}
         /\ attempt' \in 0 .. retryAttempts
         /\ calls' \in Seq(Call)
         /\ Launches(left)
         /\ answeredBy' \in 0 .. launched
         /\ Asking'
<1>0. launched \in Nat /\ answeredBy \in 0 .. launched
  BY DEF ClientTypeOK
<1>1. type \in Requests /\ Len(calls) > 0 /\ calls \in Seq(Call)
  BY DEF CallSettles, Asking, ClientTypeOK
<1>2. Ended(reply) \in Seq(Call) /\ Len(Ended(reply)) = Len(calls)
  BY <1>1, EndedCall
<1>3. UNCHANGED <<chain, retryAttempts, type, requests, deaths>>
  BY DEF CallSettles
<1>4. CASE Answers(reply, output) /\ phase' = "answered" /\ calls' = Ended(reply)
           /\ runs' = left /\ answeredBy' = call /\ UNCHANGED <<leg, attempt, launched>>
  BY <1>0, <1>2, <1>3, <1>4 DEF ClientTypeOK, Phases, Launches, Asking
<1>5. CASE TriesAgain(reply) /\ phase' = "backoff" /\ calls' = Ended(reply)
           /\ runs' = left /\ UNCHANGED <<leg, attempt, answer, answeredBy, launched>>
  BY <1>0, <1>1, <1>2, <1>3, <1>5 DEF ClientTypeOK, Phases, Launches, Asking, TriesAgain
<1>6. CASE /\ FallsBack /\ leg' = "fallback" /\ attempt' = 1
           /\ calls' = Append(Ended(reply), Begun("fallback"))
           /\ runs' = left \cup RunOf("fallback", type)
           /\ launched' = launched + 1 /\ UNCHANGED <<phase, answer, answeredBy>>
  <2>1. Begun("fallback") \in Call
    BY DEF Begun, Call
  <2>2. calls' \in Seq(Call) /\ Len(calls') > 0
    BY <1>2, <1>6, <2>1
  <2>3. Launches(left)
    BY <1>1, <1>3, <1>6, NewRunType DEF Launches, ClientTypeOK
  <2>4. phase' = "calling"
    BY <1>6 DEF CallSettles
  <2>. QED
    BY <1>0, <1>1, <1>3, <1>6, <2>2, <2>3, <2>4 DEF ClientTypeOK, Phases, Asking
<1>7. CASE phase' = "failed" /\ calls' = Ended(reply) /\ runs' = left
           /\ UNCHANGED <<leg, attempt, answer, answeredBy, launched>>
  BY <1>0, <1>2, <1>3, <1>7 DEF ClientTypeOK, Phases, Launches, Asking
<1>. QED
  BY <1>4, <1>5, <1>6, <1>7 DEF CallSettles

\* The new run of a step that launches one is of the type asked for.
LEMMA LaunchType ==
  ASSUME ClientTypeOK, NEW left, left \subseteq Runs, Launches(left), type' \in Requests
  PROVE  launched' \in Nat /\ launched <= launched' /\ runs' \subseteq Runs'
<1>1. launched' \in Nat /\ launched <= launched'
  BY DEF Launches, ClientTypeOK
<1>2. ASSUME NEW r \in runs'
      PROVE  r \in Runs'
  <2>1. CASE r \in left
    <3>1. launched \in Nat /\ r \in Runs
      BY <2>1 DEF ClientTypeOK
    <3>. QED
      BY <1>1, <3>1 DEF Runs
  <2>2. CASE r \notin left
    <3>1. r = NewRun(launched + 1, type') /\ launched' = launched + 1
      BY <2>2 DEF Launches
    <3>. QED
      BY <3>1 DEF NewRun, Runs, ClientTypeOK
  <2>. QED
    BY <2>1, <2>2
<1>. QED
  BY <1>1, <1>2

\* A run that moves, and nothing else.
LEMMA MoveType ==
  ASSUME ClientTypeOK, NEW r \in runs, NEW label \in {"create", "prompt", "delete"},
         RunMoves(r, label)
  PROVE  runs' \subseteq Runs /\ UNCHANGED <<chain, retryAttempts, requestVars, requests, deaths>>
BY DEF RunMoves, ClientTypeOK, Runs

\* A run that returns settles the call that awaits it, or nothing.
LEMMA ReturnStep ==
  ASSUME ClientTypeOK, Asking, NEW r \in runs, NEW reply \in Replies, RunReturns(r, reply)
  PROVE  /\ UNCHANGED <<chain, retryAttempts, type, requests, deaths>>
         /\ phase' \in Phases /\ leg' \in {"primary", "fallback"}
         /\ attempt' \in 0 .. retryAttempts
         /\ calls' \in Seq(Call)
         /\ Launches(runs \ {r})
         /\ launched' \in Nat /\ launched <= launched' /\ runs' \subseteq Runs'
         /\ answeredBy' \in 0 .. launched'
         /\ Asking'
<1>0. r.id \in 0 .. launched /\ runs \ {r} \subseteq Runs
  BY DEF ClientTypeOK, Runs
<1>1. CASE r.awaited /\ \E output \in Texts(reply, r.type) :
                           CallSettles(r.id, reply, output, runs \ {r})
  <2>1. PICK output : CallSettles(r.id, reply, output, runs \ {r})
    BY <1>1
  <2>2. type \in Requests
    BY <2>1 DEF CallSettles, Asking
  <2>3. reply \in Endings
    BY DEF Endings
  <2>4. /\ UNCHANGED <<chain, retryAttempts, type, requests, deaths>>
        /\ phase' \in Phases /\ leg' \in {"primary", "fallback"}
        /\ attempt' \in 0 .. retryAttempts
        /\ calls' \in Seq(Call)
        /\ Launches(runs \ {r})
        /\ answeredBy' \in 0 .. launched
        /\ Asking'
    BY <1>0, <2>1, <2>3, SettleStep
  <2>5. launched' \in Nat /\ launched <= launched' /\ runs' \subseteq Runs'
    BY <1>0, <2>2, <2>4, LaunchType
  <2>6. launched \in Nat
    BY DEF ClientTypeOK
  <2>. QED
    BY <2>2, <2>4, <2>5, <2>6
<1>2. CASE runs' = runs \ {r}
           /\ UNCHANGED <<chain, retryAttempts, requestVars, requests, deaths>>
  <2>1. Launches(runs \ {r})
    BY <1>2 DEF Launches, requestVars
  <2>2. Asking'
    BY <1>2 DEF Asking, requestVars
  <2>3. runs' \subseteq Runs'
    BY <1>2 DEF ClientTypeOK, Runs, requestVars
  <2>. QED
    BY <1>2, <2>1, <2>2, <2>3 DEF ClientTypeOK, requestVars
<1>. QED
  BY <1>1, <1>2 DEF RunReturns

\* A run that was given up is of its type, and is the same run.
LEMMA AbandonedType ==
  ASSUME ClientTypeOK, NEW r \in runs
  PROVE  /\ r.id \in 0 .. launched
         /\ [r EXCEPT !.awaited = FALSE] \in Runs
         /\ [r EXCEPT !.awaited = FALSE].id = r.id
         /\ [r EXCEPT !.awaited = FALSE].at = r.at
         /\ ~[r EXCEPT !.awaited = FALSE].awaited
         /\ Abandoned(r) \subseteq Runs
<1>. DEFINE given == [r EXCEPT !.awaited = FALSE]
<1>1. r \in Runs /\ runs \subseteq Runs
  BY DEF ClientTypeOK
<1>2. given \in Runs /\ given.id = r.id /\ given.at = r.at
  BY <1>1 DEF Runs
<1>3. given.awaited = FALSE
  BY <1>1 DEF Runs
<1>4. r.id \in 0 .. launched
  BY <1>1 DEF Runs, ClientTypeOK
<1>5. Abandoned(r) \subseteq Runs
  BY <1>1, <1>2 DEF Abandoned
<1>. QED
  BY <1>2, <1>3, <1>4, <1>5

\* Together they are inductive.
Typed == ClientTypeOK /\ Asking

LEMMA TypedStep ==
  ASSUME Typed, [ClientNext]_clientVars
  PROVE  Typed'
<1>. USE DEF Typed
<1>1. ASSUME NEW t \in Requests, Ask(t)
      PROVE  Typed'
  <2>1. Launches(runs)
    BY <1>1, NewRunType DEF Ask, Launches, ClientTypeOK
  <2>2. launched' \in Nat /\ launched <= launched' /\ runs' \subseteq Runs'
    BY <1>1, <2>1, LaunchType DEF Ask, ClientTypeOK
  <2>3. Begun("primary") \in Call
    BY DEF Begun, Call
  <2>4. calls' \in Seq(Call) /\ Len(calls') > 0
    BY <1>1, <2>3 DEF Ask
  <2>5. Asking'
    BY <1>1, <2>4 DEF Ask, Asking
  <2>6. requests' \in 0 .. MaxRequests /\ attempt' \in 0 .. retryAttempts
    BY <1>1, Eq1Assumption DEF Ask, ClientTypeOK
  <2>. QED
    BY <1>1, <2>2, <2>4, <2>5, <2>6 DEF Ask, ClientTypeOK, Phases
<1>2. ASSUME NEW call \in 0 .. launched, NEW reply \in Endings, NEW output,
             NEW left, left \subseteq Runs, CallSettles(call, reply, output, left),
             UNCHANGED <<sessions, lost>>
      PROVE  Typed'
  <2>1. type' \in Requests
    BY <1>2 DEF CallSettles, Asking
  <2>2. Launches(left) /\ Asking'
    BY <1>2, SettleStep
  <2>3. launched' \in Nat /\ launched <= launched' /\ runs' \subseteq Runs'
    BY <1>2, <2>1, <2>2, LaunchType
  <2>4. sessions' \subseteq 1 .. launched' /\ lost' \subseteq 1 .. launched'
    BY <1>2, <2>3 DEF ClientTypeOK
  <2>5. answeredBy' \in 0 .. launched'
    BY <1>2, <2>3, SettleStep DEF ClientTypeOK
  <2>. QED
    BY <1>2, <2>2, <2>3, <2>4, <2>5, SettleStep DEF ClientTypeOK
<1>3. ASSUME NEW reply \in Endings, EndpointAnswers(reply)
      PROVE  Typed'
  <2>1. launched \in 0 .. launched /\ runs \subseteq Runs
    BY DEF ClientTypeOK
  <2>. QED
    BY <1>2, <1>3, <2>1 DEF EndpointAnswers
<1>4. CASE CallTimesOut
  <2>1. ASSUME NEW r \in runs, CallSettles(r.id, "timeout", NotAnObject, Abandoned(r)),
               UNCHANGED <<sessions, lost>>
        PROVE  Typed'
    BY <1>2, <2>1, AbandonedType DEF Endings
  <2>. QED
    BY <1>3, <1>4, <2>1 DEF CallTimesOut, RunTimesOut, Endings
<1>5. ASSUME NEW r \in runs, NEW reply \in Replies, RunReturns(r, reply),
             sessions' \subseteq sessions \cup {r.id}, lost' \subseteq lost \cup {r.id}
      PROVE  Typed'
  <2>1. /\ launched' \in Nat /\ launched <= launched' /\ runs' \subseteq Runs'
        /\ Asking'
    BY <1>5, ReturnStep
  <2>2. r.id \in 1 .. launched
    BY DEF ClientTypeOK, Runs
  <2>3. sessions' \subseteq 1 .. launched' /\ lost' \subseteq 1 .. launched'
    BY <1>5, <2>1, <2>2 DEF ClientTypeOK
  <2>. QED
    BY <1>5, <2>1, <2>3, ReturnStep DEF ClientTypeOK
<1>6. ASSUME NEW r \in runs, NEW label \in {"create", "prompt", "delete"},
             RunMoves(r, label), sessions' \subseteq sessions \cup {r.id}, UNCHANGED lost
      PROVE  Typed'
  <2>1. runs' \subseteq Runs
    BY <1>6, MoveType
  <2>2. UNCHANGED <<chain, retryAttempts, requestVars, requests, deaths>>
    BY <1>6 DEF RunMoves
  <2>3. r.id \in 1 .. launched
    BY DEF ClientTypeOK, Runs
  <2>4. runs' \subseteq Runs'
    BY <2>1, <2>2 DEF Runs, requestVars
  <2>. QED
    BY <1>6, <2>2, <2>3, <2>4 DEF ClientTypeOK, Asking, requestVars
<1>7. ASSUME NEW r \in runs, RunCreates(r)
      PROVE  Typed'
  <2>1. CASE RunMoves(r, "prompt") /\ sessions' = sessions \cup {r.id} /\ UNCHANGED lost
    BY <1>6, <2>1
  <2>2. CASE (\E reply \in {"passing", "lasting"} : RunReturns(r, reply))
             /\ sessions' \subseteq sessions \cup {r.id} /\ lost' \subseteq lost \cup {r.id}
    BY <1>5, <2>2 DEF Replies
  <2>. QED
    BY <1>7, <2>1, <2>2 DEF RunCreates
<1>8. ASSUME NEW r \in runs, RunPrompted(r)
      PROVE  Typed'
  BY <1>6, <1>8 DEF RunPrompted
<1>9. ASSUME NEW r \in runs, RunDeletes(r)
      PROVE  Typed'
  <2>1. PICK reply \in Replies : RunReturns(r, reply)
    BY <1>9 DEF RunDeletes
  <2>2. sessions' \subseteq sessions /\ lost' \subseteq lost \cup {r.id}
    BY <1>9 DEF RunDeletes
  <2>. QED
    BY <1>5, <2>1, <2>2
<1>10. CASE BackoffOver
  <2>1. type \in Requests /\ calls \in Seq(Call) /\ Len(calls) > 0
    BY <1>10 DEF BackoffOver, Asking, ClientTypeOK
  <2>2. Launches(runs)
    BY <1>10, <2>1, NewRunType DEF BackoffOver, Launches, ClientTypeOK
  <2>3. launched' \in Nat /\ launched <= launched' /\ runs' \subseteq Runs'
    BY <1>10, <2>1, <2>2, LaunchType DEF BackoffOver, ClientTypeOK
  <2>4. Begun(leg) \in Call
    BY DEF Begun, Call, ClientTypeOK
  <2>5. calls' \in Seq(Call) /\ Len(calls') > 0
    BY <1>10, <2>1, <2>4 DEF BackoffOver
  <2>6. attempt' \in 0 .. retryAttempts
    BY <1>10 DEF BackoffOver, Asking, ClientTypeOK
  <2>7. Asking'
    BY <1>10, <2>1, <2>5 DEF BackoffOver, Asking
  <2>. QED
    BY <1>10, <2>3, <2>5, <2>6, <2>7 DEF BackoffOver, ClientTypeOK, Phases
<1>11. CASE ProcessDies
  <2>1. deaths' \in 0 .. MaxDeaths
    BY <1>11, Eq1Assumption DEF ProcessDies, ClientTypeOK
  <2>. QED
    BY <1>11, <2>1 DEF ProcessDies, ClientTypeOK, Asking, Phases
<1>12. CASE UNCHANGED clientVars
  BY <1>12 DEF clientVars, requestVars, ClientTypeOK, Asking, Runs
<1>. QED
  BY <1>1, <1>3, <1>4, <1>7, <1>8, <1>9, <1>10, <1>11, <1>12
  DEF ClientNext, CallSteps, RunSteps, Endings

LEMMA TypedInit ==
  ASSUME ClientInit
  PROVE  Typed
<1>1. PICK c \in Clients : /\ chain = createEq1ProviderChainFromEnv(c.env)
                           /\ retryAttempts = IF c.attempts = 0 THEN 1 ELSE c.attempts
  BY DEF ClientInit
<1>2. chain \in [primary : Providers \cup {"none"}, fallback : Providers \cup {"none"}]
  BY <1>1, ChainType
<1>3. retryAttempts \in Nat \ {0}
  BY <1>1, Eq1Assumption
<1>. QED
  BY <1>2, <1>3, Eq1Assumption DEF ClientInit, Typed, ClientTypeOK, Asking, Phases

\* Whatever is judged, the client takes one of its own steps or none.
LEMMA JudgeStep ==
  ASSUME [Next]_vars
  PROVE  [ClientNext]_clientVars
<1>1. CASE Evaluate \/ AskRoute \/ Classify
  BY <1>1, JudgementAssumption DEF Evaluate, AskRoute, Classify, ClientNext
<1>2. CASE Steps
  BY <1>2 DEF Steps, EvaluationFails, Decide, Route, Relay, RouteAtOnce, Dispatch
<1>3. CASE WorkerDies
  BY <1>3 DEF WorkerDies, ClientNext
<1>4. CASE CallSteps
  BY <1>4 DEF ClientNext
<1>5. CASE UNCHANGED vars
  BY <1>5 DEF vars
<1>. QED
  BY <1>1, <1>2, <1>3, <1>4, <1>5 DEF Next

\* The client's variables keep their types: among them that an attempt is never beyond
\* the limit and that a session on the server is one a call was launched for.
THEOREM ClientTypeCorrect == Spec => []ClientTypeOK
<1>1. Init => Typed
  BY TypedInit DEF Init
<1>2. Typed => ClientTypeOK
  BY DEF Typed
<1>. QED
  BY <1>1, <1>2, JudgeStep, TypedStep, PTL DEF Spec

-----------------------------------------------------------------------------
(* A request makes a bounded number of calls.                              *)

\* What makes it inductive: the fallback's attempts come after those of the primary,
\* and only where there is a fallback.
CallsCounted ==
  /\ Len(calls) <= (IF leg = "primary" THEN 0 ELSE retryAttempts) + attempt
  /\ leg = "fallback" => chain.fallback # "none"

LEMMA CountedStep ==
  ASSUME Typed, CallsCounted, [ClientNext]_clientVars
  PROVE  CallsCounted'
<1>. USE DEF Typed
<1>1. ASSUME NEW t \in Requests, Ask(t)
      PROVE  CallsCounted'
  <2>1. Len(calls') = 1 /\ leg' = "primary" /\ attempt' = 1
    BY <1>1 DEF Ask
  <2>. QED
    BY <2>1 DEF CallsCounted
<1>2. ASSUME NEW call, NEW reply \in Endings, NEW output, NEW left,
             CallSettles(call, reply, output, left)
      PROVE  CallsCounted'
  <2>1. Len(calls) > 0 /\ calls \in Seq(Call) /\ UNCHANGED <<chain, retryAttempts>>
    BY <1>2 DEF CallSettles, Asking, ClientTypeOK
  <2>2. Ended(reply) \in Seq(Call) /\ Len(Ended(reply)) = Len(calls)
    BY <2>1, EndedCall
  <2>3. CASE calls' = Ended(reply) /\ UNCHANGED <<leg, attempt>>
    BY <2>1, <2>2, <2>3 DEF CallsCounted
  <2>4. CASE /\ FallsBack /\ leg' = "fallback" /\ attempt' = 1
             /\ calls' = Append(Ended(reply), Begun("fallback"))
    <3>1. Len(calls') = Len(calls) + 1
      BY <2>2, <2>4
    <3>2. Len(calls) <= attempt /\ attempt <= retryAttempts /\ retryAttempts \in Nat
      BY <2>4 DEF FallsBack, CallsCounted, ClientTypeOK
    <3>. QED
      BY <2>1, <2>4, <3>1, <3>2 DEF CallsCounted, FallsBack, ClientTypeOK
  <2>. QED
    BY <1>2, <2>3, <2>4 DEF CallSettles
<1>3. ASSUME UNCHANGED <<chain, retryAttempts, requestVars>>
      PROVE  CallsCounted'
  BY <1>3 DEF requestVars, CallsCounted
<1>4. ASSUME NEW reply \in Endings, EndpointAnswers(reply)
      PROVE  CallsCounted'
  BY <1>2, <1>4 DEF EndpointAnswers
<1>5. CASE CallTimesOut
  BY <1>2, <1>4, <1>5 DEF CallTimesOut, RunTimesOut, Endings
<1>6. ASSUME NEW r \in runs, NEW reply \in Replies, RunReturns(r, reply)
      PROVE  CallsCounted'
  BY <1>2, <1>3, <1>6 DEF RunReturns, Endings
<1>7. CASE RunSteps
  BY <1>3, <1>6, <1>7 DEF RunSteps, RunCreates, RunPrompted, RunDeletes, RunMoves, Replies
<1>8. CASE BackoffOver
  <2>1. calls \in Seq(Call) /\ attempt \in Nat /\ retryAttempts \in Nat
    BY DEF ClientTypeOK
  <2>2. Len(calls') = Len(calls) + 1 /\ attempt' = attempt + 1
    BY <1>8, <2>1 DEF BackoffOver
  <2>. QED
    BY <1>8, <2>1, <2>2 DEF BackoffOver, CallsCounted
<1>9. CASE ProcessDies
  <2>1. Len(calls') = 0 /\ leg' = "primary" /\ attempt' = 0
    BY <1>9 DEF ProcessDies
  <2>. QED
    BY <2>1 DEF CallsCounted
<1>10. CASE UNCHANGED clientVars
  BY <1>3, <1>10 DEF clientVars
<1>. QED
  BY <1>1, <1>4, <1>5, <1>7, <1>8, <1>9, <1>10 DEF ClientNext, CallSteps, Endings

\* However the providers fail, a request to Eq1 ends after at most retryAttempts calls
\* to each provider of its chain.
THEOREM RequestsEnd == Spec => []CallsBounded
<1>1. Init => Typed /\ CallsCounted
  BY TypedInit DEF Init, ClientInit, CallsCounted
<1>2. Typed /\ CallsCounted => CallsBounded
  BY DEF Typed, ClientTypeOK, CallsCounted, CallsBounded
<1>. QED
  BY <1>1, <1>2, JudgeStep, TypedStep, CountedStep, PTL DEF Spec

-----------------------------------------------------------------------------
(* The runs that nobody awaits any more.                                   *)

\* What makes it inductive: a run that has yet to create its session has none, and no
\* two runs are one.
Owned ==
  /\ \A r \in runs : r.at = "create" => r.id \notin sessions
  /\ \A r, q \in runs : r.id = q.id => r = q
  /\ SessionsAreSwept

\* Runs may go, with their sessions or on record, and a new one may come.
LEMMA OwnedLaunch ==
  ASSUME Typed, NEW left, left \subseteq Runs, Launches(left), sessions' \subseteq 1 .. launched,
         \A p, q \in left : p.id = q.id => p = q,
         \A q \in left : q.at = "create" => q.id \notin sessions',
         \A s \in sessions' : s \in lost' \/ \E q \in left : q.id = s
  PROVE  Owned'
<1>. USE DEF Typed
<1>. DEFINE fresh == NewRun(launched + 1, type')
<1>1. \A r \in runs' : r \in left \/ r = fresh
  BY DEF Launches
<1>2. left \subseteq runs'
  BY DEF Launches
<1>3. fresh.id = launched + 1 /\ fresh.at = "create"
  BY DEF NewRun
<1>4. \A r \in left : r.id \in 1 .. launched
  BY DEF Runs
<1>5. launched \in Nat
  BY DEF ClientTypeOK
<1>. HIDE DEF fresh
<1>6. \A r \in runs' : r.at = "create" => r.id \notin sessions'
  BY <1>1, <1>3, <1>5
<1>7. \A r, q \in runs' : r.id = q.id => r = q
  BY <1>1, <1>3, <1>4, <1>5
<1>8. \A s \in sessions' : s \in lost' \/ \E r \in runs' : r.id = s
  BY <1>2
<1>. QED
  BY <1>6, <1>7, <1>8 DEF Owned, SessionsAreSwept

\* A run that returns leaves its session only on record.
LEMMA OwnedReturn ==
  ASSUME Typed, Owned, NEW r \in runs, Launches(runs \ {r}),
         \/ UNCHANGED <<sessions, lost>> /\ r.id \notin sessions
         \/ sessions' \subseteq sessions \cup {r.id} /\ lost' = lost \cup {r.id}
         \/ sessions' = sessions \ {r.id} /\ UNCHANGED lost
  PROVE  Owned'
<1>1. /\ runs \ {r} \subseteq Runs /\ r.id \in 1 .. launched
      /\ sessions \subseteq 1 .. launched
  BY DEF Typed, ClientTypeOK, Runs
<1>2. \A p, q \in runs : p.id = q.id => p = q
  BY DEF Owned
<1>3. \A q \in runs \ {r} : q.at = "create" => q.id \notin sessions'
  BY <1>2 DEF Owned
<1>4. \A s \in sessions' : s \in lost' \/ \E q \in runs \ {r} : q.id = s
  <2>1. TAKE s \in sessions'
  <2>2. s = r.id \/ s \in lost \/ \E q \in runs : q.id = s
    BY DEF Owned, SessionsAreSwept
  <2>3. CASE s = r.id
    BY <2>3
  <2>. QED
    BY <2>2, <2>3
<1>. QED
  BY <1>1, <1>2, <1>3, <1>4, OwnedLaunch

\* A call settles, and its runs go on.
LEMMA OwnedSettle ==
  ASSUME Typed, Owned, NEW left, Launches(left), UNCHANGED <<sessions, lost>>,
         left = runs \/ \E r \in runs : left = Abandoned(r)
  PROVE  Owned'
<1>1. sessions' \subseteq 1 .. launched /\ runs \subseteq Runs
  BY DEF Typed, ClientTypeOK
<1>2. CASE left = runs
  BY <1>1, <1>2, OwnedLaunch DEF Owned, SessionsAreSwept
<1>3. ASSUME NEW r \in runs, left = Abandoned(r)
      PROVE  Owned'
  <2>. DEFINE given == [r EXCEPT !.awaited = FALSE]
  <2>1. given.id = r.id /\ given.at = r.at /\ left \subseteq Runs
    BY <1>3, AbandonedType DEF Typed
  <2>2. left = (runs \ {r}) \cup {given}
    BY <1>3 DEF Abandoned
  <2>. HIDE DEF given
  <2>3. \A p, q \in left : p.id = q.id => p = q
    BY <2>1, <2>2 DEF Owned
  <2>4. \A q \in left : q.at = "create" => q.id \notin sessions'
    BY <2>1, <2>2 DEF Owned
  <2>5. \A s \in sessions' : s \in lost' \/ \E q \in left : q.id = s
    BY <2>1, <2>2 DEF Owned, SessionsAreSwept
  <2>. QED
    BY <1>1, <2>1, <2>3, <2>4, <2>5, OwnedLaunch
<1>. QED
  BY <1>2, <1>3

\* A run moves on, its session created or not.
LEMMA OwnedMove ==
  ASSUME Typed, Owned, NEW r \in runs, NEW label \in {"prompt", "delete"},
         RunMoves(r, label), sessions' \subseteq sessions \cup {r.id}, UNCHANGED lost
  PROVE  Owned'
<1>. DEFINE moved == [r EXCEPT !.at = label]
<1>1. r \in Runs
  BY DEF Typed, ClientTypeOK
<1>2. moved.id = r.id /\ moved.at = label
  BY <1>1 DEF Runs
<1>3. runs' = (runs \ {r}) \cup {moved}
  BY DEF RunMoves
<1>. HIDE DEF moved
<1>4. \A q \in runs' : q.at = "create" => q.id \notin sessions'
  BY <1>2, <1>3 DEF Owned
<1>5. \A p, q \in runs' : p.id = q.id => p = q
  BY <1>2, <1>3 DEF Owned
<1>6. \A s \in sessions' : s \in lost' \/ \E q \in runs' : q.id = s
  <2>1. TAKE s \in sessions'
  <2>2. s = r.id \/ s \in lost \/ \E q \in runs : q.id = s
    BY DEF Owned, SessionsAreSwept
  <2>. QED
    BY <1>2, <1>3, <2>2
<1>. QED
  BY <1>4, <1>5, <1>6 DEF Owned, SessionsAreSwept

LEMMA OwnedStep ==
  ASSUME Typed, Owned, [ClientNext]_clientVars
  PROVE  Owned'
<1>. USE DEF Typed
<1>1. ASSUME NEW t \in Requests, Ask(t)
      PROVE  Owned'
  <2>1. Launches(runs)
    BY <1>1, NewRunType DEF Ask, Launches, ClientTypeOK
  <2>. QED
    BY <1>1, <2>1, OwnedSettle DEF Ask
<1>2. ASSUME NEW call \in 0 .. launched, NEW reply \in Endings, NEW output, NEW left,
             CallSettles(call, reply, output, left), UNCHANGED <<sessions, lost>>,
             left = runs \/ \E r \in runs : left = Abandoned(r)
      PROVE  Owned'
  <2>1. Launches(left)
    BY <1>2, SettleStep
  <2>. QED
    BY <1>2, <2>1, OwnedSettle
<1>3. ASSUME NEW reply \in Endings, EndpointAnswers(reply)
      PROVE  Owned'
  <2>1. launched \in 0 .. launched
    BY DEF ClientTypeOK
  <2>. QED
    BY <1>2, <1>3, <2>1 DEF EndpointAnswers
<1>4. CASE CallTimesOut
  <2>1. ASSUME NEW r \in runs, CallSettles(r.id, "timeout", NotAnObject, Abandoned(r)),
               UNCHANGED <<sessions, lost>>
        PROVE  Owned'
    BY <1>2, <2>1, AbandonedType DEF Endings
  <2>. QED
    BY <1>3, <1>4, <2>1 DEF CallTimesOut, RunTimesOut, Endings
<1>5. ASSUME NEW r \in runs, RunCreates(r)
      PROVE  Owned'
  <2>1. CASE RunMoves(r, "prompt") /\ sessions' = sessions \cup {r.id} /\ UNCHANGED lost
    BY <2>1, OwnedMove
  <2>2. CASE (\E reply \in {"passing", "lasting"} : RunReturns(r, reply))
             /\ \/ UNCHANGED <<sessions, lost>>
                \/ sessions' = sessions \cup {r.id} /\ lost' = lost \cup {r.id}
    <3>1. Launches(runs \ {r})
      BY <2>2, ReturnStep DEF Replies
    <3>2. r.id \notin sessions
      BY <1>5 DEF RunCreates, Owned
    <3>. QED
      BY <2>2, <3>1, <3>2, OwnedReturn
  <2>. QED
    BY <1>5, <2>1, <2>2 DEF RunCreates
<1>6. ASSUME NEW r \in runs, RunPrompted(r)
      PROVE  Owned'
  BY <1>6, OwnedMove DEF RunPrompted
<1>7. ASSUME NEW r \in runs, RunDeletes(r)
      PROVE  Owned'
  <2>1. Launches(runs \ {r})
    BY <1>7, ReturnStep DEF RunDeletes
  <2>2. \/ sessions' = sessions \ {r.id} /\ UNCHANGED lost
        \/ lost' = lost \cup {r.id} /\ UNCHANGED sessions
    BY <1>7 DEF RunDeletes
  <2>. QED
    BY <2>1, <2>2, OwnedReturn
<1>8. CASE BackoffOver
  <2>1. Launches(runs)
    BY <1>8, NewRunType DEF BackoffOver, Launches, ClientTypeOK, Asking
  <2>. QED
    BY <1>8, <2>1, OwnedSettle DEF BackoffOver
<1>9. CASE ProcessDies
  BY <1>9 DEF ProcessDies, Owned, SessionsAreSwept
<1>10. CASE UNCHANGED clientVars
  BY <1>10 DEF clientVars, Owned, SessionsAreSwept
<1>. QED
  BY <1>1, <1>3, <1>4, <1>5, <1>6, <1>7, <1>8, <1>9, <1>10
  DEF ClientNext, CallSteps, RunSteps, Endings

\* Time limits, retries and fallbacks leave no session behind: each on the server is one
\* that a run still has to delete, or one nobody knows of because the response to its
\* creation was lost, its deletion failed or its owner died.
THEOREM NoSessionIsForgotten == Spec => []SessionsAreSwept
<1>1. Init => Typed /\ Owned
  BY TypedInit DEF Init, ClientInit, Owned, SessionsAreSwept
<1>2. Owned => SessionsAreSwept
  BY DEF Owned
<1>. QED
  BY <1>1, <1>2, JudgeStep, TypedStep, OwnedStep, PTL DEF Spec

-----------------------------------------------------------------------------
(* Late answers.                                                           *)

\* What makes it inductive: a run whose race is open is that of the last call, and the
\* caller waits for it and asked for what it was asked.
Current ==
  /\ \A r \in runs : r.awaited =>
       phase = "calling" /\ chain[leg] = Internal /\ r.id = launched /\ r.type = type
  /\ AnswerIsToItsRequest

\* Only the run of a new call is awaited.
LEMMA LaunchCurrent ==
  ASSUME Typed, NEW left, \A r \in left : ~r.awaited, NEW t \in Requests,
         NEW l \in {"primary", "fallback"}, launched' = launched + 1,
         runs' = left \cup RunOf(l, t), leg' = l, type' = t, phase' = "calling", UNCHANGED chain
  PROVE  Current'
<1>1. \A r \in runs' : r.awaited => chain[l] = Internal /\ r = NewRun(launched + 1, t)
  BY DEF RunOf
<1>2. AnswerIsToItsRequest'
  BY DEF AnswerIsToItsRequest
<1>. QED
  BY <1>1, <1>2 DEF Current, NewRun

\* A call settles with an output of the request's type, and leaves nobody awaited.
LEMMA SettleCurrent ==
  ASSUME Typed, NEW reply \in Endings, NEW output, NEW left, \A r \in left : ~r.awaited,
         CallSettles(launched, reply, output, left), output \in Outputs[type] \cup {NotAnObject}
  PROVE  Current'
<1>1. phase = "calling" /\ UNCHANGED <<chain, type>> /\ type \in Requests
  BY DEF CallSettles, Typed, Asking
<1>2. CASE runs' = left /\ phase' # "answered"
  BY <1>2 DEF Current, AnswerIsToItsRequest
<1>3. CASE /\ runs' = left /\ answer' = output /\ answeredBy' = launched
           /\ UNCHANGED launched /\ output # NotAnObject
  BY <1>1, <1>3 DEF Current, AnswerIsToItsRequest
<1>4. CASE /\ leg' = "fallback" /\ runs' = left \cup RunOf("fallback", type)
           /\ launched' = launched + 1 /\ UNCHANGED phase
  BY <1>1, <1>4, LaunchCurrent
<1>. QED
  BY <1>1, <1>2, <1>3, <1>4 DEF CallSettles, Answers

LEMMA CurrentStep ==
  ASSUME Typed, Owned, Current, [ClientNext]_clientVars
  PROVE  Current'
<1>1. ASSUME NEW t \in Requests, Ask(t)
      PROVE  Current'
  <2>1. \A r \in runs : ~r.awaited
    BY <1>1 DEF Ask, Current
  <2>. QED
    BY <1>1, <2>1, LaunchCurrent DEF Ask
<1>2. ASSUME NEW reply \in Endings, EndpointAnswers(reply)
      PROVE  Current'
  <2>1. PICK output \in Texts(reply, type) : CallSettles(launched, reply, output, runs)
    BY <1>2 DEF EndpointAnswers
  <2>2. output \in Outputs[type] \cup {NotAnObject}
    BY <2>1 DEF Texts
  <2>3. chain[leg] # Internal
    BY <1>2 DEF EndpointAnswers, Endpoints, Internal
  <2>4. \A r \in runs : ~r.awaited
    BY <2>3 DEF Current
  <2>. QED
    BY <2>1, <2>2, <2>4, SettleCurrent
<1>3. ASSUME NEW r \in runs, r.awaited
      PROVE  r.id = launched /\ r.type = type /\ \A q \in runs \ {r} : ~q.awaited
  BY <1>3 DEF Current, Owned
<1>4. CASE RunTimesOut
  <2>1. PICK r \in runs :
          r.awaited /\ CallSettles(r.id, "timeout", NotAnObject, Abandoned(r))
    BY <1>4 DEF RunTimesOut
  <2>2. r.id = launched /\ \A q \in Abandoned(r) : ~q.awaited
    BY <1>3, <2>1, AbandonedType DEF Abandoned, Typed
  <2>3. CallSettles(launched, "timeout", NotAnObject, Abandoned(r))
    BY <2>1, <2>2
  <2>. QED
    BY <2>2, <2>3, SettleCurrent DEF Endings
<1>5. ASSUME NEW r \in runs, NEW reply \in Replies, RunReturns(r, reply)
      PROVE  Current'
  <2>1. CASE r.awaited /\ \E output \in Texts(reply, r.type) :
                             CallSettles(r.id, reply, output, runs \ {r})
    <3>1. PICK output \in Texts(reply, r.type) : CallSettles(r.id, reply, output, runs \ {r})
      BY <2>1
    <3>2. r.id = launched /\ r.type = type /\ \A q \in runs \ {r} : ~q.awaited
      BY <1>3, <2>1
    <3>3. output \in Outputs[type] \cup {NotAnObject} /\ reply \in Endings
      BY <3>1, <3>2 DEF Texts, Endings
    <3>4. CallSettles(launched, reply, output, runs \ {r})
      BY <3>1, <3>2
    <3>. QED
      BY <3>2, <3>3, <3>4, SettleCurrent
  <2>2. CASE runs' = runs \ {r}
             /\ UNCHANGED <<chain, retryAttempts, requestVars, requests, deaths>>
    BY <2>2 DEF Current, AnswerIsToItsRequest, requestVars
  <2>. QED
    BY <1>5, <2>1, <2>2 DEF RunReturns
<1>6. ASSUME NEW r \in runs, NEW label, RunMoves(r, label)
      PROVE  Current'
  <2>. DEFINE moved == [r EXCEPT !.at = label]
  <2>1. r \in Runs
    BY DEF Typed, ClientTypeOK
  <2>2. moved.id = r.id /\ moved.type = r.type /\ moved.awaited = r.awaited
    BY <2>1 DEF Runs
  <2>3. /\ runs' = (runs \ {r}) \cup {moved}
        /\ UNCHANGED <<chain, phase, leg, type, answer, answeredBy, launched>>
    BY <1>6 DEF RunMoves, requestVars
  <2>. HIDE DEF moved
  <2>. QED
    BY <2>2, <2>3 DEF Current, AnswerIsToItsRequest
<1>7. CASE RunSteps
  <2>1. PICK r \in runs : RunCreates(r) \/ RunPrompted(r) \/ RunDeletes(r)
    BY <1>7 DEF RunSteps
  <2>. QED
    BY <1>5, <1>6, <2>1 DEF RunCreates, RunPrompted, RunDeletes, Replies
<1>8. CASE BackoffOver
  <2>1. \A r \in runs : ~r.awaited
    BY <1>8 DEF BackoffOver, Current
  <2>2. leg \in {"primary", "fallback"} /\ type \in Requests
    BY <1>8 DEF BackoffOver, Typed, ClientTypeOK, Asking
  <2>3. /\ launched' = launched + 1 /\ runs' = runs \cup RunOf(leg, type)
        /\ leg' = leg /\ type' = type /\ phase' = "calling" /\ UNCHANGED chain
    BY <1>8 DEF BackoffOver
  <2>. QED
    BY <2>1, <2>2, <2>3, LaunchCurrent
<1>9. CASE ProcessDies
  BY <1>9 DEF ProcessDies, Current, AnswerIsToItsRequest
<1>10. CASE UNCHANGED clientVars
  BY <1>10 DEF clientVars, requestVars, Current, AnswerIsToItsRequest
<1>. QED
  BY <1>1, <1>2, <1>4, <1>7, <1>8, <1>9, <1>10
  DEF ClientNext, CallSteps, CallTimesOut, Endings

\* A run that answers after its time limit reaches nobody: what a request returns is the
\* answer of its own last call, not that of one it gave up before.
THEOREM NoLateAnswer == Spec => []AnswerIsToItsRequest
<1>1. Init => Typed /\ Owned /\ Current
  BY TypedInit DEF Init, ClientInit, Owned, SessionsAreSwept, Current, AnswerIsToItsRequest
<1>2. Current => AnswerIsToItsRequest
  BY DEF Current
<1>. QED
  BY <1>1, <1>2, JudgeStep, TypedStep, OwnedStep, CurrentStep, PTL DEF Spec

-----------------------------------------------------------------------------
(* What is made of the answers.                                            *)

Busy == {"calling", "backoff"}

\* What is judged knows which request it waits for; a task that waits for none has
\* none under way.
Coupled ==
  /\ kind \in Kinds /\ stage \in Stages
  /\ stage = "evaluating" => type = "evaluate"
  /\ stage = "classifying" => type = "classify"
  /\ stage \in {"evaluating", "escalated", "routing", "relaying"} => kind \in InteractionKinds
  /\ stage = "classifying" => kind \notin InteractionKinds /\ phase # "idle"
  /\ kind \notin InteractionKinds /\ stage = "start" => phase = "idle"
  /\ kind \notin InteractionKinds /\ stage = "done" => phase \notin Busy

\* A call reaches the caller only while it waits, and answers what it asked.
LEMMA CallsReach ==
  ASSUME CallSteps
  PROVE  /\ type' = type
         /\ phase \notin Busy => UNCHANGED <<phase, answer>>
         /\ phase \in Busy => phase' # "idle"
<1>1. ASSUME NEW call, NEW reply, NEW output, NEW left,
             CallSettles(call, reply, output, left)
      PROVE  type' = type /\ phase \in Busy /\ phase' # "idle"
  BY <1>1 DEF CallSettles, Busy
<1>2. CASE \E reply \in Replies : EndpointAnswers(reply)
  BY <1>1, <1>2 DEF EndpointAnswers
<1>3. CASE CallTimesOut
  BY <1>1, <1>3 DEF CallTimesOut, EndpointAnswers, RunTimesOut
<1>4. CASE BackoffOver
  BY <1>4 DEF BackoffOver, Busy
<1>5. CASE RunSteps
  <2>1. PICK r \in runs : RunCreates(r) \/ RunPrompted(r) \/ RunDeletes(r)
    BY <1>5 DEF RunSteps
  <2>2. \/ UNCHANGED <<type, phase, answer>>
        \/ \E call, reply, output, left : CallSettles(call, reply, output, left)
    BY <2>1 DEF RunCreates, RunPrompted, RunDeletes, RunMoves, RunReturns, requestVars
  <2>. QED
    BY <1>1, <2>2 DEF Busy
<1>. QED
  BY <1>2, <1>3, <1>4, <1>5 DEF CallSteps

\* The kinds of step a judgement takes.
LEMMA JudgeSteps ==
  ASSUME [Next]_vars
  PROVE  \/ Evaluate \/ AskRoute \/ Classify
         \/ EvaluationFails \/ Decide \/ Route \/ Relay \/ RouteAtOnce \/ Dispatch
         \/ WorkerDies
         \/ CallSteps /\ UNCHANGED judgeVars
         \/ UNCHANGED vars
BY DEF Next, Steps

LEMMA CoupledStep ==
  ASSUME Coupled, [Next]_vars
  PROVE  Coupled'
<1>1. CASE Evaluate \/ AskRoute \/ Classify
  BY <1>1 DEF Evaluate, AskRoute, Classify, Ask, Coupled, Stages, InteractionKinds
<1>2. CASE EvaluationFails \/ Decide \/ Route \/ Relay
  BY <1>2 DEF EvaluationFails, Decide, Route, Relay, Coupled, Stages, clientVars, requestVars
<1>3. CASE RouteAtOnce \/ Dispatch
  BY <1>3 DEF RouteAtOnce, Dispatch, Coupled, Stages, Busy, clientVars, requestVars
<1>4. CASE WorkerDies
  BY <1>4 DEF WorkerDies, ProcessDies, Coupled, Stages, Busy
<1>5. CASE CallSteps /\ UNCHANGED judgeVars
  BY <1>5, CallsReach DEF judgeVars, Coupled, Busy
<1>6. CASE UNCHANGED vars
  BY <1>6 DEF vars, judgeVars, clientVars, requestVars, Coupled
<1>. QED
  BY <1>1, <1>2, <1>3, <1>4, <1>5, <1>6, JudgeSteps

LEMMA CoupledStart ==
  ASSUME Init
  PROVE  Coupled
BY DEF Init, ClientInit, JudgeInit, Coupled, Stages

LEMMA PolicyType ==
  ASSUME NEW s \in Policies
  PROVE  /\ resolveAutoReplyPolicy(s).threshold \in 0 .. 10
         /\ resolveAutoReplyPolicy(s).strategy \in Strategies
<1>. DEFINE input == The(s.json, s.env)
<1>1. input \in s.json \cup {s.env}
  BY DEF The
<1>2. The(input.threshold, 6) \in Int
  <2>1. input.threshold \subseteq Int
    BY <1>1, FieldsAssumption
  <2>. HIDE DEF input
  <2>. QED
    BY <2>1 DEF The
<1>. HIDE DEF input
<1>3. coerceThreshold(input.threshold) \in 0 .. 10
  BY <1>2 DEF coerceThreshold
<1>4. coerceStrategy(input.strategy) \in Strategies
  BY DEF coerceStrategy, Strategies
<1>. QED
  BY <1>3, <1>4 DEF resolveAutoReplyPolicy, input

\* An evaluation is made of an answer to a request for one.
Evaluated ==
  /\ evaluation.score \in Int /\ evaluation.route \in {"auto", "user"}
  /\ evaluation = NoEvaluation \/ evaluation.score = The(evaluation.raw.score, 10)

LEMMA EvaluationType ==
  ASSUME NEW output \in Outputs["evaluate"], NEW k
  PROVE  /\ evaluate(output, k).score \in Int
         /\ evaluate(output, k).route \in {"auto", "user"}
         /\ evaluate(output, k).score = The(evaluate(output, k).raw.score, 10)
<1>1. The(output.score, 10) \in Int
  BY FieldsAssumption DEF The
<1>2. pickRoute(output, k) \in {"auto", "user"}
  BY DEF pickRoute
<1>. QED
  BY <1>1, <1>2 DEF evaluate

\* What decided an interaction: the policy, Eq1's own word, or the score.
Decided ==
  /\ decision = [action |-> decision.action, raw |-> decision.raw]
  /\ decision.action \in Actions \cup {"none", "auto"}
  /\ stage = "relaying" => decision.action = "auto_relay"
  /\ decision.action \in {"auto", "skip"} => stage = "done"
  /\ decision.action = "auto" =>
       /\ evaluation.score = The(evaluation.raw.score, 10)
       /\ decideAutoReply(evaluation.score, evaluation.route, policy) = "auto"
  /\ decision.action = "skip" /\ kind # "joshua_decision" /\ evaluation.score > 6 =>
       decision.raw.action = "skip"

JudgedInv ==
  /\ Coupled
  /\ policy.threshold \in 0 .. 10 /\ policy.strategy \in Strategies
  /\ Evaluated
  /\ Decided
  /\ dispatch.route # "undecided" => stage = "done"

LEMMA JudgedDecide ==
  ASSUME JudgedInv, AnswerIsToItsRequest, Decide
  PROVE  JudgedInv'
<1>1. answer \in Outputs["evaluate"]
  BY DEF Decide, JudgedInv, Coupled, AnswerIsToItsRequest
<1>2. /\ evaluation' = evaluate(answer, kind)
      /\ UNCHANGED <<kind, policy, dispatch>> /\ stage = "evaluating"
  BY DEF Decide, dispatchVars
<1>3. Evaluated' /\ evaluation'.score = The(evaluation'.raw.score, 10)
  BY <1>1, <1>2, EvaluationType DEF Evaluated
<1>4. Coupled'
  BY CoupledStep DEF Next, Steps, JudgedInv
<1>5. dispatch.route = "undecided"
  BY <1>2 DEF JudgedInv
<1>6. Decided'
  <2>1. CASE /\ decideAutoReply(evaluation'.score, evaluation'.route, policy) = "auto"
             /\ stage' = "done" /\ decision' = [NoDecision EXCEPT !.action = "auto"]
    BY <1>2, <1>3, <2>1 DEF Decided, NoDecision
  <2>2. CASE stage' = "escalated" /\ UNCHANGED decision
    BY <1>2, <2>2 DEF Decided, JudgedInv
  <2>. QED
    BY <2>1, <2>2 DEF Decide
<1>. QED
  BY <1>2, <1>3, <1>4, <1>5, <1>6 DEF JudgedInv

\* What is said to skip: Eq1's word, or a score that is safe.
LEMMA FallbackIsSafe ==
  ASSUME NEW e, NEW k, e.score \in Int
  PROVE  /\ fallbackAction(e, k) \in {"skip", "report"}
         /\ fallbackAction(e, k) = "skip" => k = "joshua_decision" \/ ~ (e.score > 6)
BY DEF fallbackAction

LEMMA JudgedRoute ==
  ASSUME JudgedInv, Route
  PROVE  JudgedInv'
<1>1. /\ decision' = buildRouteDecision(routeOutput, evaluation, kind)
      /\ stage' = IF decision'.action = "auto_relay" THEN "relaying" ELSE "done"
      /\ UNCHANGED <<kind, policy, evaluation, dispatch>> /\ stage = "routing"
  BY DEF Route, dispatchVars
<1>2. PICK output : output = routeOutput
  OBVIOUS
<1>3. /\ decision' = [action |-> IF output.action \in Actions THEN output.action
                                 ELSE fallbackAction(evaluation, kind),
                      raw |-> output]
  BY <1>1, <1>2 DEF buildRouteDecision
<1>4. fallbackAction(evaluation, kind) \in {"skip", "report"}
      /\ (fallbackAction(evaluation, kind) = "skip" =>
            kind = "joshua_decision" \/ ~ (evaluation.score > 6))
  BY FallbackIsSafe DEF JudgedInv, Evaluated
<1>5. Decided'
  BY <1>1, <1>3, <1>4 DEF Decided, Actions
<1>6. Coupled' /\ Evaluated'
  BY <1>1, CoupledStep DEF Next, Steps, JudgedInv, Evaluated
<1>. QED
  BY <1>1, <1>5, <1>6 DEF JudgedInv

LEMMA JudgedRelay ==
  ASSUME JudgedInv, Relay
  PROVE  JudgedInv'
<1>1. /\ UNCHANGED <<kind, policy, evaluation, dispatch>>
      /\ stage = "relaying" /\ stage' = "done" /\ decision.action = "auto_relay"
  BY DEF Relay, dispatchVars, JudgedInv, Decided
<1>2. fallbackAction(evaluation, kind) \in {"skip", "report"}
      /\ (fallbackAction(evaluation, kind) = "skip" =>
            kind = "joshua_decision" \/ ~ (evaluation.score > 6))
  BY FallbackIsSafe DEF JudgedInv, Evaluated
<1>3. \/ decision' = decision
      \/ decision' = [action |-> fallbackAction(evaluation, kind), raw |-> decision.raw]
  BY DEF Relay, JudgedInv, Decided
<1>4. Decided'
  BY <1>1, <1>2, <1>3 DEF Decided, JudgedInv, Actions
<1>5. Coupled' /\ Evaluated'
  BY <1>1, CoupledStep DEF Next, Steps, JudgedInv, Evaluated
<1>. QED
  BY <1>1, <1>4, <1>5 DEF JudgedInv

LEMMA JudgedStep ==
  ASSUME JudgedInv, AnswerIsToItsRequest, [Next]_vars
  PROVE  JudgedInv'
<1>1. Coupled'
  BY CoupledStep DEF JudgedInv
<1>2. CASE \/ Evaluate \/ AskRoute \/ Classify \/ EvaluationFails \/ WorkerDies
           \/ CallSteps /\ UNCHANGED judgeVars
           \/ UNCHANGED vars
  <2>1. /\ UNCHANGED <<kind, policy, evaluation, decision, dispatch>>
        /\ stage = "done" => stage' = "done"
        /\ stage' = "relaying" => stage = "relaying"
    BY <1>2 DEF Evaluate, AskRoute, Classify, EvaluationFails, WorkerDies, judgeVars, vars,
                interactionVars, dispatchVars
  <2>. QED
    BY <1>1, <2>1 DEF JudgedInv, Evaluated, Decided
<1>3. CASE RouteAtOnce \/ Dispatch
  <2>1. UNCHANGED <<kind, policy, evaluation, decision>> /\ stage' = "done"
    BY <1>3 DEF RouteAtOnce, Dispatch, interactionVars
  <2>. QED
    BY <1>1, <2>1 DEF JudgedInv, Evaluated, Decided
<1>. QED
  BY <1>2, <1>3, JudgedDecide, JudgedRoute, JudgedRelay, JudgeSteps

LEMMA JudgedStart ==
  ASSUME Init
  PROVE  JudgedInv
<1>1. policy.threshold \in 0 .. 10 /\ policy.strategy \in Strategies
  BY PolicyType DEF Init, JudgeInit
<1>2. evaluation = NoEvaluation /\ decision = NoDecision /\ dispatch = NoDispatch
  BY DEF Init, JudgeInit
<1>3. Evaluated
  BY <1>2 DEF Evaluated, NoEvaluation
<1>4. Decided
  <2>1. decision = [action |-> "none", raw |-> NoAnswer] /\ stage = "start"
    BY <1>2 DEF NoDecision, Init, JudgeInit
  <2>. QED
    BY <2>1 DEF Decided
<1>. QED
  BY <1>1, <1>2, <1>3, <1>4, CoupledStart DEF JudgedInv, NoDispatch

LEMMA JudgedAlways == Spec => [](JudgedInv /\ AnswerIsToItsRequest)
<1>1. Init => JudgedInv
  BY JudgedStart
<1>2. JudgedInv /\ AnswerIsToItsRequest /\ [Next]_vars => JudgedInv'
  BY JudgedStep
<1>. QED
  BY <1>1, <1>2, NoLateAnswer, PTL DEF Spec

\* A judgement's variables keep their types, through requests that fail, evaluations
\* that are made again and deaths at any stage (x3/evaluator.ts, x4/router.ts).
THEOREM JudgementTypeCorrect == Spec => []TypeOK
<1>1. JudgedInv /\ ClientTypeOK => TypeOK
  BY DEF JudgedInv, Coupled, Evaluated, Decided, TypeOK
<1>. QED
  BY <1>1, JudgedAlways, ClientTypeCorrect, PTL

\* Where the policy looks at the score, nothing is answered in the user's name unless
\* Eq1 gave a score within the threshold, or the threshold admits everything
\* (x3/policy.ts, x3/evaluator.ts:85).
THEOREM RepliesAreEarned == Spec => []AutoReplyIsEarned
<1>1. ASSUME JudgedInv PROVE AutoReplyIsEarned
  <2>. SUFFICES ASSUME decision.action = "auto",
                       policy.strategy \in {"score_only", "route_and_score"},
                       policy.threshold # 10
                PROVE  \E s \in evaluation.raw.score : s <= policy.threshold
    BY DEF AutoReplyIsEarned
  <2>1. /\ evaluation.score = The(evaluation.raw.score, 10)
        /\ decideAutoReply(evaluation.score, evaluation.route, policy) = "auto"
        /\ policy.threshold \in 0 .. 10
    BY <1>1 DEF JudgedInv, Decided
  <2>2. evaluation.score <= policy.threshold
    BY <2>1 DEF decideAutoReply
  <2>3. evaluation.raw.score # {}
    BY <2>1, <2>2 DEF The
  <2>4. evaluation.score \in evaluation.raw.score
    BY <2>1, <2>3 DEF The
  <2>. QED
    BY <2>2, <2>4
<1>. QED
  BY <1>1, JudgedAlways, PTL

\* A dangerous request that was not answered reaches somebody, also when X4's own
\* request to Eq1 or its relay fails, unless Eq1 itself said to skip it (x4/router.ts).
THEOREM DangerReachesSomebody == Spec => []DangerIsHeard
<1>1. JudgedInv => DangerIsHeard
  BY DEF JudgedInv, Decided, DangerIsHeard
<1>. QED
  BY <1>1, JudgedAlways, PTL

-----------------------------------------------------------------------------
(* Which agent a task is given to.                                         *)

LEMMA LeastNatural ==
  ASSUME NEW T, T \subseteq Nat, T # {}
  PROVE  \E x \in T : \A y \in T : x <= y
<1>1. PICK x \in T : \A y \in T : ~ (<<y, x>> \in OpToRel(<, Nat))
  BY NatLessThanWellFounded, WFMin
<1>2. \A y \in T : ~ (y < x)
  BY <1>1 DEF OpToRel
<1>. QED
  BY <1>2

\* FirstOf is one of the sets that are not empty, if there is one.
LEMMA FirstOfTexts ==
  ASSUME NEW C, NEW options \in Seq(SUBSET C)
  PROVE  \/ \E i \in DOMAIN options : options[i] # {} /\ FirstOf(options) = options[i]
         \/ (\A i \in DOMAIN options : options[i] = {}) /\ FirstOf(options) = {}
<1>. DEFINE full == {i \in DOMAIN options : options[i] # {}}
<1>1. CASE full = {}
  <2>1. \A i \in DOMAIN options : options[i] = {}
    BY <1>1
  <2>. QED
    BY <2>1 DEF FirstOf
<1>2. CASE full # {}
  <2>1. DOMAIN options = 1 .. Len(options) /\ Len(options) \in Nat
    OBVIOUS
  <2>2. full \subseteq Nat
    BY <2>1
  <2>3. PICK m \in full : \A j \in full : m <= j
    BY <1>2, <2>2, LeastNatural
  <2>4. \A j \in 1 .. (m - 1) : j \in DOMAIN options /\ ~ (j \in full)
    BY <2>1, <2>2, <2>3
  <2>5. \A j \in 1 .. (m - 1) : options[j] = {}
    BY <2>4
  <2>. DEFINE P(i) == options[i] # {} /\ \A j \in 1 .. (i - 1) : options[j] = {}
              c == CHOOSE i \in DOMAIN options : P(i)
  <2>6. m \in DOMAIN options /\ P(m)
    BY <2>3, <2>5
  <2>. HIDE DEF P
  <2>7. c \in DOMAIN options /\ P(c)
    BY <2>6
  <2>8. \E i \in DOMAIN options : options[i] # {}
    BY <2>3
  <2>9. FirstOf(options) = options[c]
    BY <2>8 DEF FirstOf, P
  <2>10. options[c] # {}
    BY <2>7 DEF P
  <2>. QED
    BY <2>7, <2>9, <2>10
<1>. QED
  BY <1>1, <1>2

\* What a classification says, by the texts in it.
LEMMA LevelOfTexts ==
  ASSUME NEW output \in Outputs["classify"], \E i \in DOMAIN output.cues : output.cues[i] # {}
  PROVE  /\ selectEq1RoutingLevel(output) # "none"
         /\ selectEq1RoutingLevel(output) = "simple" =>
              \E i \in DOMAIN output.cues : output.cues[i] = {"simple"}
<1>1. output.cues \in Seq(SUBSET {"simple", "complex"})
  BY FieldsAssumption
<1>2. PICK i \in DOMAIN output.cues : output.cues[i] # {} /\ FirstOf(output.cues) = output.cues[i]
  BY <1>1, FirstOfTexts
<1>3. output.cues[i] \subseteq {"simple", "complex"}
  BY <1>1
<1>4. "complex" \notin output.cues[i] => output.cues[i] = {"simple"}
  BY <1>2, <1>3
<1>5. CASE "complex" \in output.cues[i]
  BY <1>2, <1>5 DEF selectEq1RoutingLevel
<1>6. CASE "complex" \notin output.cues[i]
  BY <1>2, <1>4, <1>6 DEF selectEq1RoutingLevel
<1>. QED
  BY <1>5, <1>6

\* Only a task is dispatched, and where it went stays justified: nothing asks once more.
Dispatched ==
  /\ dispatch.route # "undecided" => kind \notin InteractionKinds
  /\ RiskIsNotSimple

LEMMA DispatchedByPrompt ==
  ASSUME NEW level \in {"simple", "complex"},
         RoutedTo(level, "prompt").route \in {"eq1_simple", "auto_simple"}
  PROVE  level = "simple" /\ RoutedTo(level, "prompt").route = "auto_simple"
BY DEF RoutedTo

LEMMA DispatchedAtOnce ==
  ASSUME JudgedInv, Dispatched, RouteAtOnce
  PROVE  Dispatched'
<1>1. kind \notin InteractionKinds /\ stage = "start" /\ UNCHANGED <<kind, task, phase, answer>>
  BY DEF RouteAtOnce, clientVars, requestVars
<1>2. phase = "idle"
  BY <1>1 DEF JudgedInv, Coupled
<1>3. dispatch'.route \in {"eq1_simple", "auto_simple"} =>
        dispatch' = RoutedTo(assessPromptComplexity(task), "prompt")
  BY DEF RouteAtOnce
<1>4. dispatch'.route \in {"eq1_simple", "auto_simple"} => ~ (task.length >= 320)
  BY <1>3, DispatchedByPrompt DEF assessPromptComplexity
<1>. QED
  BY <1>1, <1>2, <1>4 DEF Dispatched, RiskIsNotSimple

LEMMA DispatchedLate ==
  ASSUME JudgedInv, AnswerIsToItsRequest, Dispatched, Dispatch
  PROVE  Dispatched'
<1>1. /\ kind \notin InteractionKinds /\ type = "classify"
      /\ UNCHANGED <<kind, task, phase, answer>>
  BY DEF Dispatch, JudgedInv, Coupled, clientVars, requestVars
<1>2. phase = "answered" => answer \in Outputs["classify"]
  BY <1>1 DEF AnswerIsToItsRequest
<1>3. CASE eq1Level = "none"
  <2>1. dispatch' = RoutedTo(assessPromptComplexity(task), "prompt")
    BY <1>3 DEF Dispatch
  <2>2. phase = "answered" => \A i \in DOMAIN answer.cues : answer.cues[i] = {}
    BY <1>2, <1>3, LevelOfTexts DEF eq1Level
  <2>3. dispatch'.route \in {"eq1_simple", "auto_simple"} => ~ (task.length >= 320)
    BY <2>1, DispatchedByPrompt DEF assessPromptComplexity
  <2>. QED
    BY <1>1, <2>2, <2>3 DEF Dispatched, RiskIsNotSimple
<1>4. CASE eq1Level # "none"
  <2>1. phase = "answered" /\ eq1Level = selectEq1RoutingLevel(answer)
    BY <1>4 DEF eq1Level
  <2>2. dispatch' = RoutedTo(eq1Level, "eq1")
    BY <1>4 DEF Dispatch
  <2>3. eq1Level \in {"simple", "complex"}
    BY <1>4, <2>1 DEF selectEq1RoutingLevel
  <2>4. dispatch'.route \in {"eq1_simple", "auto_simple"} =>
          eq1Level = "simple" /\ dispatch'.route = "eq1_simple"
    BY <2>2, <2>3 DEF RoutedTo
  <2>5. eq1Level = "simple" /\ (\E i \in DOMAIN answer.cues : answer.cues[i] # {}) =>
          \E i \in DOMAIN answer.cues : answer.cues[i] = {"simple"}
    BY <1>2, <2>1, LevelOfTexts
  <2>. QED
    BY <1>1, <2>4, <2>5 DEF Dispatched, RiskIsNotSimple
<1>. QED
  BY <1>3, <1>4

LEMMA DispatchedStep ==
  ASSUME JudgedInv, AnswerIsToItsRequest, Dispatched, [Next]_vars
  PROVE  Dispatched'
<1>1. CASE \/ Evaluate \/ AskRoute \/ Classify \/ EvaluationFails \/ Decide \/ Route \/ Relay
  <2>1. /\ UNCHANGED dispatch /\ stage # "done"
    BY <1>1 DEF Evaluate, AskRoute, Classify, EvaluationFails, Decide, Route, Relay, dispatchVars
  <2>. QED
    BY <2>1 DEF Dispatched, RiskIsNotSimple, JudgedInv
<1>2. CASE WorkerDies
  <2>1. UNCHANGED <<kind, task, dispatch>> /\ phase' = "idle"
    BY <1>2 DEF WorkerDies, ProcessDies, dispatchVars
  <2>. QED
    BY <2>1 DEF Dispatched, RiskIsNotSimple
<1>3. CASE CallSteps /\ UNCHANGED judgeVars
  <2>1. UNCHANGED <<kind, task, dispatch, stage>>
    BY <1>3 DEF judgeVars, dispatchVars
  <2>2. dispatch.route # "undecided" => UNCHANGED <<phase, answer>>
    BY <1>3, CallsReach DEF Dispatched, JudgedInv, Coupled
  <2>. QED
    BY <2>1, <2>2 DEF Dispatched, RiskIsNotSimple
<1>4. CASE UNCHANGED vars
  BY <1>4 DEF vars, judgeVars, dispatchVars, clientVars, requestVars, Dispatched, RiskIsNotSimple
<1>. QED
  BY <1>1, <1>2, <1>3, <1>4, DispatchedAtOnce, DispatchedLate, JudgeSteps

\* A task whose classification speaks of risk in every text that says anything is not
\* given to the simple agent, nor is a long prompt that was not classified; a death or a
\* run that returns late changes nothing about that (x2/queue.ts).
THEOREM RiskGoesToTheComplexAgent == Spec => []RiskIsNotSimple
<1>1. Init => Dispatched
  BY DEF Init, JudgeInit, Dispatched, RiskIsNotSimple, NoDispatch
<1>2. JudgedInv /\ AnswerIsToItsRequest /\ Dispatched /\ [Next]_vars => Dispatched'
  BY DispatchedStep
<1>3. Dispatched => RiskIsNotSimple
  BY DEF Dispatched
<1>. QED
  BY <1>1, <1>2, <1>3, JudgedAlways, PTL DEF Spec
=============================================================================
