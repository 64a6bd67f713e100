------------------------------- MODULE Judgement -------------------------------
(***************************************************************************)
(* What X3, X4 and X2 make of Eq1's answers: whether an interaction is     *)
(* replied to without anybody (x3/evaluator.ts, x3/policy.ts), who hears   *)
(* of it otherwise (x4/router.ts), and which agent a task is given to      *)
(* (x2/queue.ts).  One interaction or one dispatch is followed through the *)
(* requests to Eq1 that decide it, whose calls are those of Eq1Client.     *)
(*                                                                         *)
(* A field of an answer that is missing or of no use is the empty set.     *)
(***************************************************************************)
EXTENDS Eq1Client, Integers

CONSTANTS
  Kinds,       \* of interactions and of tasks that are judged
  Policies,    \* the X3_AUTO_REPLY_* variables of the deployments in play
  Prompts,     \* the prompts of tasks, as far as their complexity goes
  Crews        \* the agents of the deployments, and the routing mode

\* What X3, X4 and X2 ask of Eq1.
ASSUME JudgementAssumption == {"evaluate", "route", "classify"} \subseteq Requests

\* The numbers toNumber finds, here integers, and the cues of each text.
ASSUME FieldsAssumption ==
  /\ \A s \in Policies : \A input \in s.json \cup {s.env} : input.threshold \subseteq Int
  /\ \A output \in Outputs["evaluate"] : output.score \subseteq Int
  /\ \A output \in Outputs["classify"] : output.cues \in Seq(SUBSET {"simple", "complex"})

VARIABLES
  kind,       \* what is judged
  stage,      \* how far it has come
  policy,     \* autoReplyPolicy
  evaluation, \* InteractionEvaluation
  decision,   \* X4RouteDecision, or "auto"
  task,       \* the prompt of the task
  crew,       \* simpleAgent, bypassAgent, complexAgent, agentRoutingMode
  dispatch    \* DispatchRoute

interactionVars == <<policy, evaluation, decision>>
dispatchVars    == <<task, crew, dispatch>>
judgeVars == <<kind, stage, interactionVars, dispatchVars>>
vars == <<clientVars, judgeVars>>

InteractionKinds == {"permission", "question", "joshua_decision"}

The(field, default) == IF field = {} THEN default ELSE CHOOSE v \in field : TRUE

-----------------------------------------------------------------------------
(* x3/policy.ts *)

\* Mutant: a threshold above 10 is kept.
coerceThresholdUnclamped(raw) == IF The(raw, 6) < 0 THEN 0 ELSE The(raw, 6)

coerceThreshold(raw) ==
  LET value == The(raw, 6) IN
  IF value < 0 THEN 0 ELSE IF value > 10 THEN 10 ELSE value

Strategies == {"route_only", "score_only", "route_and_score", "route_or_score"}

coerceStrategy(raw) == IF raw \in Strategies THEN raw ELSE "route_and_score"

\* A policy in JSON replaces the variables; one that is no JSON is as good as
\* none, and one that is no object has no fields.
resolveAutoReplyPolicy(settings) ==
  LET input == The(settings.json, settings.env) IN
  [threshold |-> coerceThreshold(input.threshold),
   strategy  |-> coerceStrategy(input.strategy)]

\* policy.fallback is for a score that is no number, which evaluate rules out.
decideAutoReply(score, route, p) ==
  LET scoreFactor == score <= p.threshold
      routeFactor == route = "auto"
      wanted == \/ p.strategy = "route_only" /\ routeFactor
                \/ p.strategy = "score_only" /\ scoreFactor
                \/ p.strategy = "route_or_score" /\ (routeFactor \/ scoreFactor)
                \/ p.strategy = "route_and_score" /\ routeFactor /\ scoreFactor
  IN IF wanted THEN "auto" ELSE "user"

-----------------------------------------------------------------------------
(* x3/evaluator.ts: an answer has an action, of which only the words it      *)
(* knows matter, and a score.  buildPrompt asks for a route, never read.     *)

pickRoute(output, k) ==
  LET threshold == IF k = "joshua_decision" THEN 3 ELSE 6 IN
  IF output.action \in {"auto", "user"} THEN output.action
  ELSE IF output.score # {} /\ The(output.score, 10) <= threshold
         THEN "auto" ELSE "user"

\* Mutant: an answer without a score counts as the safest.
evaluateTrusting(output, k) ==
  [score |-> The(output.score, 0), route |-> pickRoute(output, k),
   raw |-> output]

evaluate(output, k) ==
  [score |-> The(output.score, 10), route |-> pickRoute(output, k),
   raw |-> output]

NoEvaluation == [score |-> 10, route |-> "user", raw |-> NoAnswer]

-----------------------------------------------------------------------------
(* x4/router.ts *)

Actions == {"report", "new_task", "auto_relay", "skip"}

\* Mutant: a score of 7 is not reported.
fallbackActionLate(e, k) ==
  IF k = "joshua_decision" \/ e.score <= 7 THEN "skip" ELSE "report"

fallbackAction(e, k) ==
  IF k = "joshua_decision" \/ e.score <= 6 THEN "skip" ELSE "report"

\* A failed request leaves the empty object for an answer.
routeOutput == IF phase = "answered" THEN answer ELSE [action |-> "none"]

buildRouteDecision(output, e, k) ==
  [action |-> IF output.action \in Actions THEN output.action
              ELSE fallbackAction(e, k),
   raw |-> output]

NoDecision == [action |-> "none", raw |-> NoAnswer]

-----------------------------------------------------------------------------
(* x2/queue.ts *)

\* The prompt's lines and length, and whether it holds one of the keywords.
assessPromptComplexity(p) ==
  IF p.lines >= 8 \/ p.length >= 320 \/ p.keyword THEN "complex" ELSE "simple"

FirstOf(options) ==
  IF \E i \in DOMAIN options : options[i] # {}
    THEN options[CHOOSE i \in DOMAIN options :
                   options[i] # {} /\ \A j \in 1..(i - 1) : options[j] = {}]
    ELSE {}

preferredAgentForLevel(level) ==
  IF level = "complex" THEN FirstOf(<<crew.complex, crew.bypass, crew.simple>>)
  ELSE FirstOf(<<crew.simple, crew.bypass, crew.complex>>)

\* Mutant: the cues of simplicity are looked for first.
selectSimpleFirst(output) ==
  LET first == FirstOf(output.cues) IN
  IF "simple" \in first THEN "simple"
  ELSE IF "complex" \in first THEN "complex"
  ELSE IF output.score = {} THEN "none"
  ELSE IF The(output.score, 0) >= 7 THEN "complex" ELSE "simple"

\* A classification holds up to six texts, here the sets of cues found in each;
\* the first with a cue counts, and in it a cue of complexity counts for more.
selectEq1RoutingLevel(output) ==
  LET first == FirstOf(output.cues) IN
  IF "complex" \in first THEN "complex"
  ELSE IF "simple" \in first THEN "simple"
  ELSE IF output.score = {} THEN "none"
  ELSE IF The(output.score, 0) >= 7 THEN "complex" ELSE "simple"

eq1Level ==
  IF phase = "answered" THEN selectEq1RoutingLevel(answer) ELSE "none"

NoDispatch == [agent |-> {}, route |-> "undecided"]

RoutedTo(level, by) ==
  [agent |-> preferredAgentForLevel(level),
   route |-> IF by = "eq1" THEN IF level = "complex" THEN "eq1_complex"
                                ELSE "eq1_simple"
             ELSE IF level = "complex" THEN "auto_complex" ELSE "auto_simple"]

-----------------------------------------------------------------------------
JudgeInit ==
  /\ kind \in Kinds
  /\ stage = "start"
  /\ policy \in {resolveAutoReplyPolicy(s) : s \in Policies}
  /\ evaluation = NoEvaluation /\ decision = NoDecision
  /\ task \in Prompts
  /\ crew \in Crews
  /\ dispatch = NoDispatch

Init == ClientInit /\ JudgeInit

\* evaluator.evaluate sends the interaction to Eq1.  Without a chain of
\* providers X3 has no processor, and its interactions stay pending.
Evaluate ==
  /\ kind \in InteractionKinds /\ stage = "start"
  /\ Ask("evaluate")
  /\ stage' = "evaluating"
  /\ UNCHANGED <<kind, interactionVars, dispatchVars>>

\* processNext throws: the interaction is pending still, for the next tick.
EvaluationFails ==
  /\ stage = "evaluating" /\ phase = "failed"
  /\ stage' = "start"
  /\ UNCHANGED <<clientVars, kind, interactionVars, dispatchVars>>

\* respond decides; to escalate X4 first has an agent summarise the context,
\* a run on the OpenCode server without a time limit, which may fail.
Decide ==
  /\ stage = "evaluating" /\ phase = "answered"
  /\ evaluation' = evaluate(answer, kind)
  /\ \/ /\ decideAutoReply(evaluation'.score, evaluation'.route, policy) = "auto"
        /\ stage' = "done" /\ decision' = [NoDecision EXCEPT !.action = "auto"]
     \/ /\ decideAutoReply(evaluation'.score, evaluation'.route, policy) = "user"
        /\ stage' = "escalated" /\ UNCHANGED decision
  /\ UNCHANGED <<clientVars, kind, policy, dispatchVars>>

AskRoute ==
  /\ stage = "escalated"
  /\ Ask("route")
  /\ stage' = "routing"
  /\ UNCHANGED <<kind, interactionVars, dispatchVars>>

\* routeInteraction: only a question can be answered by continuing.
Route ==
  /\ stage = "routing" /\ phase \in {"answered", "failed"}
  /\ decision' = buildRouteDecision(routeOutput, evaluation, kind)
  /\ stage' = IF decision'.action = "auto_relay" THEN "relaying" ELSE "done"
  /\ UNCHANGED <<clientVars, kind, policy, evaluation, dispatchVars>>

\* tryAutoRelay: replyQuestion is accepted, or not even sent, or refused.
Relay ==
  /\ stage = "relaying"
  /\ stage' = "done"
  /\ \/ kind # "permission" /\ UNCHANGED decision
     \/ decision' = [decision EXCEPT !.action = fallbackAction(evaluation, kind)]
  /\ UNCHANGED <<clientVars, kind, policy, evaluation, dispatchVars>>

\* resolveDispatchRoute, the cases that need no Eq1.
RouteAtOnce ==
  /\ kind \notin InteractionKinds /\ stage = "start"
  /\ \/ /\ kind # "omo_request"
        /\ dispatch' = [agent |-> {}, route |-> "none"]
     \/ /\ kind = "omo_request" /\ crew.mode = "fixed"
        /\ dispatch' = [agent |-> crew.bypass, route |-> "fixed"]
     \/ /\ kind = "omo_request" /\ crew.mode = "auto" /\ chain = NoChain
        /\ dispatch' = RoutedTo(assessPromptComplexity(task), "prompt")
  /\ stage' = "done"
  /\ UNCHANGED <<clientVars, kind, interactionVars, task, crew>>

Classify ==
  /\ kind = "omo_request" /\ crew.mode = "auto" /\ stage = "start"
  /\ Ask("classify")
  /\ stage' = "classifying"
  /\ UNCHANGED <<kind, interactionVars, dispatchVars>>

\* resolveEq1RoutingDecision has come back: the prompt decides if Eq1 did not.
Dispatch ==
  /\ stage = "classifying" /\ phase \in {"answered", "failed"}
  /\ dispatch' = IF eq1Level = "none"
                   THEN RoutedTo(assessPromptComplexity(task), "prompt")
                   ELSE RoutedTo(eq1Level, "eq1")
  /\ stage' = "done"
  /\ UNCHANGED <<clientVars, kind, interactionVars, task, crew>>

\* The interaction of a dead X3 is pending still; X2 fails the task it finds.
WorkerDies ==
  /\ ProcessDies
  /\ stage' = IF kind \in InteractionKinds /\ stage # "done" THEN "start"
              ELSE "done"
  /\ UNCHANGED <<kind, interactionVars, dispatchVars>>

Steps ==
  \/ EvaluationFails \/ Decide \/ Route \/ Relay \/ RouteAtOnce \/ Dispatch

Next ==
  \/ Evaluate \/ AskRoute \/ Classify \/ Steps \/ WorkerDies
  \/ CallSteps /\ UNCHANGED judgeVars

\* Timers fire and the worker goes on; nothing is assumed of the providers.
Fairness ==
  /\ WF_vars(CallTimesOut /\ UNCHANGED judgeVars)
  /\ WF_vars(BackoffOver /\ UNCHANGED judgeVars)
  /\ WF_vars(Steps)

Spec == Init /\ [][Next]_vars /\ Fairness

-----------------------------------------------------------------------------
(* Properties. *)

Stages == {"start", "evaluating", "escalated", "routing", "relaying",
           "classifying", "done"}

\* Types of the variables, and what has been decided by each stage.
TypeOK ==
  /\ ClientTypeOK
  /\ kind \in Kinds /\ stage \in Stages
  /\ policy.threshold \in 0..10 /\ policy.strategy \in Strategies
  /\ evaluation.route \in {"auto", "user"}
  /\ decision.action \in Actions \cup {"none", "auto"}
  /\ stage = "relaying" => decision.action = "auto_relay"
  /\ dispatch.route # "undecided" => stage = "done"

\* Where the policy looks at the score, nothing is answered in the user's name
\* unless Eq1 gave a score and it is within the threshold: an answer without
\* a score counts as the most dangerous one.  A threshold of 10 admits that too.
AutoReplyIsEarned ==
  decision.action = "auto" /\ policy.strategy \in {"score_only", "route_and_score"}
    => \/ policy.threshold = 10
       \/ \E s \in evaluation.raw.score : s <= policy.threshold

\* A dangerous request that was not answered reaches somebody, also when X4's
\* own request to Eq1 fails or its relay does: a report, a task or a reply,
\* unless Eq1 itself said to skip it.
DangerIsHeard ==
  kind \in InteractionKinds \ {"joshua_decision"} /\ stage = "done"
    /\ evaluation.score > 6 /\ decision.action = "skip"
      => decision.raw.action = "skip"

\* A classification that speaks of risk in every text that says anything goes
\* to the complex agent, whatever else it says, its score included; so does
\* a long prompt when there is no classification.
RiskIsNotSimple ==
  dispatch.route \in {"eq1_simple", "auto_simple"} =>
    /\ phase = "answered" /\ (\E i \in DOMAIN answer.cues : answer.cues[i] # {})
         => \E i \in DOMAIN answer.cues : answer.cues[i] = {"simple"}
    /\ task.length >= 320 => dispatch.route = "eq1_simple"

\* A dispatch that waits for a classification is routed, even when no provider
\* ever answers: the time limit of the call ends the wait.
EveryDispatchIsRouted == stage = "classifying" ~> stage = "done"

=============================================================================
