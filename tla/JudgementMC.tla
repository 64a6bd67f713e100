------------------------------ MODULE JudgementMC ------------------------------
(***************************************************************************)
(* Instances of Judgement for TLC.                                         *)
(***************************************************************************)
EXTENDS Judgement

Env(provider, fallback, own) ==
  [provider |-> provider, fallback |-> fallback, own |-> own, shared |-> {}]

Client(env, attempts) == [env |-> env, attempts |-> attempts]

\* Internal with an endpoint behind it, with itself behind it, and without
\* one for want of a key; an endpoint alone; a misspelt fallback.
FiveClients ==
  {Client(Env("unset", "unset", {"cerebras"}), 1),
   Client(Env("unset", Internal, {}), 0),
   Client(Env("unset", "unset", {}), 1),
   Client(Env("groq", "unset", {"groq"}), 2),
   Client(Env(Chained, "unsupported", {}), 1)}

ThreeRequests == {"evaluate", "route", "classify"}

SomeOutputs ==
  [evaluate |-> [action: {"none"}, score: {{}, {3}, {6}, {7}}]
                  \cup [action: {"auto", "user"}, score: {{}, {7}}],
   route    |-> [action: Actions \cup {"none"}],
   classify |-> [cues: {<<{}, {}>>, <<{}, {"simple"}>>, <<{"complex"}, {"simple"}>>,
                        <<{"simple", "complex"}, {}>>},
                 score: {{}, {7}}]]

Setting(threshold, strategy) == [threshold |-> threshold, strategy |-> strategy]

\* The defaults, a threshold below 0 in JSON, one above 10, one in between.
SomePolicies ==
  {[json |-> {}, env |-> Setting({}, "unset")],
   [json |-> {Setting({-1}, "score_only")}, env |-> Setting({6}, "route_only")],
   [json |-> {}, env |-> Setting({11}, "route_or_score")],
   [json |-> {}, env |-> Setting({9}, "score_only")],
   [json |-> {}, env |-> Setting({}, "route_only")]}

SomePrompts == {[lines |-> 1, length |-> n, keyword |-> FALSE] : n \in {10, 320}}

Crew(simple, bypass, complex, mode) ==
  [simple |-> simple, bypass |-> bypass, complex |-> complex, mode |-> mode]

SomeCrews == {Crew({"spark"}, {}, {"oholiab"}, "auto"), Crew({}, {"omo"}, {}, "auto"),
              Crew({"spark"}, {"omo"}, {"oholiab"}, "fixed")}

AllKinds == InteractionKinds \cup {"omo_request", "report"}

Default == resolveAutoReplyPolicy([json |-> {}, env |-> Setting({}, "unset")])

Groq == [primary |-> "groq", fallback |-> "none"]

\* Policies, prompts and crews vary with one chain of providers, and chains with
\* one of each: what is asked does not depend on what the answer is used for.
MCInit ==
  /\ Init
  /\ kind \in InteractionKinds =>
       /\ task = (CHOOSE p \in SomePrompts : TRUE)
       /\ crew = (CHOOSE c \in SomeCrews : TRUE)
       /\ chain # Groq => kind = "question" /\ policy = Default
  /\ kind \notin InteractionKinds =>
       /\ policy = Default
       /\ chain # Groq => crew.simple # {} /\ task.length < 320

MCSpec == MCInit /\ [][Next]_vars /\ Fairness

=============================================================================
