---------------------------- MODULE RuntimeOptions ----------------------------
(***************************************************************************)
(* From the environment of the container to the options its workers run    *)
(* with: the defaults entrypoint.sh writes, the command lines the          *)
(* supervisor builds for its children and what each child's parseArgs      *)
(* makes of its command line and of the same environment.                  *)
(*                                                                         *)
(* An environment maps variables to texts, Nothing when unset.  The prefix *)
(* OPENCODE_ of a name is left out, and one variable, TELEGRAM_BOT_TOKEN   *)
(* or POLLING_INTERVAL_MS, stands for the older names a chain ends with.   *)
(***************************************************************************)
EXTENDS Integers, Sequences, TLC

Nothing == "<nothing>"                          \* undefined, null: never a text

Variables ==
  {"X1_MODE", "X1_ENABLED", "X2_ENABLED", "X3_ENABLED", "BASE_URL", "X1_BOT_TOKEN",
   "X1_POLLER_TOKEN", "TELEGRAM_BOT_TOKEN", "X1_POLLER_SOURCE", "X1_ALLOWED_USER_IDS",
   "X1_POLL_INTERVAL_MS", "POLLING_INTERVAL_MS", "X1_POLL_TIMEOUT_SEC", "X1_POLL_LIMIT",
   "X1_DIRECT_TOKEN", "X1_DIRECT_BASE_URL", "X1_DIRECT_AGENT", "X1_DIRECT_SESSION_MODE",
   "X1_WEBHOOK_PORT", "X1_WEBHOOK_SECRET", "X3_INTERVAL_MS", "X3_MAX_PROCESS",
   "X2_TELEGRAM_REPORT", "X2_AGENT_ROUTING", "X2_AGENT_BYPASS_AGENT", "X2_AGENT_BYPASS_MODEL"}

NoEnvironment == [v \in Variables |-> Nothing]

-----------------------------------------------------------------------------
(* Reading texts                                                           *)

Blank(text) == text \in {Nothing, "", " "}      \* null or empty once trimmed

\* The first of the texts that is not one of skipped.
FirstOutside(skipped, texts) ==
  LET kept == {i \in DOMAIN texts : texts[i] \notin skipped}
  IN IF kept = {} THEN Nothing ELSE texts[CHOOSE i \in kept : \A j \in kept : i <= j]

Coalesce(texts) == FirstOutside({Nothing}, texts)                        \* a ?? b ?? c
firstNonEmpty(texts) == FirstOutside({Nothing, "", " "}, texts)
Default(text, default) == IF text \in {Nothing, ""} THEN default ELSE text \* ${a:-b}

Numerals ==
  [text \in {"0", "1", "10", "150", "400", "3000"} |->
     CASE text = "0"   -> 0   [] text = "1"   -> 1   [] text = "10"   -> 10
       [] text = "150" -> 150 [] text = "400" -> 400 [] text = "3000" -> 3000]

\* Number(text): no number at all for NaN.
Number(text) ==
  IF text \in DOMAIN Numerals THEN {Numerals[text]} ELSE IF text \in {"", " "} THEN {0} ELSE {}

AtLeast(least, number) == \E n \in number : n >= least

parseNumber(text, fallback) ==
  IF AtLeast(1, Number(text)) THEN CHOOSE n \in Number(text) : TRUE ELSE fallback

AtLeastOf(n, low) == IF n < low THEN low ELSE n                          \* Math.max
AtMostOf(n, high) == IF n > high THEN high ELSE n                        \* Math.min

parseBoolEnv(text, fallback) ==
  IF text \in {"1", "true"} THEN TRUE ELSE IF text \in {"0", "false"} THEN FALSE ELSE fallback

parseOptionalAgent(text, fallback) ==
  IF text = Nothing THEN fallback ELSE IF Blank(text) \/ text = "off" THEN Nothing ELSE text

-----------------------------------------------------------------------------
(* The container's defaults.  Those entrypoint.sh keeps to itself, as      *)
(* X3_INTERVAL_MS, never reach the supervisor.                             *)

entrypoint(env) ==
  LET Shell(v) ==
        CASE v = "X1_MODE"                  -> Default(env[v], "both")
          [] v \in {"BASE_URL", "X1_DIRECT_BASE_URL"} -> Default(env[v], "local")
          [] v = "X1_BOT_TOKEN"             ->
               Default(env[v], Default(env.X1_POLLER_TOKEN, Default(env.TELEGRAM_BOT_TOKEN, "")))
          [] v = "X1_POLLER_SOURCE"         -> Default(env[v], "x1_telegram")
          [] v = "X1_WEBHOOK_PORT"          -> Default(env[v], "5100")
          [] v = "X1_DIRECT_AGENT"          -> Default(env[v], "spark")
          [] v = "X1_DIRECT_SESSION_MODE"   -> Default(env[v], "per-chat")
          [] v = "X2_TELEGRAM_REPORT"       -> Default(env[v], "1")
          [] v \in {"X1_POLLER_TOKEN", "X1_DIRECT_TOKEN", "X1_ALLOWED_USER_IDS",
                    "X1_POLL_INTERVAL_MS", "X1_POLL_TIMEOUT_SEC", "X1_POLL_LIMIT"} ->
               Default(env[v], "")
          [] OTHER                          -> env[v]
  IN [v \in Variables |-> Shell(v)]

Modes == {"poller", "webhook", "direct", "both", "off"}

-----------------------------------------------------------------------------
(* The supervisor's children and their command lines                       *)

Arg(flag, value) == <<[flag |-> flag, value |-> value]>>
ArgIfAny(flag, value) == IF Blank(value) THEN <<>> ELSE Arg(flag, value)

parseX1Mode(text) == IF text \in Modes THEN text ELSE "both"

Children(env) ==
  LET Enabled(v) == parseBoolEnv(env[v], TRUE)
      mode == parseX1Mode(env.X1_MODE)
  IN (IF Enabled("X2_ENABLED") THEN {"x2"} ELSE {})
       \cup (IF Enabled("X3_ENABLED") THEN {"x3"} ELSE {})
       \cup (IF ~Enabled("X1_ENABLED") THEN {}
             ELSE (IF mode \in {"poller", "both"} THEN {"poller"} ELSE {})
                    \cup (IF mode = "webhook" THEN {"webhook"} ELSE {})
                    \cup (IF mode \in {"direct", "both"} /\ ~Blank(env.X1_DIRECT_TOKEN)
                          THEN {"direct"} ELSE {}))

OpenCodeUrl(env) == IF Blank(env.BASE_URL) THEN "local" ELSE env.BASE_URL

commandOf(env) ==
  [x2      |-> Arg("--base-url", OpenCodeUrl(env)),
   poller  |-> ArgIfAny("--token", env.X1_POLLER_TOKEN)
                 \o Arg("--source", Coalesce(<<env.X1_POLLER_SOURCE, "x1_telegram">>))
                 \o ArgIfAny("--allowed-users", env.X1_ALLOWED_USER_IDS)
                 \o ArgIfAny("--poll-interval", env.X1_POLL_INTERVAL_MS)
                 \o ArgIfAny("--poll-timeout", env.X1_POLL_TIMEOUT_SEC)
                 \o ArgIfAny("--poll-limit", env.X1_POLL_LIMIT),
   webhook |-> Arg("--port", Coalesce(<<env.X1_WEBHOOK_PORT, "5100">>))
                 \o ArgIfAny("--secret", env.X1_WEBHOOK_SECRET),
   direct  |-> ArgIfAny("--token", env.X1_DIRECT_TOKEN)
                 \o Arg("--agent", Coalesce(<<env.X1_DIRECT_AGENT, "spark">>))
                 \o Arg("--base-url", Coalesce(<<env.X1_DIRECT_BASE_URL, "local">>))
                 \o Arg("--session-mode", Coalesce(<<env.X1_DIRECT_SESSION_MODE, "per-chat">>))
                 \o ArgIfAny("--poll-interval", env.X1_POLL_INTERVAL_MS),
   x3      |-> Arg("--base-url", OpenCodeUrl(env))
                 \o Arg("--interval", Coalesce(<<env.X3_INTERVAL_MS, "3000">>))
                 \o Arg("--max-process", Coalesce(<<env.X3_MAX_PROCESS, "10">>))]

-----------------------------------------------------------------------------
(* parseArgs of the children.  An option record is read flag by flag; a    *)
(* throw leaves it refused.                                                *)

\* texts and numbers name the field each flag sets; a text that is no number keeps
\* the value so far where keeps says so, and is taken for what it is elsewhere.
TakeArg(options, arg, texts, numbers, keeps) ==
  IF arg.value \in {Nothing, ""} \/ arg.flag \notin DOMAIN texts \cup DOMAIN numbers
  THEN [options EXCEPT !.refused = TRUE]
  ELSE IF arg.flag \in DOMAIN texts
  THEN [options EXCEPT ![texts[arg.flag]] = arg.value]
  ELSE [options EXCEPT ![numbers[arg.flag]] =
          IF keeps THEN parseNumber(arg.value, @) ELSE Number(arg.value)]

\* The loop over the command line: the options after each of its arguments.
ReadArgs(defaults, argv, texts, numbers, keeps) ==
  LET read[i \in 0 .. Len(argv)] ==
        IF i = 0 THEN defaults ELSE TakeArg(read[i - 1], argv[i], texts, numbers, keeps)
  IN read[Len(argv)]

PollTexts ==
  [flag \in {"--token", "--source", "--allowed-users"} |->
     CASE flag = "--token" -> "token" [] flag = "--source" -> "source"
       [] flag = "--allowed-users" -> "allowed"]
PollNumbers ==
  [flag \in {"--poll-interval", "--poll-timeout", "--poll-limit"} |->
     CASE flag = "--poll-interval" -> "interval" [] flag = "--poll-timeout" -> "timeout"
       [] flag = "--poll-limit" -> "limit"]

\* Numbers from a chain of variables, of which the first that is set counts.
PollDefaults(env) ==
  [refused  |-> FALSE, token |-> Nothing,
   source   |-> Default(firstNonEmpty(<<env.X1_POLLER_SOURCE>>), "x1_telegram"),
   allowed  |-> firstNonEmpty(<<env.X1_ALLOWED_USER_IDS>>),
   interval |-> parseNumber(Coalesce(<<env.X1_POLL_INTERVAL_MS, env.POLLING_INTERVAL_MS>>), 1000),
   timeout  |-> parseNumber(env.X1_POLL_TIMEOUT_SEC, 25),
   limit    |-> parseNumber(env.X1_POLL_LIMIT, 100)]

\* What both readers of a bot's updates do with their token and numbers.
WithinLimits(options, token) ==
  [options EXCEPT !.token    = token,
                  !.refused  = @ \/ token \in {Nothing, ""},
                  !.interval = AtLeastOf(@, 200),
                  !.timeout  = AtMostOf(AtLeastOf(@, 1), 50),
                  !.limit    = AtMostOf(AtLeastOf(@, 1), 100)]

buildPollerOptions(env, argv) ==
  LET args == ReadArgs(PollDefaults(env), argv, PollTexts, PollNumbers, TRUE)
  IN WithinLimits(args, Coalesce(<<args.token, env.X1_POLLER_TOKEN, env.TELEGRAM_BOT_TOKEN>>))

parseSessionMode(text, fallback) == IF text \in {"per-chat", "oneshot"} THEN text ELSE fallback

DirectTexts ==
  [flag \in {"--base-url", "--agent", "--session-mode"} \cup DOMAIN PollTexts |->
     CASE flag = "--base-url" -> "baseUrl" [] flag = "--agent" -> "agent"
       [] flag = "--session-mode" -> "sessionMode" [] OTHER -> PollTexts[flag]]

DirectDefaults(env) ==
  [option \in {"baseUrl", "agent", "sessionMode"} \cup DOMAIN PollDefaults(env) |->
     CASE option = "baseUrl"     -> Default(firstNonEmpty(<<env.X1_DIRECT_BASE_URL, env.BASE_URL>>),
                                            "local")
       [] option = "agent"       -> Default(firstNonEmpty(<<env.X1_DIRECT_AGENT>>), "spark")
       [] option = "sessionMode" -> parseSessionMode(env.X1_DIRECT_SESSION_MODE, "per-chat")
       [] OTHER                  -> PollDefaults(env)[option]]

directOptions(env, argv) ==
  LET args == ReadArgs(DirectDefaults(env), argv, DirectTexts, PollNumbers, TRUE)
      options == [args EXCEPT !.sessionMode = parseSessionMode(@, "per-chat"),
                              !.refused     = @ \/ Blank(args.agent)]
  IN WithinLimits(options, Coalesce(<<args.token, env.X1_DIRECT_TOKEN>>))

webhookOptions(env, argv) ==
  LET args == ReadArgs([refused |-> FALSE, port |-> {5100}, secret |-> env.X1_WEBHOOK_SECRET],
                       argv, "--secret" :> "secret", "--port" :> "port", FALSE)
  IN [args EXCEPT !.refused = @ \/ ~AtLeast(1, args.port)]

x3Options(env, argv) ==
  LET args == ReadArgs([refused |-> FALSE, baseUrl |-> Coalesce(<<env.BASE_URL, "local">>),
                        interval |-> {3000}, most |-> {10}],
                       argv, "--base-url" :> "baseUrl",
                       "--interval" :> "interval" @@ "--max-process" :> "most", FALSE)
  IN [args EXCEPT !.refused = @ \/ ~AtLeast(200, args.interval) \/ ~AtLeast(1, args.most)]

parseRoutingMode(text, fallback) == IF text \in {"auto", "fixed"} THEN text ELSE fallback

IsModel(text) == text = "provider/model"        \* both sides of a slash present

X2Numbers ==
  [flag \in {"--interval", "--max-retries", "--retry-base-ms", "--retry-max-ms"} |->
     CASE flag = "--interval" -> "interval" [] flag = "--max-retries" -> "maxRetries"
       [] flag = "--retry-base-ms" -> "retryBase" [] flag = "--retry-max-ms" -> "retryMax"]
X2Texts ==
  [flag \in {"--base-url", "--enqueue", "--source"} |->
     CASE flag = "--base-url" -> "baseUrl" [] flag = "--enqueue" -> "enqueue"
       [] flag = "--source" -> "source"]
X2Agents ==
  [flag \in {"--simple-agent", "--complex-agent", "--x2-summarizer-agent"} |->
     CASE flag = "--simple-agent" -> "simple" [] flag = "--complex-agent" -> "complex"
       [] flag = "--x2-summarizer-agent" -> "summarizer"]

TakeX2Arg(options, arg) ==
  LET given == arg.value \notin {Nothing, ""}
  IN IF arg.flag = "--once" THEN [options EXCEPT !.once = TRUE]
     ELSE IF arg.flag = "--no-event-subscribe" THEN [options EXCEPT !.eventSubscribe = FALSE]
     ELSE IF arg.flag = "--no-x2-summarizer-agent" THEN [options EXCEPT !.summarizer = Nothing]
     ELSE IF given /\ arg.flag \in DOMAIN X2Agents
     THEN [options EXCEPT ![X2Agents[arg.flag]] = parseOptionalAgent(arg.value, Nothing)]
     ELSE IF given /\ arg.flag = "--agent-routing"
     THEN [options EXCEPT !.mode = parseRoutingMode(arg.value, "auto")]
     ELSE IF given /\ arg.flag = "--bypass-agent"
     THEN [options EXCEPT !.bypassAgent = arg.value, !.mode = "fixed"]
     ELSE IF arg.flag = "--bypass-model" /\ IsModel(arg.value)
     THEN [options EXCEPT !.bypassModel = arg.value]
     ELSE TakeArg(options, arg, X2Texts, X2Numbers, FALSE)

ReadX2Args(defaults, argv) ==
  LET read[i \in 0 .. Len(argv)] == IF i = 0 THEN defaults ELSE TakeX2Arg(read[i - 1], argv[i])
  IN read[Len(argv)]

\* A model misspelt in the environment is dropped, one on the command line is refused.
X2Defaults(env) ==
  [refused |-> FALSE, once |-> FALSE, enqueue |-> Nothing, source |-> "cli",
   baseUrl |-> Default(firstNonEmpty(<<env.BASE_URL>>), "local"),
   mode |-> parseRoutingMode(env.X2_AGENT_ROUTING, "auto"),
   bypassAgent |-> parseOptionalAgent(env.X2_AGENT_BYPASS_AGENT, Nothing),
   bypassModel |-> IF IsModel(env.X2_AGENT_BYPASS_MODEL) THEN env.X2_AGENT_BYPASS_MODEL ELSE Nothing,
   simple |-> "spark", complex |-> "oholiab", summarizer |-> "x2-summarizer",
   eventSubscribe |-> TRUE, interval |-> {3000}, maxRetries |-> {1},
   retryBase |-> {3000}, retryMax |-> {60000}]

x2OptionsUnordered(env, argv) ==                \* a mutant: base and maximum not compared
  LET args == ReadX2Args(X2Defaults(env), argv)
      Short(number, least) == ~AtLeast(least, number)
  IN [args EXCEPT !.refused = @ \/ Short(args.interval, 200) \/ Short(args.maxRetries, 0)
                                \/ Short(args.retryBase, 100) \/ Short(args.retryMax, 100)]

x2Options(env, argv) ==
  LET args == ReadX2Args(X2Defaults(env), argv)
      Short(number, least) == ~AtLeast(least, number)
  IN [args EXCEPT !.refused = @ \/ Short(args.interval, 200) \/ Short(args.maxRetries, 0)
                                \/ Short(args.retryBase, 100) \/ Short(args.retryMax, 100)
                                \/ \E base \in args.retryBase : Short(args.retryMax, base)]

\* The wait before the next attempt, doubled by each.
computeBackoffDelay(attempt, base, most) ==
  LET calculated[exponent \in Nat] == IF exponent = 0 THEN base ELSE 2 * calculated[exponent - 1]
  IN AtMostOf(calculated[AtLeastOf(attempt - 1, 0)], most)

\* Whether a child throws on the options the supervisor gives it.
Refuses(env, child) ==
  LET argv == commandOf(env)[child]
  IN CASE child = "x2"      -> x2Options(env, argv).refused
       [] child = "x3"      -> x3Options(env, argv).refused
       [] child = "poller"  -> buildPollerOptions(env, argv).refused
       [] child = "webhook" -> webhookOptions(env, argv).refused
       [] child = "direct"  -> directOptions(env, argv).refused

-----------------------------------------------------------------------------
(* The bot that speaks for the other workers                               *)

reporterOfOldName(env) ==                       \* a mutant: the old name first
  LET token == Coalesce(<<env.TELEGRAM_BOT_TOKEN, env.X1_BOT_TOKEN, env.X1_POLLER_TOKEN>>)
  IN IF ~parseBoolEnv(env.X2_TELEGRAM_REPORT, TRUE) \/ Blank(token) THEN Nothing ELSE token

\* The token of X2's reports: Nothing leaves them on the console.
createReporter(env) ==
  LET token == Coalesce(<<env.X1_BOT_TOKEN, env.X1_POLLER_TOKEN, env.TELEGRAM_BOT_TOKEN>>)
  IN IF ~parseBoolEnv(env.X2_TELEGRAM_REPORT, TRUE) \/ Blank(token) THEN Nothing ELSE token

\* The token of the acknowledgements X1 and X2 send.
createTaskAckNotifierFromEnv(env) ==
  firstNonEmpty(<<env.X1_BOT_TOKEN, env.X1_POLLER_TOKEN, env.TELEGRAM_BOT_TOKEN>>)

=============================================================================
