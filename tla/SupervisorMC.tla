----------------------------- MODULE SupervisorMC -----------------------------
(***************************************************************************)
(* Instances of Supervisor for TLC.                                        *)
(***************************************************************************)
EXTENDS Supervisor

With(changes) == changes @@ NoEnvironment

Bot == "X1_POLLER_TOKEN" :> "bot"

Off(workers) == [v \in {w \o "_ENABLED" : w \in workers} |-> "0"]

\* Two workers of each kind together; an X3 set to the empty text, to no number and to
\* one too small, a webhook without a port, a blank token, a misspelt mode.
Crews ==
  {With(("X1_MODE" :> "poller") @@ Bot @@ Off({"X3"})),
   With(("X1_MODE" :> "webhook") @@ ("X1_WEBHOOK_SECRET" :> "") @@ Off({"X3"})),
   With(("X1_MODE" :> "off")),
   With(("X1_DIRECT_TOKEN" :> "bot2") @@ Bot @@ Off({"X2", "X3"})),
   With(("X1_MODE" :> "webhook") @@ ("X1_WEBHOOK_PORT" :> "junk") @@ ("X1_ENABLED" :> "true")
         @@ Off({"X2", "X3"})),
   With(("X1_MODE" :> "off") @@ ("X3_INTERVAL_MS" :> "") @@ Off({"X2"})),
   With(("X1_MODE" :> "off") @@ ("X3_INTERVAL_MS" :> "150") @@ Off({"X2"})),
   With(("X1_MODE" :> "off") @@ ("X3_MAX_PROCESS" :> "junk") @@ Off({"X2"})),
   With(("X1_MODE" :> "poller") @@ ("X1_POLLER_TOKEN" :> " ") @@ Off({"X2", "X3"})),
   With(("X1_MODE" :> "bogus") @@ Bot)}

\* Nobody at work, and every kind of number for the readers of updates; a bot under
\* its old name beside its own.
Settings ==
  {With(("X1_POLL_LIMIT" :> n) @@ ("X1_POLL_TIMEOUT_SEC" :> m) @@ ("X1_POLL_INTERVAL_MS" :> i)
        @@ ("TELEGRAM_BOT_TOKEN" :> "other") @@ Bot @@ Off({"X1", "X2", "X3"})) :
     n, m \in {Nothing, "0", "10", "150"}, i \in {Nothing, "1", "junk", "400"}}

Installations == Crews \cup Settings

\* The same bot under the name the README gives it.
OnlyTheOldName == {With(("X1_MODE" :> "poller") @@ ("TELEGRAM_BOT_TOKEN" :> "bot"))}

\* Numbers for the retries in every order, and each agent flag.
ByHand ==
  {Arg("--retry-base-ms", base) \o Arg("--retry-max-ms", most) :
     base, most \in {"0", "150", "400", "3000", "junk"}}
    \cup {Arg("--once", Nothing) \o Arg("--enqueue", "do it") \o Arg("--retry-max-ms", "3000"),
          Arg("--bypass-agent", "omo") \o Arg("--bypass-model", "provider/model")
            \o Arg("--no-event-subscribe", Nothing),
          Arg("--agent-routing", "fixed") \o Arg("--simple-agent", "off")
            \o Arg("--no-x2-summarizer-agent", Nothing) \o Arg("--interval", "400"),
          Arg("--bypass-model", "junk"), Arg("--unknown", "1")}

=============================================================================
