------------------------------ MODULE Supervisor ------------------------------
(***************************************************************************)
(* The container and the processes in it: entrypoint.sh (PID 1) starts the *)
(* OpenCode server and the supervisor of src/index.ts, which starts the    *)
(* workers; one process that ends takes the others with it, and the        *)
(* container's restart policy starts everything again.  The dashboard is   *)
(* off, as it is unless OPENCODE_DASHBOARD_ENABLED is 1.                   *)
(***************************************************************************)
EXTENDS RuntimeOptions, FiniteSets

CONSTANTS
  Environments,           \* what the container may be started with
  HandCommands,           \* command lines of an X2 worker run by hand
  MaxFaults               \* crashes, refused network calls, starts that take longer than a readiness
                          \* check waits, signals from outside: bound of the model

ASSUME SupervisorAssumption ==
  /\ MaxFaults \in Nat
  /\ HandCommands \subseteq Seq([flag : STRING, value : STRING])

VARIABLES
  env,                    \* the environment of this installation
  crew,                   \* what follows from it: specs, and the children that refuse their options
  entry,                  \* entrypoint.sh: "off", "health", "runtime", "webhook", "waiting", "down"
  status,                 \* the container's exit status, once down
  asked,                  \* the container's stop was asked for
  opencode,               \* "off", "booting", "serving", "dead", or "done": ended by itself with 0
  sup,                    \* the supervisor: "off", "loading", "watching", "stopping", "gone", "crashed"
  verdict,                \* the code it exits with
  signalled,              \* it acted on a SIGTERM
  kids,                   \* its children: "off", "booting", "checking", "working", "dead"
  code,                   \* the exit codes of the dead ones
  told,                   \* the children it sent SIGTERM to
  heard,                  \* the children whose exit it was told of
  faults

vars == <<env, crew, entry, status, asked, opencode, sup, verdict, signalled, kids, code, told, heard, faults>>

kidVars == <<kids, code>>
supVars == <<sup, verdict, signalled, told, heard>>
entryVars == <<entry, status, asked>>

Workers == {"x2", "x3", "poller", "webhook", "direct"}

\* buildChildren, in the environment entrypoint.sh exports, and what the children's
\* parseArgs will make of it.
CrewOf(given) ==
  [specs |-> Children(given), refusing |-> {k \in Children(given) : Refuses(given, k)}]

Killed == 137                                    \* exit codes of signals

Terminated == 143

Live(k) == kids[k] \in {"booting", "checking", "working"}
Up == entry \in {"health", "runtime", "webhook", "waiting"}

Fault == faults < MaxFaults /\ faults' = faults + 1

Fresh ==
  /\ opencode = "off" /\ sup = "off" /\ verdict = 0 /\ signalled = FALSE
  /\ kids = [k \in Workers |-> "off"] /\ code = [k \in Workers |-> 0]
  /\ told = {} /\ heard = {}

Init ==
  /\ env \in Environments /\ crew = CrewOf(entrypoint(env))
  /\ entry = "off" /\ status = 0 /\ asked = FALSE /\ faults = 0
  /\ Fresh

-----------------------------------------------------------------------------
(* entrypoint.sh and the container                                         *)

EntryStarts ==
  /\ entry = "off"
  /\ IF Default(env.X1_MODE, "both") \in Modes
     THEN /\ entry' = "health" /\ opencode' = "booting" /\ sup' = "loading"
          /\ UNCHANGED status
     ELSE entry' = "down" /\ status' = 1 /\ UNCHANGED <<opencode, sup>>
  /\ UNCHANGED <<env, crew, asked, verdict, signalled, kids, code, told, heard, faults>>

OpenCodeServes ==
  /\ opencode = "booting" /\ opencode' = "serving"
  /\ UNCHANGED <<env, crew, entryVars, supVars, kidVars, faults>>

OpenCodeDies ==
  /\ opencode \in {"booting", "serving"} /\ Up
  /\ opencode' \in {"dead", "done"} /\ Fault
  /\ UNCHANGED <<env, crew, entryVars, supVars, kidVars>>

\* The end of PID 1: its trap signals the processes it started, nothing waits for
\* them, and the kernel kills whatever is left.
GoesDown(exitStatus) ==
  /\ entry' = "down" /\ status' = exitStatus
  /\ opencode' = IF opencode \in {"booting", "serving"} THEN "dead" ELSE opencode
  /\ sup' = IF sup \in {"loading", "watching", "stopping"} THEN "crashed" ELSE sup
  /\ kids' = [k \in Workers |-> IF Live(k) THEN "dead" ELSE kids[k]]
  /\ code' = [k \in Workers |-> IF Live(k) THEN Killed ELSE code[k]]
  /\ UNCHANGED <<env, crew, asked, verdict, signalled, told, heard>>

\* run_readiness_checks: OpenCode answers, the supervisor's process exists, and in
\* webhook mode the webhook answers.
ReadinessPasses ==
  /\ \/ entry = "health" /\ opencode = "serving" /\ entry' = "runtime"
     \/ /\ entry = "runtime" /\ sup \in {"loading", "watching", "stopping"}
        /\ entry' = IF env.X1_MODE = "webhook" /\ Default(env.X1_ENABLED, "1") = "1"
                    THEN "webhook" ELSE "waiting"
     \/ entry = "webhook" /\ kids["webhook"] = "working" /\ entry' = "waiting"
  /\ UNCHANGED <<env, crew, status, asked, opencode, supVars, kidVars, faults>>

\* What a check asks for is gone and does not come back.
ReadinessFails ==
  /\ \/ entry = "health" /\ opencode \in {"dead", "done"}
     \/ entry = "runtime" /\ sup \in {"gone", "crashed"}
     \/ entry = "webhook" /\ kids["webhook"] \in {"off", "dead"}
                          /\ sup \notin {"loading", "watching"}
  /\ GoesDown(1) /\ UNCHANGED faults

\* It may still come, but not before READY_TIMEOUT_MS has passed.
ReadinessTimesOut ==
  /\ \/ entry = "health" /\ opencode = "booting"
     \/ entry = "webhook" /\ kids["webhook"] # "working"
  /\ GoesDown(1) /\ Fault

\* wait -n: the first of its processes to end gives the status, OpenCode's own
\* included; 1 stands for every status but 0.
WaitReturns ==
  /\ entry = "waiting" /\ UNCHANGED faults
  /\ \/ opencode = "dead" /\ GoesDown(1)
     \/ opencode = "done" /\ GoesDown(0)
     \/ sup \in {"gone", "crashed"} /\ GoesDown(verdict)

StopAsked ==
  /\ Up /\ ~asked /\ asked' = TRUE
  /\ UNCHANGED <<env, crew, entry, status, opencode, supVars, kidVars, faults>>

\* SIGTERM interrupts wait; during a readiness check the trap is put off and the
\* container ends by the runtime's SIGKILL.
Stops ==
  /\ asked /\ Up /\ UNCHANGED faults
  /\ GoesDown(IF entry = "waiting" THEN Terminated ELSE Killed)

\* restart: unless-stopped, with whatever status the container ended.
Restarts ==
  /\ entry = "down" /\ ~asked /\ entry' = "off" /\ status' = 0
  /\ opencode' = "off" /\ sup' = "off" /\ verdict' = 0 /\ signalled' = FALSE
  /\ kids' = [k \in Workers |-> "off"] /\ code' = [k \in Workers |-> 0]
  /\ told' = {} /\ heard' = {}
  /\ UNCHANGED <<env, crew, asked, faults>>

-----------------------------------------------------------------------------
(* The supervisor                                                          *)

\* Handlers, then one synchronous loop of spawns.
SupStarts ==
  /\ sup = "loading" /\ sup' = "watching"
  /\ kids' = [k \in Workers |-> IF k \in crew.specs THEN "booting" ELSE "off"]
  /\ UNCHANGED <<env, crew, entryVars, opencode, verdict, signalled, told, heard, code, faults>>

\* A spawn that throws ends the supervisor, not the children spawned before it.
SpawnFails ==
  /\ sup = "loading" /\ sup' = "crashed" /\ verdict' = 1 /\ Fault
  /\ \E spawned \in SUBSET crew.specs :
       /\ spawned # crew.specs
       /\ kids' = [k \in Workers |-> IF k \in spawned THEN "booting" ELSE "off"]
  /\ UNCHANGED <<env, crew, entryVars, opencode, signalled, told, heard, code>>

terminateAll == told' = told \cup {k \in Workers : Live(k)}

\* Mutants: an exit is taken for a stop, an orderly exit of a child for none.
exitHeardAsStop(k) ==
  /\ sup \in {"watching", "stopping"} /\ kids[k] = "dead" /\ k \notin heard
  /\ heard' = heard \cup {k}
  /\ IF sup = "watching"
     THEN sup' = "stopping" /\ verdict' = 0 /\ terminateAll
     ELSE UNCHANGED <<sup, verdict, told>>
  /\ UNCHANGED <<env, crew, entryVars, opencode, signalled, kidVars, faults>>

failureHeard(k) ==
  /\ sup \in {"watching", "stopping"} /\ kids[k] = "dead" /\ k \notin heard
  /\ heard' = heard \cup {k}
  /\ IF sup = "watching" /\ code[k] # 0
     THEN sup' = "stopping" /\ verdict' = code[k] /\ terminateAll
     ELSE UNCHANGED <<sup, verdict, told>>
  /\ UNCHANGED <<env, crew, entryVars, opencode, signalled, kidVars, faults>>

\* The first exit of a child decides the code; the later ones are not looked at.
ChildExitHeard(k) ==
  /\ sup \in {"watching", "stopping"} /\ kids[k] = "dead" /\ k \notin heard
  /\ heard' = heard \cup {k}
  /\ IF sup = "watching"
     THEN sup' = "stopping" /\ verdict' = code[k] /\ terminateAll
     ELSE UNCHANGED <<sup, verdict, told>>
  /\ UNCHANGED <<env, crew, entryVars, opencode, signalled, kidVars, faults>>

\* SIGTERM or SIGINT from outside the container's own stop.
SupSignalled ==
  /\ sup \in {"loading", "watching"} /\ Fault
  /\ IF sup = "watching"
     THEN sup' = "stopping" /\ verdict' = 0 /\ signalled' = TRUE /\ terminateAll
     ELSE sup' = "crashed" /\ verdict' = Terminated /\ UNCHANGED <<signalled, told>>
  /\ UNCHANGED <<env, crew, entryVars, opencode, heard, kidVars>>

graceWithoutKill ==                              \* a mutant: exit without SIGKILL
  /\ sup = "stopping" /\ sup' = "gone"
  /\ UNCHANGED <<env, crew, entryVars, opencode, kidVars, verdict, signalled, told, heard, faults>>

\* The timer of a shutdown: SIGKILL to what is left, then exit.
GraceEnds ==
  /\ sup = "stopping" /\ sup' = "gone"
  /\ kids' = [k \in Workers |-> IF Live(k) THEN "dead" ELSE kids[k]]
  /\ code' = [k \in Workers |-> IF Live(k) THEN Killed ELSE code[k]]
  /\ UNCHANGED <<env, crew, entryVars, opencode, verdict, signalled, told, heard, faults>>

-----------------------------------------------------------------------------
(* The children                                                            *)

Goes(k, to, exitCode) ==
  /\ kids' = [kids EXCEPT ![k] = to] /\ code' = [code EXCEPT ![k] = exitCode]
  /\ UNCHANGED <<env, crew, entryVars, supVars, opencode>>

\* parseArgs and the options built from it; a throw is fatal.
ChildBoots(k) ==
  /\ kids[k] = "booting" /\ UNCHANGED faults
  /\ IF k \in crew.refusing THEN Goes(k, "dead", 1) ELSE Goes(k, "checking", 0)

x2WantsToo(k) == k \in {"direct", "x2"} => opencode = "serving"    \* a mutant

\* The direct chatbot wants an OpenCode that answers; X2 tries twice and goes on without.
Wants(k) == k = "direct" => opencode = "serving"

ChildIsReady(k) ==
  /\ kids[k] = "checking" /\ UNCHANGED faults
  /\ IF Wants(k) THEN Goes(k, "working", 0) ELSE Goes(k, "dead", 1)

\* The bot's token is not accepted, the port is taken, the database is locked.
ChildCheckFails(k) ==
  kids[k] = "checking" /\ Fault /\ Goes(k, "dead", 1)

\* A crash, a kill from outside, or a signal its handler ends it on.
ChildDies(k) ==
  kids[k] = "working" /\ Fault /\ \E exitCode \in {0, 1, Killed} : Goes(k, "dead", exitCode)

\* SIGTERM: a handler exits with 0, before it is there the default ends the process.
ChildStops(k) ==
  /\ k \in told /\ Live(k) /\ UNCHANGED faults
  /\ Goes(k, "dead", IF kids[k] = "working" THEN 0 ELSE Terminated)

-----------------------------------------------------------------------------
Advances(k) == ChildBoots(k) \/ ChildIsReady(k)

Next ==
  \/ EntryStarts \/ OpenCodeServes \/ OpenCodeDies \/ ReadinessPasses \/ ReadinessFails
  \/ ReadinessTimesOut \/ WaitReturns \/ StopAsked \/ Stops \/ Restarts
  \/ SupStarts \/ SpawnFails \/ SupSignalled \/ GraceEnds
  \/ \E k \in Workers : \/ ChildExitHeard(k) \/ Advances(k) \/ ChildCheckFails(k)
                        \/ ChildDies(k) \/ ChildStops(k)

\* Processes run and timers fire; faults, stops and the handling of SIGTERM are not promised.
Fairness ==
  /\ WF_vars(EntryStarts) /\ WF_vars(OpenCodeServes) /\ WF_vars(ReadinessPasses)
  /\ WF_vars(ReadinessFails) /\ WF_vars(WaitReturns) /\ WF_vars(Restarts)
  /\ WF_vars(SupStarts) /\ WF_vars(GraceEnds)
  /\ \A k \in Workers : WF_vars(ChildExitHeard(k)) /\ WF_vars(Advances(k))

Spec == Init /\ [][Next]_vars /\ Fairness

-----------------------------------------------------------------------------
TypeOK ==
  /\ env \in Environments
  /\ entry \in {"off", "health", "runtime", "webhook", "waiting", "down"}
  /\ status \in Nat /\ verdict \in Nat /\ faults \in 0 .. MaxFaults
  /\ asked \in BOOLEAN /\ signalled \in BOOLEAN
  /\ opencode \in {"off", "booting", "serving", "dead", "done"}
  /\ sup \in {"off", "loading", "watching", "stopping", "gone", "crashed"}
  /\ kids \in [Workers -> {"off", "booting", "checking", "working", "dead"}]
  /\ code \in [Workers -> Nat]
  /\ told \subseteq Workers /\ heard \subseteq Workers

\* A worker lives under a supervisor that watches it or waits to kill it: only one
\* that crashed leaves workers behind, and then only until the container ends.
LivesUnderSupervision ==
  \A k \in Workers : Live(k) => sup \in {"watching", "stopping"} \/ (sup = "crashed" /\ Up)

\* The container ends with 0 only if the supervisor was told to stop, or a worker ended
\* with 0 before any was told to, or OpenCode itself ended with 0, whose status wait -n
\* passes on (entrypoint.sh:472-475): no failure of a worker or of the supervisor, and
\* none of the exits that follow it, is passed off as an orderly end.
StatusTellsWhy ==
  entry = "down" /\ status = 0 =>
    \/ signalled
    \/ \E k \in Workers : kids[k] = "dead" /\ code[k] = 0 /\ k \notin told
    \/ opencode = "done"

\* A worker that is gone, or a supervisor that is, ends the container: no part of the
\* system goes on for ever without the others.
NobodyLeftBehind ==
  /\ \A k \in Workers : (kids[k] = "dead" /\ Up) ~> entry = "down"
  /\ (sup \in {"gone", "crashed"}) ~> entry = "down"

Working ==
  /\ entry = "waiting" /\ opencode = "serving" /\ sup = "watching"
  /\ \A k \in crew.specs : kids[k] = "working"

\* In an environment whose modes are spelt right, whose options no worker refuses and
\* which starts no direct chatbot, the whole system comes up and stays up once the
\* faults are over, unless it is asked to stop: every start that died or took longer
\* than the readiness checks wait (entrypoint.sh:250, 313-329) is made again, until one
\* finds OpenCode, and in webhook mode the webhook, answering in time.
ComesUp ==
  LET WellSet == /\ Default(env.X1_MODE, "both") \in Modes
                 /\ "direct" \notin crew.specs /\ crew.refusing = {}
  IN WellSet => <>[]Working \/ <>asked

-----------------------------------------------------------------------------
(* The options, in the environment of this installation                    *)

Installed == entry = "off" /\ faults = 0

\* Unless another bot is named, what X2 reports and what is acknowledged comes from the
\* bot whose updates the poller reads: no other can write to its chats.
SameBotAnswers ==
  Installed /\ Default(env.X1_BOT_TOKEN, "") = "" =>
    LET given == entrypoint(env)
        reader == buildPollerOptions(given, commandOf(given).poller)
    IN ~reader.refused /\ ~Blank(reader.token) =>
                          /\ createReporter(given) \in {reader.token, Nothing}
                          /\ createTaskAckNotifierFromEnv(given) = reader.token

\* Whatever the variables hold, text that is no number included, both readers of a bot
\* poll it within the bounds Telegram and the code give; and with every command line it
\* accepts, an X2 worker's waits between retries grow from the base to the maximum.
WaitsAreBounded ==
  Installed =>
    LET given == entrypoint(env)
        argv == commandOf(given)
    IN /\ \A o \in {buildPollerOptions(given, argv.poller)} \cup {directOptions(given, argv.direct)} :
            o.interval >= 200 /\ o.timeout \in 1 .. 50 /\ o.limit \in 1 .. 100
       /\ \A flags \in HandCommands :
            LET o == x2Options(given, flags)
            IN ~o.refused => \A base \in o.retryBase, most \in o.retryMax, n \in 1 .. 4 :
                 LET wait == computeBackoffDelay(n, base, most)
                 IN base <= wait /\ wait <= most /\ wait <= computeBackoffDelay(n + 1, base, most)

\* The poller asks for TELEGRAM_BOT_TOKEN, --token or OPENCODE_X1_POLLER_TOKEN: given
\* the first it does not end on its own before anything went wrong.
AnyTokenWillDo ==
  ~Blank(env.TELEGRAM_BOT_TOKEN) /\ faults = 0 /\ sup = "watching" => kids["poller"] # "dead"

=============================================================================
