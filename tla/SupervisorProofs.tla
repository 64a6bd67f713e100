---------------------------- MODULE SupervisorProofs ----------------------------
(***************************************************************************)
(* Proofs about the container and its supervisor, for any environment,     *)
(* whatever workers follow from it, and any number of faults; and about    *)
(* the options, for any variables and command lines.                       *)
(***************************************************************************)
EXTENDS Supervisor, TLAPS, WellFoundedInduction

-----------------------------------------------------------------------------
(* Type correctness. *)

\* The end of PID 1 keeps the types.
LEMMA GoesDownType ==
  ASSUME TypeOK, NEW exitStatus \in Nat, GoesDown(exitStatus), faults' \in 0 .. MaxFaults
  PROVE  TypeOK'
<1>1. entry' = "down" /\ status' \in Nat
  BY DEF GoesDown
<1>2. opencode' \in {"off", "booting", "serving", "dead", "done"}
  BY DEF GoesDown, TypeOK
<1>3. sup' \in {"off", "loading", "watching", "stopping", "gone", "crashed"}
  BY DEF GoesDown, TypeOK
<1>4. kids' \in [Workers -> {"off", "booting", "checking", "working", "dead"}]
  BY DEF GoesDown, TypeOK
<1>5. code' \in [Workers -> Nat]
  BY DEF GoesDown, TypeOK, Killed
<1>. QED
  BY <1>1, <1>2, <1>3, <1>4, <1>5 DEF GoesDown, TypeOK

\* A step of a child keeps the types.
LEMMA GoesType ==
  ASSUME TypeOK, NEW k \in Workers, NEW exitCode \in Nat,
         NEW to \in {"off", "booting", "checking", "working", "dead"},
         Goes(k, to, exitCode), faults' \in 0 .. MaxFaults
  PROVE  TypeOK'
BY DEF Goes, TypeOK, entryVars, supVars

LEMMA FaultType ==
  ASSUME TypeOK, Fault
  PROVE  faults' \in 0 .. MaxFaults
BY SupervisorAssumption DEF Fault, TypeOK

LEMMA TypeStep ==
  ASSUME TypeOK, [Next]_vars
  PROVE  TypeOK'
<1>. USE SupervisorAssumption
<1>1. CASE EntryStarts
  BY <1>1 DEF EntryStarts, TypeOK
<1>2. CASE OpenCodeServes
  BY <1>2 DEF OpenCodeServes, TypeOK, entryVars, supVars, kidVars
<1>3. CASE OpenCodeDies
  BY <1>3, FaultType DEF OpenCodeDies, TypeOK, entryVars, supVars, kidVars
<1>4. CASE ReadinessPasses
  BY <1>4 DEF ReadinessPasses, TypeOK, supVars, kidVars
<1>5. CASE ReadinessFails \/ ReadinessTimesOut
  <2>1. faults' \in 0 .. MaxFaults
    BY <1>5, FaultType DEF ReadinessFails, ReadinessTimesOut, TypeOK
  <2>. QED
    BY <1>5, <2>1, GoesDownType DEF ReadinessFails, ReadinessTimesOut
<1>6. CASE WaitReturns
  BY <1>6, GoesDownType DEF WaitReturns, TypeOK
<1>7. CASE StopAsked
  BY <1>7 DEF StopAsked, TypeOK, supVars, kidVars
<1>8. CASE Stops
  BY <1>8, GoesDownType DEF Stops, Terminated, Killed, TypeOK
<1>9. CASE Restarts
  BY <1>9 DEF Restarts, TypeOK
<1>10. CASE SupStarts
  BY <1>10 DEF SupStarts, TypeOK, entryVars
<1>11. CASE SpawnFails
  BY <1>11, FaultType DEF SpawnFails, TypeOK, entryVars
<1>12. CASE SupSignalled
  <2>1. faults' \in 0 .. MaxFaults
    BY <1>12, FaultType DEF SupSignalled
  <2>2. told' \subseteq Workers
    BY <1>12 DEF SupSignalled, TypeOK, terminateAll
  <2>3. sup' \in {"stopping", "crashed"} /\ verdict' \in Nat
    BY <1>12 DEF SupSignalled, Terminated
  <2>4. signalled' \in BOOLEAN
    BY <1>12, Zenon DEF SupSignalled, TypeOK
  <2>. QED
    BY <1>12, <2>1, <2>2, <2>3, <2>4 DEF SupSignalled, TypeOK, entryVars, kidVars
<1>13. CASE GraceEnds
  BY <1>13 DEF GraceEnds, TypeOK, entryVars, Killed
<1>14. ASSUME NEW k \in Workers, ChildExitHeard(k)
       PROVE  TypeOK'
  BY <1>14 DEF ChildExitHeard, TypeOK, entryVars, kidVars, terminateAll
<1>15. ASSUME NEW k \in Workers, Advances(k) \/ ChildCheckFails(k) \/ ChildDies(k) \/ ChildStops(k)
       PROVE  TypeOK'
  <2>1. faults' \in 0 .. MaxFaults
    BY <1>15, FaultType DEF Advances, ChildBoots, ChildIsReady, ChildCheckFails,
                            ChildDies, ChildStops, TypeOK
  <2>. QED
    BY <1>15, <2>1, GoesType DEF Advances, ChildBoots, ChildIsReady, ChildCheckFails,
                                 ChildDies, ChildStops, Killed, Terminated
<1>16. CASE UNCHANGED vars
  BY <1>16 DEF vars, TypeOK
<1>. QED
  BY <1>1, <1>2, <1>3, <1>4, <1>5, <1>6, <1>7, <1>8, <1>9, <1>10, <1>11, <1>12,
     <1>13, <1>14, <1>15, <1>16 DEF Next

\* Every process, code and signal record keeps its type, whatever ends and restarts.
THEOREM TypeCorrect == Spec => []TypeOK
<1>1. ASSUME Init
      PROVE  TypeOK
  <2>1. /\ kids \in [Workers -> {"off", "booting", "checking", "working", "dead"}]
        /\ code \in [Workers -> Nat]
    BY <1>1 DEF Init, Fresh
  <2>2. told \subseteq Workers /\ heard \subseteq Workers
    BY <1>1 DEF Init, Fresh
  <2>3. faults \in 0 .. MaxFaults
    BY <1>1, SupervisorAssumption DEF Init
  <2>4. status \in Nat /\ verdict \in Nat /\ asked \in BOOLEAN /\ signalled \in BOOLEAN
    BY <1>1 DEF Init, Fresh
  <2>. QED
    BY <1>1, <2>1, <2>2, <2>3, <2>4 DEF Init, Fresh, TypeOK
<1>. QED
  BY <1>1, TypeStep, PTL DEF Spec

-----------------------------------------------------------------------------
(* No worker is left without a supervisor.                                 *)

\* What makes it inductive: a container that is not up has no supervisor either, and
\* one that starts has none left from its last run.
Housed ==
  /\ LivesUnderSupervision
  /\ ~Up => sup \notin {"loading", "watching", "stopping"}
  /\ entry = "off" => sup = "off"

LEMMA GoesDownHoused ==
  ASSUME TypeOK, NEW exitStatus, GoesDown(exitStatus)
  PROVE  Housed'
<1>1. \A k \in Workers : ~Live(k)'
  BY DEF GoesDown, Live, TypeOK
<1>2. sup' \notin {"loading", "watching", "stopping"} /\ entry' # "off"
  BY DEF GoesDown
<1>. QED
  BY <1>1, <1>2 DEF Housed, LivesUnderSupervision

\* A child that goes on from where it is was alive there.
LEMMA GoesHoused ==
  ASSUME TypeOK, Housed, NEW k \in Workers, Live(k), NEW to, NEW exitCode,
         Goes(k, to, exitCode)
  PROVE  Housed'
<1>1. \A c \in Workers : Live(c)' => Live(c)
  BY DEF Goes, Live, TypeOK
<1>2. UNCHANGED <<sup, entry>>
  BY DEF Goes, entryVars, supVars
<1>. QED
  BY <1>1, <1>2 DEF Housed, LivesUnderSupervision, Up

LEMMA HousedStep ==
  ASSUME TypeOK, Housed, [Next]_vars
  PROVE  Housed'
<1>. USE DEF Housed, LivesUnderSupervision, Up
<1>1. CASE EntryStarts
  BY <1>1 DEF EntryStarts, Live
<1>2. CASE OpenCodeServes \/ OpenCodeDies
  BY <1>2 DEF OpenCodeServes, OpenCodeDies, entryVars, supVars, kidVars, Live
<1>3. CASE ReadinessPasses
  BY <1>3 DEF ReadinessPasses, supVars, kidVars, Live
<1>4. CASE ReadinessFails \/ ReadinessTimesOut \/ WaitReturns \/ Stops
  BY <1>4, GoesDownHoused DEF ReadinessFails, ReadinessTimesOut, WaitReturns, Stops
<1>5. CASE StopAsked
  BY <1>5 DEF StopAsked, supVars, kidVars, Live
<1>6. CASE Restarts
  BY <1>6 DEF Restarts, Live
<1>7. CASE SupStarts
  BY <1>7 DEF SupStarts, entryVars, Live
<1>8. CASE SpawnFails
  BY <1>8 DEF SpawnFails, entryVars, Live
<1>9. CASE SupSignalled
  BY <1>9 DEF SupSignalled, entryVars, kidVars, Live
<1>10. CASE GraceEnds
  BY <1>10 DEF GraceEnds, entryVars, Live, TypeOK
<1>11. ASSUME NEW k \in Workers, ChildExitHeard(k)
       PROVE  Housed'
  BY <1>11 DEF ChildExitHeard, entryVars, kidVars, Live
<1>12. ASSUME NEW k \in Workers, Advances(k) \/ ChildCheckFails(k) \/ ChildDies(k) \/ ChildStops(k)
       PROVE  Housed'
  BY <1>12, GoesHoused DEF Advances, ChildBoots, ChildIsReady, ChildCheckFails,
                           ChildDies, ChildStops, Live
<1>13. CASE UNCHANGED vars
  BY <1>13 DEF vars, Live
<1>. QED
  BY <1>1, <1>2, <1>3, <1>4, <1>5, <1>6, <1>7, <1>8, <1>9, <1>10, <1>11, <1>12,
     <1>13 DEF Next

\* Whatever crashes, refuses to spawn or is signalled, a worker runs only while a
\* supervisor watches it, kills it, or has crashed with the container still up.
THEOREM WorkersAreSupervised == Spec => []LivesUnderSupervision
<1>1. Init => Housed
  BY DEF Init, Fresh, Housed, LivesUnderSupervision, Live, Up
<1>2. Housed => LivesUnderSupervision
  BY DEF Housed
<1>. QED
  BY <1>1, <1>2, HousedStep, TypeCorrect, PTL DEF Spec

-----------------------------------------------------------------------------
(* The container's exit status.                                            *)

\* Why the container may end with 0.
Orderly ==
  \/ signalled
  \/ \E k \in Workers : kids[k] = "dead" /\ code[k] = 0 /\ k \notin told
  \/ opencode = "done"

\* A supervisor that is to exit with 0 has such a reason, before the status says so;
\* and a worker that ends while it watches has not been told to stop.
Reasoned ==
  /\ StatusTellsWhy
  /\ sup \in {"off", "loading", "watching"} => told = {}
  /\ verdict = 0 /\ (sup = "stopping" \/ (sup \in {"gone", "crashed"} /\ Up)) => Orderly

\* The dead stay dead with the code they died with, so a reason lasts.
LEMMA OrderlyLasts ==
  ASSUME TypeOK, Orderly, UNCHANGED <<signalled, told>>,
         opencode = "done" => opencode' = "done",
         \A k \in Workers : kids[k] = "dead" => kids'[k] = "dead" /\ code'[k] = code[k]
  PROVE  Orderly'
BY DEF Orderly

LEMMA GoesDownReasoned ==
  ASSUME TypeOK, Reasoned, NEW exitStatus \in Nat, GoesDown(exitStatus),
         exitStatus = 0 => Orderly
  PROVE  Reasoned'
<1>1. \A k \in Workers : kids[k] = "dead" => kids'[k] = "dead" /\ code'[k] = code[k]
  BY DEF GoesDown, Live, TypeOK
<1>2. UNCHANGED <<signalled, told, verdict>> /\ status' = exitStatus /\ entry' = "down"
      /\ (opencode = "done" => opencode' = "done")
  BY DEF GoesDown
<1>3. status' = 0 => Orderly'
  BY <1>1, <1>2, OrderlyLasts
<1>4. sup' = "off" => sup = "off"
  BY DEF GoesDown
<1>5. sup' \notin {"loading", "watching", "stopping"}
  BY DEF GoesDown
<1>. QED
  BY <1>2, <1>3, <1>4, <1>5 DEF Reasoned, StatusTellsWhy, Orderly, Up

LEMMA GoesReasoned ==
  ASSUME TypeOK, Housed, Reasoned, NEW k \in Workers, Live(k), NEW to, NEW exitCode,
         Goes(k, to, exitCode)
  PROVE  Reasoned'
<1>1. \A c \in Workers : kids[c] = "dead" => kids'[c] = "dead" /\ code'[c] = code[c]
  BY DEF Goes, Live, TypeOK
<1>2. UNCHANGED <<sup, entry, status, signalled, told, verdict, opencode>>
  BY DEF Goes, entryVars, supVars
<1>3. Orderly => Orderly'
  BY <1>1, <1>2, OrderlyLasts
<1>. QED
  BY <1>2, <1>3 DEF Reasoned, StatusTellsWhy, Orderly, Up

LEMMA ReasonedStep ==
  ASSUME TypeOK, Housed, Reasoned, [Next]_vars
  PROVE  Reasoned'
<1>. DEFINE Same == /\ UNCHANGED <<signalled, told, kids, code>>
                    /\ opencode = "done" => opencode' = "done"
<1>1. Same => (Orderly => Orderly')
  BY DEF Orderly
<1>. HIDE DEF Same
<1>2. CASE EntryStarts
  BY <1>2 DEF EntryStarts, Reasoned, StatusTellsWhy, Housed, Up
<1>3. CASE OpenCodeServes \/ OpenCodeDies \/ ReadinessPasses \/ StopAsked
  <2>1. Same /\ UNCHANGED <<sup, verdict>>
    BY <1>3 DEF OpenCodeServes, OpenCodeDies, ReadinessPasses, StopAsked, Same,
                supVars, kidVars
  <2>2. UNCHANGED entry \/ (Up /\ Up' /\ entry' # "down")
    BY <1>3 DEF OpenCodeServes, OpenCodeDies, ReadinessPasses, StopAsked, Up, entryVars
  <2>3. UNCHANGED status
    BY <1>3 DEF OpenCodeServes, OpenCodeDies, ReadinessPasses, StopAsked, entryVars
  <2>. QED
    BY <1>1, <2>1, <2>2, <2>3 DEF Reasoned, StatusTellsWhy, Orderly, Up, Same
<1>4. CASE ReadinessFails \/ ReadinessTimesOut
  BY <1>4, GoesDownReasoned DEF ReadinessFails, ReadinessTimesOut
<1>5. CASE WaitReturns
  <2>1. PICK exitStatus \in Nat : GoesDown(exitStatus) /\ (exitStatus = 0 => Orderly)
    BY <1>5 DEF WaitReturns, Reasoned, Up, TypeOK, Orderly
  <2>. QED
    BY <2>1, GoesDownReasoned
<1>6. CASE Stops
  BY <1>6, GoesDownReasoned DEF Stops, Terminated, Killed
<1>7. CASE Restarts
  BY <1>7 DEF Restarts, Reasoned, StatusTellsWhy
<1>8. CASE SupStarts
  BY <1>8 DEF SupStarts, Reasoned, StatusTellsWhy, Housed, Up, entryVars
<1>9. CASE SpawnFails
  BY <1>9 DEF SpawnFails, Reasoned, StatusTellsWhy, Housed, Up, entryVars
<1>10. CASE SupSignalled
  <2>1. UNCHANGED <<entry, status>> /\ entry # "down"
    BY <1>10 DEF SupSignalled, Housed, Up, entryVars
  <2>2. CASE sup = "watching"
    <3>1. sup' = "stopping" /\ signalled'
      BY <1>10, <2>2 DEF SupSignalled
    <3>. QED
      BY <2>1, <3>1 DEF Reasoned, StatusTellsWhy, Orderly
  <2>3. CASE sup # "watching"
    <3>1. sup' = "crashed" /\ verdict' = 143
      BY <1>10, <2>3 DEF SupSignalled, Terminated
    <3>. QED
      BY <2>1, <3>1 DEF Reasoned, StatusTellsWhy
  <2>. QED
    BY <2>2, <2>3
<1>11. CASE GraceEnds
  <2>1. \A k \in Workers : kids[k] = "dead" => kids'[k] = "dead" /\ code'[k] = code[k]
    BY <1>11 DEF GraceEnds, Live, TypeOK
  <2>2. UNCHANGED <<signalled, told, verdict, entry, status, opencode>>
    BY <1>11 DEF GraceEnds, entryVars
  <2>3. Orderly => Orderly'
    BY <2>1, <2>2, OrderlyLasts
  <2>. QED
    BY <1>11, <2>2, <2>3 DEF GraceEnds, Reasoned, StatusTellsWhy, Orderly
<1>12. ASSUME NEW k \in Workers, ChildExitHeard(k)
       PROVE  Reasoned'
  <2>1. UNCHANGED <<entry, status, signalled, kids, code>> /\ kids[k] = "dead"
    BY <1>12 DEF ChildExitHeard, entryVars, kidVars
  <2>2. entry # "down"
    BY <1>12 DEF ChildExitHeard, Housed, Up
  <2>3. CASE sup = "watching"
    <3>1. k \notin told'
      BY <1>12, <2>1, <2>3 DEF ChildExitHeard, Reasoned, terminateAll, Live
    <3>2. verdict' = 0 => Orderly'
      BY <1>12, <2>1, <2>3, <3>1 DEF ChildExitHeard, Orderly
    <3>3. sup' = "stopping"
      BY <1>12, <2>3 DEF ChildExitHeard
    <3>. QED
      BY <2>1, <2>2, <3>2, <3>3 DEF Reasoned, StatusTellsWhy
  <2>4. CASE sup # "watching"
    <3>1. Same /\ UNCHANGED <<sup, verdict>>
      BY <1>12, <2>1, <2>4 DEF ChildExitHeard, Same
    <3>. QED
      BY <1>1, <2>1, <2>2, <3>1 DEF Reasoned, StatusTellsWhy, Up, Same
  <2>. QED
    BY <2>3, <2>4
<1>13. ASSUME NEW k \in Workers, Advances(k) \/ ChildCheckFails(k) \/ ChildDies(k) \/ ChildStops(k)
       PROVE  Reasoned'
  BY <1>13, GoesReasoned DEF Advances, ChildBoots, ChildIsReady, ChildCheckFails,
                             ChildDies, ChildStops, Live
<1>14. CASE UNCHANGED vars
  BY <1>14 DEF vars, Reasoned, StatusTellsWhy, Orderly, Up
<1>. QED
  BY <1>2, <1>3, <1>4, <1>5, <1>6, <1>7, <1>8, <1>9, <1>10, <1>11, <1>12, <1>13,
     <1>14 DEF Next

\* The container ends with 0 only after a signal, the orderly end of a worker that
\* nobody told to stop, or an end of OpenCode itself with 0 (entrypoint.sh:472-475): a
\* failure of a worker or of the supervisor, and what follows it, shows in the status.
THEOREM FailuresShow == Spec => []StatusTellsWhy
<1>1. Init => Housed /\ Reasoned
  BY DEF Init, Fresh, Housed, LivesUnderSupervision, Live, Reasoned, StatusTellsWhy, Up
<1>2. Reasoned => StatusTellsWhy
  BY DEF Reasoned
<1>. QED
  BY <1>1, <1>2, HousedStep, ReasonedStep, TypeCorrect, PTL DEF Spec

-----------------------------------------------------------------------------
(* The options: induction and the loops that read a command line. *)

\* A set of numbers has a least one.
LEMMA LeastNatural ==
  ASSUME NEW T, T \subseteq Nat, T # {}
  PROVE  \E x \in T : \A y \in T : x <= y
<1>1. PICK x \in T : \A y \in T : ~ (<<y, x>> \in OpToRel(<, Nat))
  BY NatLessThanWellFounded, WFMin
<1>2. \A y \in T : ~ (y < x)
  BY <1>1 DEF OpToRel
<1>. QED
  BY <1>2

\* Induction, for a set.
LEMMA Inductive ==
  ASSUME NEW S, 0 \in S, \A k \in Nat : k \in S => k + 1 \in S
  PROVE  Nat \subseteq S
<1>. SUFFICES ASSUME Nat \ S # {} PROVE FALSE
  OBVIOUS
<1>1. PICK m \in Nat \ S : \A k \in Nat \ S : m <= k
  BY LeastNatural
<1>2. m - 1 \in Nat /\ m - 1 \notin Nat \ S
  BY <1>1
<1>3. (m - 1) + 1 \in S
  BY <1>2
<1>. QED
  BY <1>1, <1>3

\* read is what the options are after each of the first n arguments.
Reading(read, defaults, argv, texts, numbers, keeps, n) ==
  read = [i \in 0 .. n |->
            IF i = 0 THEN defaults ELSE TakeArg(read[i - 1], argv[i], texts, numbers, keeps)]

\* The loop of a parseArgs has a value after each argument.
LEMMA ReadExists ==
  ASSUME NEW defaults, NEW argv, NEW texts, NEW numbers, NEW keeps, NEW n \in Nat
  PROVE  \E read : Reading(read, defaults, argv, texts, numbers, keeps, n)
<1>. DEFINE Step(read, i) ==
              IF i = 0 THEN defaults ELSE TakeArg(read[i - 1], argv[i], texts, numbers, keeps)
            Reads(k) == \E read : read = [i \in 0 .. k |-> Step(read, i)]
            readable == {k \in Nat : Reads(k)}
<1>1. Reads(0)
  <2>. DEFINE read == [i \in 0 .. 0 |-> defaults]
  <2>1. read = [i \in 0 .. 0 |-> Step(read, i)]
    OBVIOUS
  <2>. QED
    BY <2>1
<1>2. ASSUME NEW k \in Nat, Reads(k) PROVE Reads(k + 1)
  <2>1. PICK read : read = [i \in 0 .. k |-> Step(read, i)]
    BY <1>2
  <2>. DEFINE more == [i \in 0 .. (k + 1) |-> IF i <= k THEN read[i] ELSE Step(read, i)]
  <2>2. ASSUME NEW i \in 0 .. (k + 1) PROVE more[i] = Step(more, i)
    <3>1. CASE i = 0
      BY <2>1, <3>1
    <3>2. CASE i # 0
      <4>1. i - 1 \in 0 .. k /\ i - 1 \in 0 .. (k + 1) /\ i - 1 <= k
        BY <3>2
      <4>2. more[i - 1] = read[i - 1]
        BY <4>1
      <4>3. more[i] = Step(read, i)
        <5>1. CASE i <= k
          BY <2>1, <5>1
        <5>2. CASE ~(i <= k)
          BY <5>2
        <5>. QED
          BY <5>1, <5>2
      <4>. QED
        BY <4>2, <4>3
    <3>. QED
      BY <3>1, <3>2
  <2>3. more = [i \in 0 .. (k + 1) |-> Step(more, i)]
    BY <2>2
  <2>. QED
    BY <2>3
<1>. HIDE DEF Reads
<1>3. 0 \in readable /\ \A k \in Nat : k \in readable => k + 1 \in readable
  BY <1>1, <1>2
<1>. HIDE DEF readable
<1>4. Nat \subseteq readable
  BY <1>3, Inductive
<1>. QED
  BY <1>4 DEF readable, Reads, Reading

\* The same, as a run of the loop to its end.
RunOf(read, defaults, argv, texts, numbers, keeps) ==
  /\ read[0] = defaults
  /\ \A i \in 1 .. Len(argv) : read[i] = TakeArg(read[i - 1], argv[i], texts, numbers, keeps)
  /\ ReadArgs(defaults, argv, texts, numbers, keeps) = read[Len(argv)]

LEMMA ReadArgsLoop ==
  ASSUME NEW defaults, NEW argv, NEW texts, NEW numbers, NEW keeps, Len(argv) \in Nat
  PROVE  \E read : RunOf(read, defaults, argv, texts, numbers, keeps)
<1>. DEFINE Reads(read) == Reading(read, defaults, argv, texts, numbers, keeps, Len(argv))
            made == CHOOSE read : Reads(read)
<1>1. \E read : Reads(read)
  BY ReadExists
<1>2. Reads(made)
  <2>. HIDE DEF Reads
  <2>. QED
    BY <1>1
<1>3. ReadArgs(defaults, argv, texts, numbers, keeps) = made[Len(argv)]
  BY DEF ReadArgs, Reading
<1>. HIDE DEF made
<1>4. RunOf(made, defaults, argv, texts, numbers, keeps)
  BY <1>2, <1>3 DEF Reading, RunOf
<1>. QED
  BY <1>4

-----------------------------------------------------------------------------
(* Numbers *)

LEMMA NumberSize ==
  ASSUME NEW text
  PROVE  Number(text) = {} \/ \E n \in Nat : Number(text) = {n}
<1>1. \A t \in DOMAIN Numerals : Numerals[t] \in Nat
  BY DEF Numerals
<1>. QED
  BY <1>1 DEF Number

LEMMA ParsedNumber ==
  ASSUME NEW text, NEW fallback \in Int
  PROVE  parseNumber(text, fallback) \in Int
<1>1. CASE AtLeast(1, Number(text))
  <2>1. PICK n \in Nat : Number(text) = {n}
    BY <1>1, NumberSize DEF AtLeast
  <2>. QED
    BY <1>1, <2>1 DEF parseNumber
<1>. QED
  BY <1>1 DEF parseNumber

-----------------------------------------------------------------------------
(* The readers of a bot's updates *)

Counts == {"interval", "timeout", "limit"}

\* Options whose numbers are numbers.
Counted(o) == Counts \subseteq DOMAIN o /\ \A c \in Counts : o[c] \in Int

LEMMA TakeCounted ==
  ASSUME NEW o, Counted(o), NEW arg, NEW texts, \A flag \in DOMAIN texts : texts[flag] \notin Counts
  PROVE  Counted(TakeArg(o, arg, texts, PollNumbers, TRUE))
<1>. DEFINE taken == TakeArg(o, arg, texts, PollNumbers, TRUE)
<1>1. CASE arg.value \in {Nothing, ""} \/ arg.flag \notin DOMAIN texts \cup DOMAIN PollNumbers
  <2>1. taken = [o EXCEPT !.refused = TRUE]
    BY <1>1 DEF TakeArg
  <2>. QED
    BY <2>1 DEF Counted, Counts
<1>2. CASE ~(arg.value \in {Nothing, ""} \/ arg.flag \notin DOMAIN texts \cup DOMAIN PollNumbers)
           /\ arg.flag \in DOMAIN texts
  <2>1. taken = [o EXCEPT ![texts[arg.flag]] = arg.value]
    BY <1>2 DEF TakeArg
  <2>2. texts[arg.flag] \notin Counts
    BY <1>2
  <2>. QED
    BY <2>1, <2>2 DEF Counted
<1>3. CASE ~(arg.value \in {Nothing, ""} \/ arg.flag \notin DOMAIN texts \cup DOMAIN PollNumbers)
           /\ arg.flag \notin DOMAIN texts
  <2>. DEFINE c == PollNumbers[arg.flag]
  <2>1. taken = [o EXCEPT ![c] = parseNumber(arg.value, o[c])]
    BY <1>3 DEF TakeArg
  <2>2. c \in Counts
    BY <1>3 DEF PollNumbers, Counts
  <2>3. parseNumber(arg.value, o[c]) \in Int
    BY <2>2, ParsedNumber DEF Counted
  <2>. QED
    BY <2>1, <2>2, <2>3 DEF Counted
<1>. QED
  BY <1>1, <1>2, <1>3

LEMMA ReadCounted ==
  ASSUME NEW defaults, Counted(defaults), NEW argv, Len(argv) \in Nat,
         NEW texts, \A flag \in DOMAIN texts : texts[flag] \notin Counts
  PROVE  Counted(ReadArgs(defaults, argv, texts, PollNumbers, TRUE))
<1>1. PICK read : RunOf(read, defaults, argv, texts, PollNumbers, TRUE)
  BY ReadArgsLoop
<1>. DEFINE S == {i \in Nat : i <= Len(argv) => Counted(read[i])}
<1>2. 0 \in S
  BY <1>1 DEF RunOf
<1>3. ASSUME NEW k \in Nat, k \in S PROVE k + 1 \in S
  <2>. SUFFICES ASSUME k + 1 <= Len(argv) PROVE Counted(read[k + 1])
    OBVIOUS
  <2>1. Counted(read[k])
    BY <1>3
  <2>2. read[k + 1] = TakeArg(read[k], argv[k + 1], texts, PollNumbers, TRUE)
    <3>1. k + 1 \in 1 .. Len(argv) /\ (k + 1) - 1 = k
      OBVIOUS
    <3>. QED
      BY <1>1, <3>1 DEF RunOf
  <2>. QED
    BY <2>1, <2>2, TakeCounted
<1>. HIDE DEF S
<1>4. Nat \subseteq S
  BY <1>2, <1>3, Inductive
<1>. QED
  <2>1. Len(argv) \in S
    BY <1>4
  <2>2. Counted(read[Len(argv)])
    BY <2>1 DEF S
  <2>. QED
    BY <1>1, <2>2 DEF RunOf

\* Within what Telegram and the code allow.
Polled(o) == o.interval >= 200 /\ o.timeout \in 1 .. 50 /\ o.limit \in 1 .. 100

LEMMA WithinBounds ==
  ASSUME NEW o, Counted(o), NEW token
  PROVE  Polled(WithinLimits(o, token))
<1>1. o.interval \in Int /\ o.timeout \in Int /\ o.limit \in Int
  BY DEF Counted, Counts
<1>2. Counts \subseteq DOMAIN o
  BY DEF Counted
<1>. QED
  BY <1>1, <1>2 DEF WithinLimits, AtLeastOf, AtMostOf, Counts, Polled

LEMMA DefaultsCounted ==
  ASSUME NEW given
  PROVE  Counted(PollDefaults(given)) /\ Counted(DirectDefaults(given))
<1>1. Counted(PollDefaults(given))
  BY ParsedNumber DEF PollDefaults, Counted, Counts
<1>2. \A c \in Counts : c \in DOMAIN DirectDefaults(given)
                         /\ DirectDefaults(given)[c] = PollDefaults(given)[c]
  BY <1>1 DEF DirectDefaults, Counted, Counts
<1>. QED
  BY <1>1, <1>2 DEF Counted

LEMMA PollerPolled ==
  ASSUME NEW given, NEW argv, Len(argv) \in Nat
  PROVE  Polled(buildPollerOptions(given, argv))
<1>1. \A flag \in DOMAIN PollTexts : PollTexts[flag] \notin Counts
  BY DEF PollTexts, Counts
<1>2. Counted(ReadArgs(PollDefaults(given), argv, PollTexts, PollNumbers, TRUE))
  BY <1>1, DefaultsCounted, ReadCounted
<1>. QED
  BY <1>2, WithinBounds DEF buildPollerOptions

LEMMA DirectPolled ==
  ASSUME NEW given, NEW argv, Len(argv) \in Nat
  PROVE  Polled(directOptions(given, argv))
<1>. DEFINE args == ReadArgs(DirectDefaults(given), argv, DirectTexts, PollNumbers, TRUE)
            options == [args EXCEPT !.sessionMode = parseSessionMode(@, "per-chat"),
                                    !.refused     = @ \/ Blank(args.agent)]
<1>1. \A flag \in DOMAIN DirectTexts : DirectTexts[flag] \notin Counts
  BY DEF DirectTexts, PollTexts, Counts
<1>2. Counted(args)
  BY <1>1, DefaultsCounted, ReadCounted
<1>. HIDE DEF args
<1>3. Counted(options)
  BY <1>2 DEF Counted, Counts
<1>. HIDE DEF options
<1>4. directOptions(given, argv) = WithinLimits(options, Coalesce(<<args.token, given.X1_DIRECT_TOKEN>>))
  BY DEF directOptions, options, args
<1>. QED
  BY <1>3, <1>4, WithinBounds

-----------------------------------------------------------------------------
(* The waits between retries *)

\* f has the first k doublings of base.
Doubled(f, base, k) == f = [e \in 0 .. k |-> IF e = 0 THEN base ELSE 2 * f[e - 1]]

LEMMA DoubledExists ==
  ASSUME NEW base, NEW k \in Nat
  PROVE  \E f : Doubled(f, base, k)
<1>. DEFINE S == {n \in Nat : \E f : Doubled(f, base, n)}
<1>1. 0 \in S
  <2>1. Doubled([e \in 0 .. 0 |-> base], base, 0)
    BY DEF Doubled
  <2>. QED
    BY <2>1
<1>2. ASSUME NEW n \in Nat, n \in S PROVE n + 1 \in S
  <2>1. PICK f : Doubled(f, base, n)
    BY <1>2
  <2>. DEFINE Value(g, e) == IF e = 0 THEN base ELSE 2 * g[e - 1]
              g == [e \in 0 .. (n + 1) |-> Value(f, e)]
  <2>2. ASSUME NEW e \in 0 .. (n + 1) PROVE g[e] = Value(g, e)
    <3>1. CASE e = 0
      BY <3>1
    <3>2. CASE e # 0
      <4>1. e - 1 \in 0 .. n /\ e - 1 \in 0 .. (n + 1)
        BY <3>2
      <4>2. g[e - 1] = f[e - 1]
        BY <2>1, <4>1 DEF Doubled
      <4>. QED
        BY <4>2
    <3>. QED
      BY <3>1, <3>2
  <2>3. Doubled(g, base, n + 1)
    BY <2>2 DEF Doubled
  <2>. QED
    BY <2>3
<1>. HIDE DEF S
<1>3. Nat \subseteq S
  BY <1>1, <1>2, Inductive
<1>. QED
  BY <1>3 DEF S

LEMMA DoubledOnce ==
  ASSUME NEW base, NEW f, NEW g, NEW k \in Nat, NEW n \in Nat, NEW e \in Nat, e <= k, e <= n,
         Doubled(f, base, k), Doubled(g, base, n)
  PROVE  f[e] = g[e]
<1>. DEFINE S == {i \in Nat : i <= k /\ i <= n => f[i] = g[i]}
<1>1. 0 \in S
  BY DEF Doubled
<1>2. ASSUME NEW i \in Nat, i \in S PROVE i + 1 \in S
  <2>. SUFFICES ASSUME i + 1 <= k, i + 1 <= n PROVE f[i + 1] = g[i + 1]
    OBVIOUS
  <2>1. i + 1 \in 0 .. k /\ i + 1 \in 0 .. n /\ (i + 1) - 1 = i
    OBVIOUS
  <2>2. f[i + 1] = 2 * f[i] /\ g[i + 1] = 2 * g[i]
    BY <2>1 DEF Doubled
  <2>3. f[i] = g[i]
    BY <1>2
  <2>. QED
    BY <2>2, <2>3
<1>. HIDE DEF S
<1>3. Nat \subseteq S
  BY <1>1, <1>2, Inductive
<1>4. e \in S
  BY <1>3
<1>. QED
  BY <1>4 DEF S

\* f doubles base for ever.
Doubling(f, base) == f = [e \in Nat |-> IF e = 0 THEN base ELSE 2 * f[e - 1]]

LEMMA DoublingExists ==
  ASSUME NEW base
  PROVE  \E f : Doubling(f, base)
<1>. DEFINE To(k) == CHOOSE f : Doubled(f, base, k)
            f == [e \in Nat |-> To(e)[e]]
<1>1. ASSUME NEW k \in Nat PROVE Doubled(To(k), base, k)
  BY DoubledExists
<1>. HIDE DEF To
<1>2. f[0] = base
  <2>1. To(0)[0] = base
    BY <1>1 DEF Doubled
  <2>. QED
    BY <2>1
<1>3. ASSUME NEW e \in Nat, e # 0 PROVE f[e] = 2 * f[e - 1]
  <2>1. e - 1 \in Nat
    BY <1>3
  <2>2. To(e)[e] = 2 * To(e)[e - 1]
    BY <1>1, <1>3 DEF Doubled
  <2>3. To(e)[e - 1] = To(e - 1)[e - 1]
    <3>1. Doubled(To(e), base, e) /\ Doubled(To(e - 1), base, e - 1)
      BY <1>1, <2>1
    <3>. QED
      BY <2>1, <3>1, DoubledOnce
  <2>. QED
    BY <2>1, <2>2, <2>3
<1>4. f = [e \in Nat |-> IF e = 0 THEN base ELSE 2 * f[e - 1]]
  BY <1>2, <1>3
<1>. QED
  BY <1>4 DEF Doubling

\* What a wait is, in terms of one function that doubles for ever.
Waits(f, base, most) ==
  /\ f[0] = base
  /\ \A e \in Nat : f[e + 1] = 2 * f[e]
  /\ \A attempt \in Nat \ {0} :
       computeBackoffDelay(attempt, base, most) = AtMostOf(f[attempt - 1], most)

LEMMA WaitsExist ==
  ASSUME NEW base, NEW most
  PROVE  \E f : Waits(f, base, most)
<1>. DEFINE D(f) == Doubling(f, base)
            f == CHOOSE g : D(g)
<1>1. \E g : D(g)
  BY DoublingExists
<1>2. D(f)
  <2>. HIDE DEF D
  <2>. QED
    BY <1>1
<1>3. \A attempt : computeBackoffDelay(attempt, base, most)
                    = AtMostOf(f[AtLeastOf(attempt - 1, 0)], most)
  BY DEF computeBackoffDelay, Doubling
<1>. HIDE DEF f
<1>4. f[0] = base
  BY <1>2 DEF Doubling
<1>5. ASSUME NEW e \in Nat PROVE f[e + 1] = 2 * f[e]
  <2>1. e + 1 \in Nat /\ e + 1 # 0 /\ (e + 1) - 1 = e
    OBVIOUS
  <2>. QED
    BY <1>2, <2>1 DEF Doubling
<1>6. ASSUME NEW attempt \in Nat \ {0} PROVE AtLeastOf(attempt - 1, 0) = attempt - 1
  BY DEF AtLeastOf
<1>7. Waits(f, base, most)
  BY <1>3, <1>4, <1>5, <1>6 DEF Waits
<1>. QED
  BY <1>7

\* Whatever the attempt: waits grow from the base to the maximum.
THEOREM BackoffGrows ==
  ASSUME NEW base \in Nat, NEW most \in Nat, base <= most, NEW attempt \in Nat \ {0}
  PROVE  LET wait == computeBackoffDelay(attempt, base, most)
         IN base <= wait /\ wait <= most /\ wait <= computeBackoffDelay(attempt + 1, base, most)
<1>1. PICK f : Waits(f, base, most)
  BY WaitsExist
<1>. DEFINE S == {e \in Nat : f[e] \in Nat /\ base <= f[e]}
<1>2. 0 \in S
  BY <1>1 DEF Waits
<1>3. ASSUME NEW e \in Nat, e \in S PROVE e + 1 \in S
  <2>1. f[e + 1] = 2 * f[e] /\ f[e] \in Nat /\ base <= f[e]
    BY <1>1, <1>3 DEF Waits
  <2>. QED
    BY <2>1
<1>. HIDE DEF S
<1>4. Nat \subseteq S
  BY <1>2, <1>3, Inductive
<1>5. attempt - 1 \in Nat /\ (attempt - 1) + 1 = attempt /\ (attempt + 1) - 1 = attempt
      /\ attempt + 1 \in Nat \ {0}
  OBVIOUS
<1>. DEFINE now == f[attempt - 1]
<1>6. now \in Nat /\ base <= now /\ f[attempt] = 2 * now
  <2>1. attempt - 1 \in S
    BY <1>4, <1>5
  <2>2. f[(attempt - 1) + 1] = 2 * now
    BY <1>1, <1>5 DEF Waits
  <2>. QED
    BY <1>5, <2>1, <2>2 DEF S
<1>7. computeBackoffDelay(attempt, base, most) = AtMostOf(now, most)
  BY <1>1 DEF Waits
<1>8. computeBackoffDelay(attempt + 1, base, most) = AtMostOf(2 * now, most)
  BY <1>1, <1>5, <1>6 DEF Waits
<1>. HIDE DEF now
<1>. QED
  BY <1>6, <1>7, <1>8 DEF AtMostOf

-----------------------------------------------------------------------------
(* The X2 worker's options *)

RetryOptions == {"retryBase", "retryMax"}

\* Options whose waits are one number each, or none.
Waited(o) ==
  /\ RetryOptions \cup {"refused"} \subseteq DOMAIN o
  /\ \A r \in RetryOptions : o[r] = {} \/ \E n \in Nat : o[r] = {n}

LEMMA SetWaited ==
  ASSUME NEW o, Waited(o), NEW field, NEW value,
         field \notin RetryOptions \/ value = {} \/ \E n \in Nat : value = {n}
  PROVE  Waited([o EXCEPT ![field] = value])
BY DEF Waited

LEMMA TakeWaited ==
  ASSUME NEW o, Waited(o), NEW arg
  PROVE  Waited(TakeX2Arg(o, arg))
<1>. DEFINE taken == TakeX2Arg(o, arg)
            passed == TakeArg(o, arg, X2Texts, X2Numbers, FALSE)
            Fields == {"once", "eventSubscribe", "summarizer", "simple", "complex", "mode",
                       "bypassModel"}
<1>1. Waited(passed)
  <2>1. CASE arg.value \in {Nothing, ""} \/ arg.flag \notin DOMAIN X2Texts \cup DOMAIN X2Numbers
    <3>1. passed = [o EXCEPT !["refused"] = TRUE]
      BY <2>1 DEF TakeArg
    <3>2. Waited([o EXCEPT !["refused"] = TRUE])
      BY SetWaited DEF RetryOptions
    <3>. QED
      BY <3>1, <3>2
  <2>2. CASE ~(arg.value \in {Nothing, ""} \/ arg.flag \notin DOMAIN X2Texts \cup DOMAIN X2Numbers)
             /\ arg.flag \in DOMAIN X2Texts
    <3>1. passed = [o EXCEPT ![X2Texts[arg.flag]] = arg.value]
      BY <2>2 DEF TakeArg
    <3>2. X2Texts[arg.flag] \notin RetryOptions
      BY <2>2 DEF X2Texts, RetryOptions
    <3>3. Waited([o EXCEPT ![X2Texts[arg.flag]] = arg.value])
      BY <3>2, SetWaited
    <3>. QED
      BY <3>1, <3>3
  <2>3. CASE ~(arg.value \in {Nothing, ""} \/ arg.flag \notin DOMAIN X2Texts \cup DOMAIN X2Numbers)
             /\ arg.flag \notin DOMAIN X2Texts
    <3>1. passed = [o EXCEPT ![X2Numbers[arg.flag]] = Number(arg.value)]
      BY <2>3 DEF TakeArg
    <3>2. Number(arg.value) = {} \/ \E n \in Nat : Number(arg.value) = {n}
      BY NumberSize
    <3>3. Waited([o EXCEPT ![X2Numbers[arg.flag]] = Number(arg.value)])
      BY <3>2, SetWaited
    <3>. QED
      BY <3>1, <3>3
  <2>. QED
    BY <2>1, <2>2, <2>3
<1>2. \/ taken = passed
      \/ \E field \in Fields, value \in {arg.value, TRUE, FALSE, Nothing,
             parseOptionalAgent(arg.value, Nothing), parseRoutingMode(arg.value, "auto")} :
           taken = [o EXCEPT ![field] = value]
      \/ taken = [[o EXCEPT !["bypassAgent"] = arg.value] EXCEPT !["mode"] = "fixed"]
  BY DEF TakeX2Arg, X2Agents
<1>3. Fields \cap RetryOptions = {} /\ "bypassAgent" \notin RetryOptions /\ "mode" \notin RetryOptions
  BY DEF RetryOptions
<1>4. ASSUME NEW field \in Fields, NEW value PROVE Waited([o EXCEPT ![field] = value])
  BY <1>3, SetWaited
<1>5. Waited([[o EXCEPT !["bypassAgent"] = arg.value] EXCEPT !["mode"] = "fixed"])
  <2>1. Waited([o EXCEPT !["bypassAgent"] = arg.value])
    BY <1>3, SetWaited
  <2>. QED
    BY <1>3, <2>1, SetWaited
<1>6. Waited(taken)
  <2>. HIDE DEF taken, passed
  <2>. QED
    BY <1>1, <1>2, <1>4, <1>5
<1>. QED
  BY <1>6

\* The same for the loop of the X2 worker, which has flags of its own.
ReadingX2(read, defaults, argv, n) ==
  read = [i \in 0 .. n |->
            IF i = 0 THEN defaults ELSE TakeX2Arg(read[i - 1], argv[i])]

LEMMA ReadX2Exists ==
  ASSUME NEW defaults, NEW argv, NEW n \in Nat
  PROVE  \E read : ReadingX2(read, defaults, argv, n)
<1>. DEFINE Step(read, i) ==
              IF i = 0 THEN defaults ELSE TakeX2Arg(read[i - 1], argv[i])
            Reads(k) == \E read : read = [i \in 0 .. k |-> Step(read, i)]
            readable == {k \in Nat : Reads(k)}
<1>1. Reads(0)
  <2>. DEFINE read == [i \in 0 .. 0 |-> defaults]
  <2>1. read = [i \in 0 .. 0 |-> Step(read, i)]
    OBVIOUS
  <2>. QED
    BY <2>1
<1>2. ASSUME NEW k \in Nat, Reads(k) PROVE Reads(k + 1)
  <2>1. PICK read : read = [i \in 0 .. k |-> Step(read, i)]
    BY <1>2
  <2>. DEFINE more == [i \in 0 .. (k + 1) |-> IF i <= k THEN read[i] ELSE Step(read, i)]
  <2>2. ASSUME NEW i \in 0 .. (k + 1) PROVE more[i] = Step(more, i)
    <3>1. CASE i = 0
      BY <2>1, <3>1
    <3>2. CASE i # 0
      <4>1. i - 1 \in 0 .. k /\ i - 1 \in 0 .. (k + 1) /\ i - 1 <= k
        BY <3>2
      <4>2. more[i - 1] = read[i - 1]
        BY <4>1
      <4>3. more[i] = Step(read, i)
        <5>1. CASE i <= k
          BY <2>1, <5>1
        <5>2. CASE ~(i <= k)
          BY <5>2
        <5>. QED
          BY <5>1, <5>2
      <4>. QED
        BY <4>2, <4>3
    <3>. QED
      BY <3>1, <3>2
  <2>3. more = [i \in 0 .. (k + 1) |-> Step(more, i)]
    BY <2>2
  <2>. QED
    BY <2>3
<1>. HIDE DEF Reads
<1>3. 0 \in readable /\ \A k \in Nat : k \in readable => k + 1 \in readable
  BY <1>1, <1>2
<1>. HIDE DEF readable
<1>4. Nat \subseteq readable
  BY <1>3, Inductive
<1>. QED
  BY <1>4 DEF readable, Reads, ReadingX2

RunOfX2(read, defaults, argv) ==
  /\ read[0] = defaults
  /\ \A i \in 1 .. Len(argv) : read[i] = TakeX2Arg(read[i - 1], argv[i])
  /\ ReadX2Args(defaults, argv) = read[Len(argv)]

LEMMA ReadX2ArgsLoop ==
  ASSUME NEW defaults, NEW argv, Len(argv) \in Nat
  PROVE  \E read : RunOfX2(read, defaults, argv)
<1>. DEFINE Reads(read) == ReadingX2(read, defaults, argv, Len(argv))
            made == CHOOSE read : Reads(read)
<1>1. \E read : Reads(read)
  BY ReadX2Exists
<1>2. Reads(made)
  <2>. HIDE DEF Reads
  <2>. QED
    BY <1>1
<1>3. ReadX2Args(defaults, argv) = made[Len(argv)]
  BY DEF ReadX2Args, ReadingX2
<1>. HIDE DEF made
<1>4. RunOfX2(made, defaults, argv)
  BY <1>2, <1>3 DEF ReadingX2, RunOfX2
<1>. QED
  BY <1>4

LEMMA ReadWaited ==
  ASSUME NEW defaults, Waited(defaults), NEW argv, Len(argv) \in Nat
  PROVE  Waited(ReadX2Args(defaults, argv))
<1>1. PICK read : RunOfX2(read, defaults, argv)
  BY ReadX2ArgsLoop
<1>. DEFINE S == {i \in Nat : i <= Len(argv) => Waited(read[i])}
<1>2. 0 \in S
  BY <1>1 DEF RunOfX2
<1>3. ASSUME NEW k \in Nat, k \in S PROVE k + 1 \in S
  <2>. SUFFICES ASSUME k + 1 <= Len(argv) PROVE Waited(read[k + 1])
    OBVIOUS
  <2>1. Waited(read[k])
    BY <1>3
  <2>2. read[k + 1] = TakeX2Arg(read[k], argv[k + 1])
    <3>1. k + 1 \in 1 .. Len(argv) /\ (k + 1) - 1 = k
      OBVIOUS
    <3>. QED
      BY <1>1, <3>1 DEF RunOfX2
  <2>. QED
    BY <2>1, <2>2, TakeWaited
<1>. HIDE DEF S
<1>4. Nat \subseteq S
  BY <1>2, <1>3, Inductive
<1>. QED
  <2>1. Len(argv) \in S
    BY <1>4
  <2>2. Waited(read[Len(argv)])
    BY <2>1 DEF S
  <2>. QED
    BY <1>1, <2>2 DEF RunOfX2

\* What the worker accepts has one base and one maximum, in this order.
LEMMA AcceptedWaits ==
  ASSUME NEW given, NEW argv, Len(argv) \in Nat, ~ x2Options(given, argv).refused
  PROVE  \E base, most \in Nat : /\ base <= most
                                 /\ x2Options(given, argv).retryBase = {base}
                                 /\ x2Options(given, argv).retryMax = {most}
<1>. DEFINE args == ReadX2Args(X2Defaults(given), argv)
            Short(number, least) == ~ AtLeast(least, number)
            refused == args.refused \/ Short(args.interval, 200) \/ Short(args.maxRetries, 0)
                         \/ Short(args.retryBase, 100) \/ Short(args.retryMax, 100)
                         \/ \E base \in args.retryBase : Short(args.retryMax, base)
<1>1. Waited(X2Defaults(given))
  BY DEF Waited, X2Defaults, RetryOptions
<1>2. Waited(args)
  BY <1>1, ReadWaited
<1>3. x2Options(given, argv) = [args EXCEPT !.refused = refused]
  BY DEF x2Options
<1>. HIDE DEF args
<1>4. /\ {"retryBase", "retryMax", "refused"} \subseteq DOMAIN args
      /\ args.retryBase = {} \/ \E n \in Nat : args.retryBase = {n}
      /\ args.retryMax = {} \/ \E n \in Nat : args.retryMax = {n}
  BY <1>2 DEF Waited, RetryOptions
<1>5. ~ refused
  <2>. HIDE DEF refused
  <2>. QED
    BY <1>3, <1>4
<1>6. x2Options(given, argv).retryBase = args.retryBase
      /\ x2Options(given, argv).retryMax = args.retryMax
  <2>. HIDE DEF refused
  <2>. QED
    BY <1>3, <1>4
<1>7. AtLeast(100, args.retryBase) /\ AtLeast(100, args.retryMax)
      /\ \A base \in args.retryBase : AtLeast(base, args.retryMax)
  BY <1>5
<1>8. PICK base \in Nat : args.retryBase = {base}
  BY <1>4, <1>7 DEF AtLeast
<1>9. PICK most \in Nat : args.retryMax = {most}
  BY <1>4, <1>7 DEF AtLeast
<1>10. base <= most
  BY <1>7, <1>8, <1>9 DEF AtLeast
<1>. QED
  BY <1>6, <1>8, <1>9, <1>10

-----------------------------------------------------------------------------
(* The command lines *)

LEMMA FirstIsText ==
  ASSUME NEW T, Nothing \in T, NEW skipped, NEW texts \in Seq(T)
  PROVE  FirstOutside(skipped, texts) \in T
<1>. DEFINE kept == {i \in DOMAIN texts : texts[i] \notin skipped}
            least == CHOOSE i \in kept : \A j \in kept : i <= j
<1>1. CASE kept = {}
  BY <1>1 DEF FirstOutside
<1>2. CASE kept # {}
  <2>1. kept \subseteq Nat
    OBVIOUS
  <2>2. \E i \in kept : \A j \in kept : i <= j
    BY <1>2, <2>1, LeastNatural
  <2>3. least \in kept
    BY <2>2
  <2>4. FirstOutside(skipped, texts) = texts[least]
    BY <1>2 DEF FirstOutside
  <2>. HIDE DEF least
  <2>. QED
    BY <2>3, <2>4
<1>. QED
  BY <1>1, <1>2

LEMMA FirstIsFirst ==
  ASSUME NEW skipped, NEW T, NEW texts \in Seq(T), 1 \in DOMAIN texts, texts[1] \notin skipped
  PROVE  FirstOutside(skipped, texts) = texts[1]
<1>. DEFINE kept == {i \in DOMAIN texts : texts[i] \notin skipped}
            least == CHOOSE i \in kept : \A j \in kept : i <= j
<1>1. 1 \in kept /\ \A j \in kept : j \in Nat /\ 1 <= j
  OBVIOUS
<1>2. least \in kept /\ \A j \in kept : least <= j
  BY <1>1
<1>3. FirstOutside(skipped, texts) = texts[least]
  BY <1>1 DEF FirstOutside
<1>. HIDE DEF least, kept
<1>4. least = 1
  BY <1>1, <1>2
<1>. QED
  BY <1>3, <1>4

PollFlags ==
  {"--token", "--source", "--allowed-users", "--poll-interval", "--poll-timeout", "--poll-limit",
   "--agent", "--base-url", "--session-mode"}

Args(T) == [flag : PollFlags, value : T]

\* A command line on which --token, if at all, is p.
Tells(argv, p, T) ==
  /\ argv \in Seq(Args(T))
  /\ \A i \in DOMAIN argv : argv[i].flag = "--token" => argv[i].value = p

LEMMA ArgTells ==
  ASSUME NEW T, NEW p, NEW flag \in PollFlags, NEW value \in T, flag = "--token" => value = p
  PROVE  Tells(Arg(flag, value), p, T) /\ Tells(ArgIfAny(flag, value), p, T)
<1>1. Tells(Arg(flag, value), p, T)
  BY DEF Tells, Arg, Args
<1>2. Tells(<< >>, p, T)
  BY DEF Tells
<1>. QED
  BY <1>1, <1>2 DEF ArgIfAny

LEMMA BothTell ==
  ASSUME NEW T, NEW p, NEW s, NEW t, Tells(s, p, T), Tells(t, p, T)
  PROVE  Tells(s \o t, p, T)
<1>1. s \in Seq(Args(T)) /\ t \in Seq(Args(T))
  BY DEF Tells
<1>2. s \o t \in Seq(Args(T))
  BY <1>1
<1>3. ASSUME NEW i \in DOMAIN (s \o t)
      PROVE  (\E j \in DOMAIN s : (s \o t)[i] = s[j]) \/ (\E j \in DOMAIN t : (s \o t)[i] = t[j])
  <2>1. i \in 1 .. (Len(s) + Len(t)) /\ Len(s) \in Nat /\ Len(t) \in Nat
    BY <1>1
  <2>2. CASE i <= Len(s)
    BY <1>1, <2>1, <2>2
  <2>3. CASE ~(i <= Len(s))
    <3>1. i - Len(s) \in DOMAIN t
      BY <1>1, <2>1, <2>3
    <3>2. (s \o t)[i] = t[i - Len(s)]
      BY <1>1, <2>1, <2>3
    <3>. QED
      BY <3>1, <3>2
  <2>. QED
    BY <2>2, <2>3
<1>. QED
  BY <1>2, <1>3 DEF Tells

LEMMA PollerCommand ==
  ASSUME NEW given
  PROVE  \E T : Tells(commandOf(given).poller, given.X1_POLLER_TOKEN, T)
<1>. DEFINE T == {given[v] : v \in Variables} \cup {"x1_telegram", Nothing}
            p == given.X1_POLLER_TOKEN
            source == Coalesce(<<given.X1_POLLER_SOURCE, "x1_telegram">>)
            a == ArgIfAny("--token", p)
            b == Arg("--source", source)
            c == ArgIfAny("--allowed-users", given.X1_ALLOWED_USER_IDS)
            d == ArgIfAny("--poll-interval", given.X1_POLL_INTERVAL_MS)
            e == ArgIfAny("--poll-timeout", given.X1_POLL_TIMEOUT_SEC)
            f == ArgIfAny("--poll-limit", given.X1_POLL_LIMIT)
<1>1. p \in T /\ given.X1_POLLER_SOURCE \in T /\ given.X1_ALLOWED_USER_IDS \in T
      /\ given.X1_POLL_INTERVAL_MS \in T /\ given.X1_POLL_TIMEOUT_SEC \in T
      /\ given.X1_POLL_LIMIT \in T /\ "x1_telegram" \in T /\ Nothing \in T
  BY DEF Variables
<1>. HIDE DEF T
<1>2. source \in T
  <2>1. <<given.X1_POLLER_SOURCE, "x1_telegram">> \in Seq(T)
    BY <1>1
  <2>. QED
    BY <1>1, <2>1, FirstIsText DEF Coalesce
<1>3. Tells(a, p, T) /\ Tells(b, p, T) /\ Tells(c, p, T) /\ Tells(d, p, T) /\ Tells(e, p, T) /\ Tells(f, p, T)
  <2>. HIDE DEF source
  <2>1. Tells(a, p, T)
    BY <1>1, <1>2, ArgTells DEF PollFlags
  <2>2. Tells(b, p, T)
    BY <1>1, <1>2, ArgTells DEF PollFlags
  <2>3. Tells(c, p, T)
    BY <1>1, <1>2, ArgTells DEF PollFlags
  <2>4. Tells(d, p, T)
    BY <1>1, <1>2, ArgTells DEF PollFlags
  <2>5. Tells(e, p, T)
    BY <1>1, <1>2, ArgTells DEF PollFlags
  <2>6. Tells(f, p, T)
    BY <1>1, <1>2, ArgTells DEF PollFlags
  <2>. QED
    BY <2>1, <2>2, <2>3, <2>4, <2>5, <2>6
<1>4. commandOf(given).poller = a \o b \o c \o d \o e \o f
  BY DEF commandOf
<1>. HIDE DEF a, b, c, d, e, f
<1>5. Tells(a \o b, p, T)
  BY <1>3, BothTell
<1>6. Tells(a \o b \o c, p, T)
  BY <1>3, <1>5, BothTell
<1>7. Tells(a \o b \o c \o d, p, T)
  BY <1>3, <1>6, BothTell
<1>8. Tells(a \o b \o c \o d \o e, p, T)
  BY <1>3, <1>7, BothTell
<1>9. Tells(a \o b \o c \o d \o e \o f, p, T)
  BY <1>3, <1>8, BothTell
<1>. QED
  BY <1>4, <1>9

LEMMA DirectCommand ==
  ASSUME NEW given
  PROVE  \E T : Tells(commandOf(given).direct, given.X1_DIRECT_TOKEN, T)
<1>. DEFINE T == {given[v] : v \in Variables} \cup {"spark", "local", "per-chat", Nothing}
            p == given.X1_DIRECT_TOKEN
            agent == Coalesce(<<given.X1_DIRECT_AGENT, "spark">>)
            baseUrl == Coalesce(<<given.X1_DIRECT_BASE_URL, "local">>)
            mode == Coalesce(<<given.X1_DIRECT_SESSION_MODE, "per-chat">>)
            a == ArgIfAny("--token", p)
            b == Arg("--agent", agent)
            c == Arg("--base-url", baseUrl)
            d == Arg("--session-mode", mode)
            e == ArgIfAny("--poll-interval", given.X1_POLL_INTERVAL_MS)
<1>1. p \in T /\ given.X1_DIRECT_AGENT \in T /\ given.X1_DIRECT_BASE_URL \in T
      /\ given.X1_DIRECT_SESSION_MODE \in T /\ given.X1_POLL_INTERVAL_MS \in T
      /\ "spark" \in T /\ "local" \in T /\ "per-chat" \in T /\ Nothing \in T
  BY DEF Variables
<1>. HIDE DEF T
<1>2. ASSUME NEW s \in T, NEW t \in T PROVE Coalesce(<<s, t>>) \in T
  <2>1. <<s, t>> \in Seq(T)
    OBVIOUS
  <2>. QED
    BY <1>1, <2>1, FirstIsText DEF Coalesce
<1>3. agent \in T /\ baseUrl \in T /\ mode \in T
  BY <1>1, <1>2
<1>4. Tells(a, p, T) /\ Tells(b, p, T) /\ Tells(c, p, T) /\ Tells(d, p, T) /\ Tells(e, p, T)
  <2>. HIDE DEF agent, baseUrl, mode
  <2>1. Tells(a, p, T)
    BY <1>1, ArgTells DEF PollFlags
  <2>2. Tells(b, p, T)
    BY <1>3, ArgTells DEF PollFlags
  <2>3. Tells(c, p, T)
    BY <1>3, ArgTells DEF PollFlags
  <2>4. Tells(d, p, T)
    BY <1>3, ArgTells DEF PollFlags
  <2>5. Tells(e, p, T)
    BY <1>1, ArgTells DEF PollFlags
  <2>. QED
    BY <2>1, <2>2, <2>3, <2>4, <2>5
<1>5. commandOf(given).direct = a \o b \o c \o d \o e
  BY DEF commandOf
<1>. HIDE DEF a, b, c, d, e
<1>6. Tells(a \o b, p, T)
  BY <1>4, BothTell
<1>7. Tells(a \o b \o c, p, T)
  BY <1>4, <1>6, BothTell
<1>8. Tells(a \o b \o c \o d, p, T)
  BY <1>4, <1>7, BothTell
<1>9. Tells(a \o b \o c \o d \o e, p, T)
  BY <1>4, <1>8, BothTell
<1>. QED
  BY <1>5, <1>9

\* Whatever the variables hold and whatever an operator types: the readers of a bot
\* poll it within bounds, and an X2 worker's waits between retries grow to the maximum.
THEOREM WaitsStayBounded == Spec => []WaitsAreBounded
<1>1. WaitsAreBounded
  <2>. DEFINE given == entrypoint(env)
              argv == commandOf(given)
  <2>1. Len(argv.poller) \in Nat
    <3>1. PICK T : Tells(argv.poller, given.X1_POLLER_TOKEN, T)
      BY PollerCommand
    <3>. QED
      BY <3>1 DEF Tells
  <2>2. Len(argv.direct) \in Nat
    <3>1. PICK T : Tells(argv.direct, given.X1_DIRECT_TOKEN, T)
      BY DirectCommand
    <3>. QED
      BY <3>1 DEF Tells
  <2>3. Polled(buildPollerOptions(given, argv.poller))
    BY <2>1, PollerPolled
  <2>4. Polled(directOptions(given, argv.direct))
    BY <2>2, DirectPolled
  <2>5. ASSUME NEW flags \in HandCommands, ~ x2Options(given, flags).refused,
               NEW base \in x2Options(given, flags).retryBase,
               NEW most \in x2Options(given, flags).retryMax, NEW n \in 1 .. 4
        PROVE  LET wait == computeBackoffDelay(n, base, most)
               IN base <= wait /\ wait <= most /\ wait <= computeBackoffDelay(n + 1, base, most)
    <3>1. Len(flags) \in Nat
      BY SupervisorAssumption
    <3>2. base \in Nat /\ most \in Nat /\ base <= most
      BY <2>5, <3>1, AcceptedWaits
    <3>. QED
      BY <3>2, BackoffGrows
  <2>. HIDE DEF given, argv
  <2>. QED
    BY <2>3, <2>4, <2>5 DEF WaitsAreBounded, Polled, given, argv
<1>. QED
  BY <1>1, PTL

-----------------------------------------------------------------------------
(* One bot *)

\* Options whose token is p, if they have one.
Named(o, p) == "token" \in DOMAIN o /\ o.token \in {Nothing, p}

LEMMA TakeNamed ==
  ASSUME NEW p, NEW o, Named(o, p), NEW arg, arg.flag = "--token" => arg.value = p
  PROVE  Named(TakeArg(o, arg, PollTexts, PollNumbers, TRUE), p)
<1>. DEFINE taken == TakeArg(o, arg, PollTexts, PollNumbers, TRUE)
            Odd == arg.value \in {Nothing, ""}
                     \/ arg.flag \notin DOMAIN PollTexts \cup DOMAIN PollNumbers
<1>1. CASE Odd
  <2>1. taken = [o EXCEPT !.refused = TRUE]
    BY <1>1 DEF TakeArg
  <2>. QED
    BY <2>1 DEF Named
<1>2. CASE ~Odd /\ arg.flag \in DOMAIN PollTexts
  <2>1. taken = [o EXCEPT ![PollTexts[arg.flag]] = arg.value]
    BY <1>2 DEF TakeArg
  <2>2. PollTexts[arg.flag] # "token" \/ arg.value = p
    BY <1>2 DEF PollTexts
  <2>. QED
    BY <2>1, <2>2 DEF Named
<1>3. CASE ~Odd /\ arg.flag \notin DOMAIN PollTexts
  <2>. DEFINE c == PollNumbers[arg.flag]
  <2>1. taken = [o EXCEPT ![c] = parseNumber(arg.value, o[c])]
    BY <1>3 DEF TakeArg
  <2>2. c # "token"
    BY <1>3 DEF PollNumbers
  <2>. HIDE DEF c
  <2>. QED
    BY <2>1, <2>2 DEF Named
<1>. QED
  BY <1>1, <1>2, <1>3

LEMMA ReadNamed ==
  ASSUME NEW p, NEW T, NEW argv, Tells(argv, p, T), NEW defaults, Named(defaults, p)
  PROVE  Named(ReadArgs(defaults, argv, PollTexts, PollNumbers, TRUE), p)
<1>1. Len(argv) \in Nat /\ DOMAIN argv = 1 .. Len(argv)
  BY DEF Tells
<1>2. PICK read : RunOf(read, defaults, argv, PollTexts, PollNumbers, TRUE)
  BY <1>1, ReadArgsLoop
<1>. DEFINE S == {i \in Nat : i <= Len(argv) => Named(read[i], p)}
<1>3. 0 \in S
  BY <1>2 DEF RunOf
<1>4. ASSUME NEW k \in Nat, k \in S PROVE k + 1 \in S
  <2>. SUFFICES ASSUME k + 1 <= Len(argv) PROVE Named(read[k + 1], p)
    OBVIOUS
  <2>1. Named(read[k], p)
    BY <1>1, <1>4
  <2>2. k + 1 \in 1 .. Len(argv) /\ (k + 1) - 1 = k
    BY <1>1
  <2>3. read[k + 1] = TakeArg(read[k], argv[k + 1], PollTexts, PollNumbers, TRUE)
    BY <1>2, <2>2 DEF RunOf
  <2>4. argv[k + 1].flag = "--token" => argv[k + 1].value = p
    BY <1>1, <2>2 DEF Tells
  <2>. QED
    BY <2>1, <2>3, <2>4, TakeNamed
<1>. HIDE DEF S
<1>5. Nat \subseteq S
  BY <1>3, <1>4, Inductive
<1>6. Len(argv) \in S
  BY <1>1, <1>5
<1>7. Named(read[Len(argv)], p)
  BY <1>1, <1>6 DEF S
<1>. QED
  BY <1>2, <1>7 DEF RunOf

\* The poller reads the bot of X1_POLLER_TOKEN, and no command line can change that.
LEMMA PollerToken ==
  ASSUME NEW given, given.X1_POLLER_TOKEN # Nothing
  PROVE  buildPollerOptions(given, commandOf(given).poller).token = given.X1_POLLER_TOKEN
<1>. DEFINE p == given.X1_POLLER_TOKEN
            args == ReadArgs(PollDefaults(given), commandOf(given).poller, PollTexts, PollNumbers, TRUE)
            token == Coalesce(<<args.token, p, given.TELEGRAM_BOT_TOKEN>>)
<1>1. PICK T : Tells(commandOf(given).poller, p, T)
  BY PollerCommand
<1>2. Named(PollDefaults(given), p)
  BY DEF Named, PollDefaults
<1>3. Named(args, p)
  BY <1>1, <1>2, ReadNamed
<1>4. buildPollerOptions(given, commandOf(given).poller) = WithinLimits(args, token)
  BY DEF buildPollerOptions
<1>. HIDE DEF args
<1>5. WithinLimits(args, token).token = token
  BY <1>3 DEF WithinLimits, Named
<1>6. token = p
  <2>. DEFINE texts == <<args.token, p, given.TELEGRAM_BOT_TOKEN>>
              kept == {i \in DOMAIN texts : texts[i] \notin {Nothing}}
              least == CHOOSE i \in kept : \A j \in kept : i <= j
  <2>1. args.token \in {Nothing, p}
    BY <1>3 DEF Named
  <2>2. DOMAIN texts = {1, 2, 3} /\ texts[1] \in {Nothing, p} /\ texts[2] = p
    BY <2>1
  <2>3. 2 \in kept /\ kept \subseteq {1, 2, 3}
    BY <2>2
  <2>4. least \in kept /\ \A j \in kept : least <= j
    <3>1. \E i \in kept : \A j \in kept : i <= j
      BY <2>3, LeastNatural
    <3>. QED
      BY <3>1
  <2>5. token = texts[least]
    BY <2>3 DEF Coalesce, FirstOutside
  <2>. HIDE DEF least
  <2>6. least \in {1, 2} /\ texts[least] # Nothing
    BY <2>3, <2>4
  <2>. QED
    BY <2>2, <2>5, <2>6
<1>. QED
  BY <1>4, <1>5, <1>6

\* What X2 reports and what is acknowledged comes from the bot the poller reads, unless
\* another is named.
THEOREM OneBotAnswers == Spec => []SameBotAnswers
<1>1. SameBotAnswers
  <2>. DEFINE given == entrypoint(env)
              p == given.X1_POLLER_TOKEN
              reader == buildPollerOptions(given, commandOf(given).poller)
              bots == <<given.X1_BOT_TOKEN, p, given.TELEGRAM_BOT_TOKEN>>
  <2>1. SUFFICES ASSUME Default(env.X1_BOT_TOKEN, "") = "", ~ Blank(reader.token)
                 PROVE  /\ createReporter(given) \in {reader.token, Nothing}
                        /\ createTaskAckNotifierFromEnv(given) = reader.token
    BY DEF SameBotAnswers
  <2>2. p = Default(env.X1_POLLER_TOKEN, "")
    BY DEF entrypoint, Variables
  <2>3. given.X1_BOT_TOKEN = Default(env.X1_BOT_TOKEN,
                               Default(env.X1_POLLER_TOKEN, Default(env.TELEGRAM_BOT_TOKEN, "")))
    BY DEF entrypoint, Variables
  <2>. HIDE DEF given
  <2>4. p # Nothing
    BY <2>2 DEF Default, Nothing
  <2>5. reader.token = p
    BY <2>4, PollerToken
  <2>6. p \notin {Nothing, "", " "}
    BY <2>1, <2>5 DEF Blank
  <2>7. env.X1_POLLER_TOKEN \notin {Nothing, ""} /\ p = env.X1_POLLER_TOKEN
    BY <2>2, <2>6 DEF Default
  <2>8. env.X1_BOT_TOKEN \in {Nothing, ""}
    BY <2>1 DEF Default
  <2>9. given.X1_BOT_TOKEN = p
    BY <2>3, <2>7, <2>8 DEF Default
  <2>10. bots \in Seq({bots[1], bots[2], bots[3]}) /\ 1 \in DOMAIN bots /\ bots[1] = p
    BY <2>9
  <2>. HIDE DEF bots
  <2>11. FirstOutside({Nothing}, bots) = p /\ FirstOutside({Nothing, "", " "}, bots) = p
    BY <2>6, <2>10, FirstIsFirst
  <2>. USE DEF bots
  <2>12. createReporter(given) \in {p, Nothing}
    BY <2>11 DEF createReporter, Coalesce
  <2>13. createTaskAckNotifierFromEnv(given) = p
    BY <2>11 DEF createTaskAckNotifierFromEnv, firstNonEmpty
  <2>. QED
    BY <2>5, <2>12, <2>13
<1>. QED
  BY <1>1, PTL

=============================================================================
