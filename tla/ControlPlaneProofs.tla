--------------------------- MODULE ControlPlaneProofs ---------------------------
(***************************************************************************)
(* Proofs about the control plane: for any registry, any servers, any      *)
(* number of handlers, prompts and tasks, and answers in any order.        *)
(***************************************************************************)
EXTENDS ControlPlane, TLAPS, FiniteSetTheorems, SequenceTheorems, WellFoundedInduction

-----------------------------------------------------------------------------
(* The registry.                                                           *)

ProjectIds == {Registry[i].id : i \in DOMAIN Registry}
Databases  == {Registry[i].db : i \in DOMAIN Registry}
ProjectList == [i \in DOMAIN Registry |-> Registry[i].id]

\* The registry is a list of one project or more.
LEMMA RegistryShape ==
  ASSUME entries \in Registries
  PROVE  \E n \in Nat \ {0} : DOMAIN Registry = 1..n
<1>. DEFINE kept == {i \in DOMAIN entries : /\ entries[i].enabled
                                            /\ normalizeProject(entries[i], i) # {}}
<1>1. CASE kept = {}
  <2>1. Registry = <<DefaultProject>>
    BY <1>1 DEF Registry, loadProjectRegistry
  <2>. QED
    BY <2>1
<1>2. CASE kept # {}
  <2>1. IsFiniteSet(kept)
    <3>1. IsFiniteSet(DOMAIN entries)
      BY ControlPlaneAssumption
    <3>. QED
      BY <3>1, FS_Subset
  <2>2. Cardinality(kept) \in Nat \ {0}
    BY <1>2, <2>1, FS_EmptySet, FS_CardinalityType
  <2>3. DOMAIN Registry = 1..Cardinality(kept)
    BY <1>2 DEF Registry, loadProjectRegistry
  <2>. QED
    BY <2>2, <2>3
<1>. QED
  BY <1>1, <1>2

LEMMA LeastNatural ==
  ASSUME NEW T, T \subseteq Nat, T # {}
  PROVE  \E x \in T : \A y \in T : x <= y
<1>1. PICK x \in T : \A y \in T : ~ (<<y, x>> \in OpToRel(<, Nat))
  BY NatLessThanWellFounded, WFMin
<1>2. \A y \in T : ~ (y < x)
  BY <1>1 DEF OpToRel
<1>. QED
  BY <1>2

\* getProjectOrThrow finds a project for each id of the registry.
LEMMA ProjectFound ==
  ASSUME entries \in Registries, NEW id \in ProjectIds
  PROVE  getProjectOrThrow(id).db \in Databases
<1>. DEFINE first(i) == Registry[i].id = id /\ \A j \in 1..(i - 1) : Registry[j].id # id
            at == CHOOSE i \in DOMAIN Registry : first(i)
            named == {i \in DOMAIN Registry : Registry[i].id = id}
<1>1. PICK n \in Nat \ {0} : DOMAIN Registry = 1..n
  BY RegistryShape
<1>2. named # {} /\ named \subseteq Nat
  BY <1>1 DEF ProjectIds
<1>3. PICK m \in named : \A i \in named : m <= i
  BY <1>2, LeastNatural
<1>4. m \in DOMAIN Registry /\ first(m)
  BY <1>1, <1>3
<1>5. at \in DOMAIN Registry
  <2>. HIDE DEF first
  <2>. QED
    BY <1>4
<1>6. getProjectOrThrow(id) = Registry[at]
  BY DEF getProjectOrThrow
<1>. QED
  BY <1>5, <1>6 DEF Databases

\* The registry is read once, before anything is served.
LEMMA RegistryKept ==
  ASSUME entries' = entries
  PROVE  /\ Registry' = Registry
         /\ ProjectIds' = ProjectIds /\ Databases' = Databases /\ ProjectList' = ProjectList
<1>1. Registry' = Registry
  BY DEF Registry
<1>. QED
  BY <1>1 DEF ProjectIds, Databases, ProjectList

LEMMA ProjectKept ==
  ASSUME entries' = entries, NEW id
  PROVE  getProjectOrThrow(id)' = getProjectOrThrow(id)
  BY RegistryKept DEF getProjectOrThrow

-----------------------------------------------------------------------------
(* Counts.                                                                 *)

Names    == Threads \cup {None, "main", "a-b"}
Rows     == [thread : Names, status : Statuses]

LEMMA Counted ==
  ASSUME NEW rows \in Seq(Rows), NEW status \in Statuses
  PROVE  /\ IsFiniteSet({i \in DOMAIN rows : rows[i].status = status})
         /\ getStats(rows)[status] \in Nat
         /\ getStats(rows)[status] = Cardinality({i \in DOMAIN rows : rows[i].status = status})
<1>1. IsFiniteSet(DOMAIN rows)
  BY FS_Interval
<1>2. IsFiniteSet({i \in DOMAIN rows : rows[i].status = status})
  BY <1>1, FS_Subset
<1>. QED
  BY <1>2, FS_CardinalityType DEF getStats, Statuses

\* Every row is counted under one status.
LEMMA TotalIsLength ==
  ASSUME NEW rows \in Seq(Rows)
  PROVE  Total(getStats(rows)) = Len(rows)
<1>. DEFINE P == {i \in DOMAIN rows : rows[i].status = "pending"}
            R == {i \in DOMAIN rows : rows[i].status = "running"}
            C == {i \in DOMAIN rows : rows[i].status = "completed"}
            F == {i \in DOMAIN rows : rows[i].status = "failed"}
            p == getStats(rows)["pending"]
            r == getStats(rows)["running"]
            c == getStats(rows)["completed"]
            f == getStats(rows)["failed"]
<1>1. /\ IsFiniteSet(P) /\ p \in Nat /\ p = Cardinality(P)
      /\ IsFiniteSet(R) /\ r \in Nat /\ r = Cardinality(R)
      /\ IsFiniteSet(C) /\ c \in Nat /\ c = Cardinality(C)
      /\ IsFiniteSet(F) /\ f \in Nat /\ f = Cardinality(F)
  BY Counted DEF Statuses
<1>2. P \cap R = {} /\ C \cap F = {} /\ (P \cup R) \cap (C \cup F) = {}
  OBVIOUS
<1>3. (P \cup R) \cup (C \cup F) = 1..Len(rows)
  <2>0. \A i \in DOMAIN rows : rows[i] \in Rows
    OBVIOUS
  <2>1. \A i \in DOMAIN rows : rows[i].status \in Statuses
    BY <2>0 DEF Rows
  <2>2. DOMAIN rows = 1..Len(rows)
    OBVIOUS
  <2>. QED
    BY <2>1, <2>2 DEF Statuses
<1>. HIDE DEF P, R, C, F
<1>. HIDE DEF p, r, c, f
<1>4. ASSUME NEW S, NEW T, IsFiniteSet(S), IsFiniteSet(T), S \cap T = {}
      PROVE  IsFiniteSet(S \cup T) /\ Cardinality(S \cup T) = Cardinality(S) + Cardinality(T)
  <2>1. Cardinality(S \cap T) = 0
    BY <1>4, FS_EmptySet
  <2>2. /\ IsFiniteSet(S \cup T)
        /\ Cardinality(S \cup T) = Cardinality(S) + Cardinality(T) - Cardinality(S \cap T)
    BY <1>4, FS_Union
  <2>3. Cardinality(S) \in Nat /\ Cardinality(T) \in Nat
    BY <1>4, FS_CardinalityType
  <2>. QED
    BY <2>1, <2>2, <2>3
<1>5. IsFiniteSet(P \cup R) /\ Cardinality(P \cup R) = p + r
  BY <1>1, <1>2, <1>4
<1>6. IsFiniteSet(C \cup F) /\ Cardinality(C \cup F) = c + f
  BY <1>1, <1>2, <1>4
<1>7. Cardinality((P \cup R) \cup (C \cup F)) = p + r + c + f
  <2>1. Cardinality((P \cup R) \cup (C \cup F)) = Cardinality(P \cup R) + Cardinality(C \cup F)
    BY <1>2, <1>4, <1>5, <1>6
  <2>. QED
    BY <1>1, <1>5, <1>6, <2>1
<1>8. Cardinality(1..Len(rows)) = Len(rows)
  <2>1. \A n \in Nat : Cardinality(1..n) = n
    BY FS_Interval
  <2>2. Len(rows) \in Nat
    OBVIOUS
  <2>. QED
    BY <2>1, <2>2
<1>. QED
  BY <1>3, <1>7, <1>8 DEF Total, p, r, c, f

\* Whether the tasks of a state.db may have been these rows once: tasks are only added.
Earlier(rows, d) == rows \in Seq(Rows) /\ Len(rows) <= Len(tasks[d])

\* The rows of a thread, and what the overview says of it.
Of(rows, thread) == {i \in DOMAIN rows : rows[i].thread = thread}
With(rows, thread, status) == {i \in Of(rows, thread) : rows[i].status = status}

\* The entry of a thread: its counts, and the place of its last row.
Summary(rows, t) ==
  /\ t.thread # None /\ t.latest \in Of(rows, t.thread)
  /\ \A j \in Of(rows, t.thread) : j <= t.latest
  /\ t.tasks = Cardinality(Of(rows, t.thread))
  /\ t.pending = Cardinality(With(rows, t.thread, "pending"))
  /\ t.running = Cardinality(With(rows, t.thread, "running"))

LEMMA OfFinite ==
  ASSUME NEW rows \in Seq(Rows), NEW thread
  PROVE  /\ Of(rows, thread) \subseteq 1..Len(rows) /\ IsFiniteSet(Of(rows, thread))
         /\ \A status : IsFiniteSet(With(rows, thread, status))
<1>1. Of(rows, thread) \subseteq 1..Len(rows)
  BY DEF Of
<1>2. IsFiniteSet(1..Len(rows))
  BY FS_Interval
<1>3. IsFiniteSet(Of(rows, thread))
  BY <1>1, <1>2, FS_Subset
<1>4. \A status : With(rows, thread, status) \subseteq Of(rows, thread)
  BY DEF With
<1>. QED
  BY <1>1, <1>3, <1>4, FS_Subset

\* A thread that has a row has a last one.
LEMMA LastOf ==
  ASSUME NEW rows \in Seq(Rows), NEW thread, Of(rows, thread) # {}
  PROVE  \E i \in Of(rows, thread) : \A j \in Of(rows, thread) : j <= i
<1>. DEFINE after == {Len(rows) - i : i \in Of(rows, thread)}
<1>1. Of(rows, thread) \subseteq 1..Len(rows) /\ Len(rows) \in Nat
  BY OfFinite
<1>2. after \subseteq Nat /\ after # {}
  BY <1>1
<1>3. PICK x \in after : \A y \in after : x <= y
  BY <1>2, LeastNatural
<1>4. PICK i \in Of(rows, thread) : x = Len(rows) - i
  BY <1>3
<1>5. \A j \in Of(rows, thread) : Len(rows) - i <= Len(rows) - j
  BY <1>3, <1>4
<1>6. \A j \in Of(rows, thread) : j <= i
  BY <1>1, <1>5
<1>. QED
  BY <1>6

\* What summarizeWebThreads lists: the summary of each thread with a row, once.
LEMMA ThreadsAre ==
  ASSUME NEW rows \in Seq(Rows)
  PROVE  /\ \A t \in summarizeWebThreads(rows) : Summary(rows, t)
         /\ \A i \in DOMAIN rows : rows[i].thread # None =>
              \E t \in summarizeWebThreads(rows) : t.thread = rows[i].thread
         /\ \A t, u \in summarizeWebThreads(rows) : t.thread = u.thread => t = u
<1>. DEFINE View(thread) ==
              [thread |-> thread, tasks |-> Cardinality(Of(rows, thread)),
               pending |-> Cardinality(With(rows, thread, "pending")),
               running |-> Cardinality(With(rows, thread, "running")),
               latest |-> CHOOSE i \in Of(rows, thread) : \A j \in Of(rows, thread) : j <= i]
            threads == {rows[i].thread : i \in DOMAIN rows} \ {None}
<1>1. summarizeWebThreads(rows) = {View(thread) : thread \in threads}
  BY DEF summarizeWebThreads, Of, With
<1>2. ASSUME NEW thread \in threads PROVE Summary(rows, View(thread))
  <2>1. Of(rows, thread) # {} /\ thread # None
    BY DEF Of
  <2>2. PICK i : i = View(thread).latest
    OBVIOUS
  <2>3. i \in Of(rows, thread) /\ \A j \in Of(rows, thread) : j <= i
    <3>1. \E k \in Of(rows, thread) : \A j \in Of(rows, thread) : j <= k
      BY <2>1, LastOf
    <3>2. i = CHOOSE k \in Of(rows, thread) : \A j \in Of(rows, thread) : j <= k
      BY <2>2
    <3>. QED
      BY <3>1, <3>2
  <2>. QED
    BY <2>1, <2>2, <2>3 DEF Summary
<1>3. \A thread \in threads : View(thread).thread = thread
  OBVIOUS
<1>4. \A i \in DOMAIN rows : rows[i].thread # None => rows[i].thread \in threads
  OBVIOUS
<1>. HIDE DEF View, threads
<1>5. \A t \in summarizeWebThreads(rows) : Summary(rows, t)
  BY <1>1, <1>2
<1>6. \A i \in DOMAIN rows : rows[i].thread # None =>
        \E t \in summarizeWebThreads(rows) : t.thread = rows[i].thread
  BY <1>1, <1>3, <1>4
<1>7. \A t, u \in summarizeWebThreads(rows) : t.thread = u.thread => t = u
  BY <1>1, <1>3
<1>. QED
  BY <1>5, <1>6, <1>7

\* The thread of a row that is listed is listed: fewer threads have a later row than there
\* are later rows.
LEMMA ListedThread ==
  ASSUME NEW rows \in Seq(Rows), NEW i \in Newest(rows), rows[i].thread # None
  PROVE  \E t \in LatestThreads(rows) : t.thread = rows[i].thread /\ i <= t.latest
<1>. DEFINE all == summarizeWebThreads(rows)
<1>1. /\ i \in 1..Len(rows) /\ Len(rows) \in Nat /\ ListLimit \in Nat /\ i > Len(rows) - ListLimit
  BY ControlPlaneAssumption DEF Newest
<1>2. PICK t \in all : t.thread = rows[i].thread
  BY <1>1, ThreadsAre
<1>3. Summary(rows, t)
  BY ThreadsAre
<1>4. t.latest \in 1..Len(rows) /\ i <= t.latest
  <2>1. i \in Of(rows, t.thread)
    BY <1>1, <1>2 DEF Of
  <2>2. Of(rows, t.thread) \subseteq 1..Len(rows)
    BY OfFinite
  <2>. QED
    BY <1>3, <2>1, <2>2 DEF Summary
<1>. DEFINE more == {u \in all : u.latest > t.latest}
            rest == (t.latest + 1)..Len(rows)
<1>5. IsFiniteSet(rest) /\ Cardinality(rest) = Len(rows) - t.latest
  <2>1. PICK m \in Nat : m = t.latest
    BY <1>4
  <2>2. PICK n \in Nat : n = Len(rows) /\ m <= n
    BY <1>4, <2>1
  <2>3. IsFiniteSet((m + 1)..n) /\ Cardinality((m + 1)..n) = IF m + 1 > n THEN 0 ELSE n - (m + 1) + 1
    <3>1. m + 1 \in Int /\ n \in Int
      OBVIOUS
    <3>. QED
      BY <3>1, FS_Interval
  <2>4. Cardinality((m + 1)..n) = n - m
    BY <2>2, <2>3
  <2>. QED
    BY <2>1, <2>2, <2>3, <2>4
<1>6. \A u \in all : u.latest \in 1..Len(rows) /\ rows[u.latest].thread = u.thread
  <2>1. ASSUME NEW u \in all PROVE u.latest \in 1..Len(rows) /\ rows[u.latest].thread = u.thread
    <3>1. Summary(rows, u)
      BY ThreadsAre
    <3>. QED
      BY <3>1 DEF Summary, Of
  <2>. QED
    BY <2>1
<1>7. \A u, v \in all : u.latest = v.latest => u = v
  BY <1>6, ThreadsAre
<1>8. Cardinality(more) <= Cardinality(rest)
  <2>. DEFINE f == [u \in more |-> u.latest]
  <2>1. f \in [more -> rest]
    <3>1. ASSUME NEW u \in more PROVE u.latest \in rest
      BY <1>4, <1>6
    <3>. HIDE DEF more, rest
    <3>. QED
      BY <3>1
  <2>2. \A u, v \in more : f[u] = f[v] => u = v
    BY <1>7
  <2>. HIDE DEF more, rest, f
  <2>3. f \in Injection(more, rest)
    BY <2>1, <2>2 DEF Injection, IsInjective
  <2>. QED
    BY <1>5, <2>3, FS_Injection
<1>9. IsFiniteSet(more) /\ Cardinality(more) \in Nat
  <2>1. IsFiniteSet(all)
    <3>. DEFINE g == [u \in all |-> u.latest]
    <3>1. g \in [all -> 1..Len(rows)]
      <4>. HIDE DEF all
      <4>. QED
        BY <1>6
    <3>2. \A u, v \in all : g[u] = g[v] => u = v
      BY <1>7
    <3>. HIDE DEF all, g
    <3>3. g \in Injection(all, 1..Len(rows))
      BY <3>1, <3>2 DEF Injection, IsInjective
    <3>4. IsFiniteSet(1..Len(rows))
      BY FS_Interval
    <3>. QED
      BY <3>3, <3>4, FS_Injection
  <2>2. more \subseteq all
    OBVIOUS
  <2>. HIDE DEF more, all
  <2>. QED
    BY <2>1, <2>2, FS_Subset, FS_CardinalityType
<1>10. Cardinality(more) < ListLimit
  <2>. HIDE DEF more, rest
  <2>. QED
    BY <1>1, <1>4, <1>5, <1>8, <1>9
<1>11. t \in LatestThreads(rows)
  BY <1>10 DEF LatestThreads
<1>. QED
  BY <1>2, <1>4, <1>11

\* The tasks of a thread are counted up to its last one, those that are listed among them.
LEMMA ThreadsFit ==
  ASSUME NEW rows \in Seq(Rows), NEW o, o.recent = [i \in Newest(rows) |-> rows[i]],
         NEW t \in LatestThreads(rows)
  PROVE  /\ t.tasks <= t.latest /\ t.latest \in 1..Len(rows)
         /\ Listed(o, t.thread, "pending") <= t.pending
         /\ Listed(o, t.thread, "running") <= t.running
<1>1. Summary(rows, t)
  BY ThreadsAre DEF LatestThreads
<1>2. /\ Of(rows, t.thread) \subseteq 1..Len(rows) /\ IsFiniteSet(Of(rows, t.thread))
      /\ \A status : IsFiniteSet(With(rows, t.thread, status))
  BY OfFinite
<1>3. t.latest \in 1..Len(rows) /\ t.latest \in Nat
  BY <1>1, <1>2 DEF Summary
<1>4. Cardinality(Of(rows, t.thread)) <= t.latest
  <2>1. Of(rows, t.thread) \subseteq 1..t.latest
    BY <1>1, <1>2, <1>3 DEF Summary
  <2>2. \A m \in Nat : IsFiniteSet(1..m) /\ Cardinality(1..m) = m
    BY FS_Interval
  <2>. QED
    BY <1>3, <2>1, <2>2, FS_Subset
<1>5. ASSUME NEW status PROVE Listed(o, t.thread, status) <= Cardinality(With(rows, t.thread, status))
  <2>. DEFINE listed == {i \in DOMAIN o.recent : /\ o.recent[i].thread = t.thread
                                                 /\ o.recent[i].status = status}
  <2>1. listed \subseteq With(rows, t.thread, status)
    BY DEF With, Of, Newest
  <2>2. Listed(o, t.thread, status) = Cardinality(listed)
    BY DEF Listed
  <2>. HIDE DEF listed
  <2>. QED
    BY <1>2, <2>1, <2>2, FS_Subset
<1>. QED
  BY <1>1, <1>3, <1>4, <1>5 DEF Summary

\* An overview made of earlier rows and the statistics of now fits together.
LEMMA OverviewFits ==
  ASSUME NEW rows, NEW d, Earlier(rows, d), tasks[d] \in Seq(Rows), NEW project, NEW sessions,
         NEW o, o = createProjectOverview(project, rows, tasks[d], sessions)
  PROVE  FitsTogether(o)
<1>1. /\ o.recent = [i \in Newest(rows) |-> rows[i]] /\ o.threads = LatestThreads(rows)
      /\ o.stats = getStats(tasks[d])
  BY DEF createProjectOverview
<1>2. rows \in Seq(Rows) /\ Len(rows) \in Nat
  BY DEF Earlier
<1>3. PICK total \in Nat : total = Total(o.stats) /\ Len(rows) <= total
  BY <1>1, TotalIsLength DEF Earlier
<1>4. \A i \in DOMAIN o.recent : i \in 1..Len(rows) /\ i \in Newest(rows) /\ o.recent[i] = rows[i]
  BY <1>1, <1>2 DEF Newest
<1>5. ASSUME NEW i \in DOMAIN o.recent
      PROVE  /\ i <= total
             /\ o.recent[i].thread # None =>
                  \E t \in o.threads : t.thread = o.recent[i].thread /\ i <= t.latest
  BY <1>1, <1>2, <1>3, <1>4, ListedThread
<1>6. ASSUME NEW t \in o.threads
      PROVE  /\ t.tasks <= t.latest /\ t.latest <= total
             /\ Listed(o, t.thread, "pending") <= t.pending
             /\ Listed(o, t.thread, "running") <= t.running
  <2>1. /\ t.tasks <= t.latest /\ t.latest \in 1..Len(rows)
        /\ Listed(o, t.thread, "pending") <= t.pending
        /\ Listed(o, t.thread, "running") <= t.running
    BY <1>1, <1>2, ThreadsFit
  <2>. QED
    BY <1>2, <1>3, <2>1
<1>. QED
  BY <1>3, <1>5, <1>6 DEF FitsTogether

-----------------------------------------------------------------------------
(* The invariant: what the tables, the page and every request hold.         *)

Kinds == {"projects", "overview", "detail", "tasks"}

Requests(answer) ==
  [n : Nat, kind : Kinds, project : {None} \cup ProjectIds, session : {None} \cup AllSessions,
   then : Seq({"overview", "detail"}), form : BOOLEAN, thread : {None} \cup Threads,
   prompt : Nat, phase : {"asked", "reading", "answered"}, rows : Seq(Rows),
   answer : {answer}]

Recorded(r) ==
  /\ r.db \in Databases
  /\ r.place \in DOMAIN tasks[r.db] /\ r.place \in metrics[r.db]

\* What an answer says is so, whatever happens until the page hears of it; the rows a
\* request has read are those of an earlier state.
RequestOK(c) ==
  /\ c \in Requests(c.answer)
  /\ c.kind \in {"overview", "tasks"} => c.project \in ProjectIds
  /\ c.kind = "projects" =>
       c.answer \subseteq {ProjectList} /\ c.then # <<>> /\ Head(c.then) = "overview"
  /\ c.kind = "tasks" => \A r \in c.answer : Recorded(r)
  /\ c.kind = "overview" => \A o \in c.answer : o.project = c.project /\ FitsTogether(o)
  /\ c.phase = "reading" =>
       c.kind = "overview" /\ Earlier(c.rows, getProjectOrThrow(c.project).db)

TablesOK ==
  /\ entries \in Registries
  /\ tasks \in [Databases -> Seq(Rows)]
  /\ metrics \in [Databases -> SUBSET Nat]
  /\ \A d \in Databases : metrics[d] \subseteq DOMAIN tasks[d]
  /\ moves \in 0 .. MaxMoves

PageOK ==
  /\ sel \in {None} \cup ProjectIds /\ ses \in {None} \cup AllSessions /\ view \in Views
  /\ \A i \in DOMAIN projects : projects[i] \in ProjectIds
  /\ prompt \in 0 .. typed /\ typed \in 0 .. MaxPrompts /\ made \in 1 .. MaxHandlers
  /\ disturbed \in BOOLEAN

ShownOK ==
  /\ \A r \in result : Recorded(r)
  /\ \A o \in overview : FitsTogether(o)

CallsCounted == IsFiniteSet(calls) /\ Cardinality(calls) <= made

ControlInv ==
  /\ TablesOK /\ PageOK /\ ShownOK
  /\ \A c \in calls : RequestOK(c)

\* Until something disturbs it, the page waits for the overview of the selected project
\* or shows it, and waits for no other.
Following ==
  ~disturbed =>
    /\ \A c \in calls : c.kind = "overview" => c.project = sel
    /\ sel # None => \/ \E c \in calls : c.kind = "overview"
                     \/ \E o \in overview : o.project = sel

\* Tables only grow.
Grows ==
  /\ entries' = entries
  /\ \A d \in Databases :
       /\ Len(tasks[d]) <= Len(tasks'[d])
       /\ metrics[d] \subseteq metrics'[d]

-----------------------------------------------------------------------------
(* The tables.                                                             *)

LEMMA TablesSame ==
  ASSUME TablesOK, UNCHANGED <<entries, tables>>
  PROVE  TablesOK' /\ Grows
<1>1. TablesOK'
  BY RegistryKept DEF TablesOK, tables
<1>2. \A d \in Databases : tasks[d] \in Seq(Rows)
  BY DEF TablesOK
<1>3. \A d \in Databases : Len(tasks[d]) \in Nat
  BY <1>2
<1>. QED
  BY <1>1, <1>3 DEF Grows, tables

\* A row is added to a state.db, and its place perhaps to the metrics.
LEMMA TablesAppend ==
  ASSUME TablesOK, entries' = entries, NEW d \in Databases, NEW row \in Rows,
         tasks' = [tasks EXCEPT ![d] = Append(@, row)],
         moves' = moves,
         \/ metrics' = metrics
         \/ metrics' = [metrics EXCEPT ![d] = @ \cup {Len(tasks[d]) + 1}]
  PROVE  TablesOK' /\ Grows /\ DOMAIN tasks'[d] = 1..(Len(tasks[d]) + 1)
<1>1. tasks[d] \in Seq(Rows) /\ Len(tasks[d]) \in Nat
  BY DEF TablesOK
<1>2. /\ Append(tasks[d], row) \in Seq(Rows)
      /\ Len(Append(tasks[d], row)) = Len(tasks[d]) + 1
      /\ DOMAIN Append(tasks[d], row) = 1..(Len(tasks[d]) + 1)
      /\ \A i \in 1..Len(tasks[d]) : Append(tasks[d], row)[i] = tasks[d][i]
  BY <1>1
<1>3. /\ tasks' \in [Databases -> Seq(Rows)] /\ tasks'[d] = Append(tasks[d], row)
      /\ \A e \in Databases \ {d} : tasks'[e] = tasks[e]
  BY <1>2 DEF TablesOK
<1>4. /\ metrics' \in [Databases -> SUBSET Nat]
      /\ metrics'[d] \subseteq metrics[d] \cup {Len(tasks[d]) + 1}
      /\ \A e \in Databases \ {d} : metrics'[e] = metrics[e]
      /\ \A e \in Databases : metrics[e] \subseteq metrics'[e]
  <2>. DEFINE more == metrics[d] \cup {Len(tasks[d]) + 1}
  <2>1. metrics \in [Databases -> SUBSET Nat] /\ more \in SUBSET Nat
    BY <1>1 DEF TablesOK
  <2>2. CASE metrics' = metrics
    BY <2>1, <2>2
  <2>3. CASE metrics' = [metrics EXCEPT ![d] = more]
    <3>1. metrics' \in [Databases -> SUBSET Nat]
      <4>. HIDE DEF more
      <4>. QED
        BY <2>1, <2>3
    <3>2. metrics'[d] = more /\ \A e \in Databases \ {d} : metrics'[e] = metrics[e]
      <4>. HIDE DEF more
      <4>. QED
        BY <2>1, <2>3
    <3>3. \A e \in Databases : metrics[e] \subseteq metrics'[e]
      BY <3>2
    <3>. QED
      BY <3>1, <3>2, <3>3
  <2>. QED
    BY <2>2, <2>3
<1>5. \A e \in Databases : metrics'[e] \subseteq DOMAIN tasks'[e]
  <2>1. DOMAIN tasks[d] = 1..Len(tasks[d]) /\ metrics[d] \subseteq DOMAIN tasks[d]
    BY <1>1 DEF TablesOK
  <2>2. metrics'[d] \subseteq DOMAIN tasks'[d]
    BY <1>1, <1>2, <1>3, <1>4, <2>1
  <2>3. \A e \in Databases \ {d} : metrics'[e] \subseteq DOMAIN tasks'[e]
    BY <1>3, <1>4 DEF TablesOK
  <2>. QED
    BY <2>2, <2>3
<1>6. TablesOK'
  BY <1>3, <1>4, <1>5, RegistryKept DEF TablesOK
<1>7. Grows
  <2>1. \A e \in Databases : Len(tasks[e]) \in Nat
    BY DEF TablesOK
  <2>2. /\ Len(tasks[d]) <= Len(tasks'[d])
        /\ \A i \in 1..Len(tasks[d]) : tasks'[d][i] = tasks[d][i]
    BY <1>1, <1>2, <1>3
  <2>3. \A e \in Databases \ {d} : tasks'[e] = tasks[e] /\ Len(tasks[e]) <= Len(tasks'[e])
    BY <1>3, <2>1
  <2>. QED
    BY <1>4, <2>2, <2>3 DEF Grows
<1>. QED
  BY <1>2, <1>3, <1>6, <1>7

LEMMA TablesMove ==
  ASSUME TablesOK, NEW d \in Databases, NEW i, TaskMoves(d, i)
  PROVE  TablesOK' /\ Grows
<1>1. tasks[d] \in Seq(Rows) /\ Len(tasks[d]) \in Nat /\ i \in 1..Len(tasks[d])
  BY DEF TablesOK, TaskMoves
<1>2. PICK to \in Statuses : tasks' = [tasks EXCEPT ![d][i].status = to]
  BY DEF TaskMoves
<1>. DEFINE row == [tasks[d][i] EXCEPT !.status = to]
            moved == [tasks[d] EXCEPT ![i] = row]
<1>3. row \in Rows
  <2>1. tasks[d][i] \in Rows
    BY <1>1
  <2>. QED
    BY <2>1 DEF Rows
<1>4. /\ moved \in Seq(Rows) /\ Len(moved) = Len(tasks[d])
      /\ \A j \in 1..Len(tasks[d]) \ {i} : moved[j] = tasks[d][j]
  <2>. HIDE DEF row
  <2>. QED
    BY <1>1, <1>3
<1>5. /\ tasks'[d] = moved
      /\ \A e \in Databases \ {d} : tasks'[e] = tasks[e]
      /\ DOMAIN tasks' = Databases
  BY <1>2 DEF TablesOK
<1>. HIDE DEF moved
<1>6. tasks' \in [Databases -> Seq(Rows)]
  <2>1. tasks' = [tasks EXCEPT ![d] = moved]
    BY <1>2 DEF moved, row
  <2>. QED
    BY <1>4, <2>1 DEF TablesOK
<1>7. UNCHANGED <<entries, metrics>>
  BY DEF TaskMoves
<1>8. \A e \in Databases : metrics'[e] \subseteq DOMAIN tasks'[e]
  <2>1. DOMAIN moved = DOMAIN tasks[d]
    BY <1>1, <1>4
  <2>. QED
    BY <1>5, <1>7, <2>1 DEF TablesOK
<1>9. TablesOK'
  <2>1. moves' \in 0 .. MaxMoves
    BY ControlPlaneAssumption DEF TaskMoves, TablesOK
  <2>. QED
    BY <1>6, <1>7, <1>8, <2>1, RegistryKept DEF TablesOK
<1>10. Grows
  <2>1. \A e \in Databases : Len(tasks[e]) \in Nat
    BY DEF TablesOK
  <2>2. \A e \in Databases : Len(tasks[e]) <= Len(tasks'[e])
    BY <1>4, <1>5, <2>1
  <2>. QED
    BY <1>7, <2>2 DEF Grows
<1>. QED
  BY <1>9, <1>10

-----------------------------------------------------------------------------
(* Requests.                                                               *)

\* What was recorded stays recorded.
LEMMA RecordedKept ==
  ASSUME TablesOK, TablesOK', Grows, NEW r, Recorded(r)
  PROVE  Recorded(r)'
<1>1. entries' = entries /\ r.db \in Databases /\ Databases' = Databases
  BY RegistryKept DEF Grows, Recorded
<1>. DEFINE d == r.db
<1>2. /\ tasks[d] \in Seq(Rows) /\ tasks'[d] \in Seq(Rows)
      /\ Len(tasks[d]) <= Len(tasks'[d]) /\ metrics[d] \subseteq metrics'[d]
  BY <1>1 DEF TablesOK, Grows
<1>3. DOMAIN tasks[d] \subseteq DOMAIN tasks'[d]
  <2>1. Len(tasks[d]) \in Nat /\ Len(tasks'[d]) \in Nat
    BY <1>2
  <2>. QED
    BY <1>2, <2>1
<1>. QED
  BY <1>1, <1>2, <1>3 DEF Recorded

\* What a request has read or answered stays as good as it is.
LEMMA RequestKept ==
  ASSUME TablesOK, TablesOK', Grows, NEW c, RequestOK(c)
  PROVE  RequestOK(c)'
<1>1. entries' = entries
  BY DEF Grows
<1>2. ProjectIds' = ProjectIds /\ ProjectList' = ProjectList /\ Databases' = Databases
  BY <1>1, RegistryKept
<1>3. c.kind = "tasks" => \A r \in c.answer : Recorded(r)'
  BY RecordedKept DEF RequestOK
<1>4. c \in Requests(c.answer)'
  BY <1>2 DEF RequestOK, Requests
<1>5. ASSUME c.phase = "reading" PROVE Earlier(c.rows, getProjectOrThrow(c.project).db)'
  <2>1. /\ c.kind = "overview" /\ c.project \in ProjectIds
        /\ Earlier(c.rows, getProjectOrThrow(c.project).db)
    BY <1>5 DEF RequestOK
  <2>2. PICK d \in Databases : d = getProjectOrThrow(c.project).db
    BY <2>1, ProjectFound DEF TablesOK
  <2>3. d = getProjectOrThrow(c.project)'.db
    BY <1>1, <2>2, ProjectKept
  <2>4. Earlier(c.rows, d)
    BY <2>1, <2>2
  <2>5. Earlier(c.rows, d)'
    <3>1. /\ tasks[d] \in Seq(Rows) /\ tasks'[d] \in Seq(Rows)
          /\ Len(tasks[d]) \in Nat /\ Len(tasks'[d]) \in Nat
          /\ Len(tasks[d]) <= Len(tasks'[d])
      BY <1>2 DEF TablesOK, Grows
    <3>2. c.rows \in Seq(Rows) /\ Len(c.rows) \in Nat /\ Len(c.rows) <= Len(tasks[d])
      BY <2>4 DEF Earlier
    <3>3. Len(c.rows) <= Len(tasks'[d])
      BY <3>1, <3>2
    <3>. QED
      BY <3>2, <3>3 DEF Earlier
  <2>. QED
    BY <2>3, <2>5
<1>. QED
  BY <1>2, <1>3, <1>4, <1>5 DEF RequestOK, FitsTogether, Total, Listed

LEMMA ShownKept ==
  ASSUME TablesOK, TablesOK', Grows, ShownOK, result' \subseteq result, overview' \subseteq overview
  PROVE  ShownOK'
<1>1. \A r \in result' : Recorded(r)'
  BY RecordedKept DEF ShownOK
<1>2. \A o \in overview' : FitsTogether(o)
  BY DEF ShownOK
<1>. QED
  BY <1>1, <1>2 DEF ShownOK

\* A request as it is made.
LEMMA NewCall ==
  ASSUME NEW n \in Nat, NEW kind \in Kinds, NEW project \in {None} \cup ProjectIds,
         NEW session \in {None} \cup AllSessions, NEW then \in Seq({"overview", "detail"}),
         NEW form \in BOOLEAN,
         kind \in {"overview", "tasks"} => project \in ProjectIds,
         kind = "projects" => then # <<>> /\ Head(then) = "overview"
  PROVE  RequestOK(Call(n, kind, project, session, then, form))
<1>. DEFINE c == Call(n, kind, project, session, then, form)
<1>1. /\ c.kind = kind /\ c.project = project /\ c.then = then
      /\ c.phase = "asked" /\ c.answer = {}
  BY DEF Call
<1>2. <<>> \in Seq(Rows)
  OBVIOUS
<1>3. c \in Requests({})
  BY <1>2 DEF Call, Requests
<1>. HIDE DEF c
<1>4. RequestOK(c)
  BY <1>1, <1>3 DEF RequestOK
<1>. QED
  BY <1>4 DEF c

\* What a handler whose request c is answered goes on with: nothing, or one more request
\* for the project that is selected.
GoesOnWith(c, project, more) ==
  \/ more = {} /\ (project = None \/ c.then = <<>> \/ Head(c.then) = "detail")
  \/ \E x : /\ more = {x} /\ RequestOK(x)
            /\ x.project = project /\ project # None /\ x.kind = Head(c.then)

LEMMA LoadsOne ==
  ASSUME ControlInv, NEW c \in calls, NEW project \in {None} \cup ProjectIds, NEW where,
         NEW more, more = Loads(c.n, c.then, project, ses, where, c.form)
  PROVE  GoesOnWith(c, project, more)
<1>1. RequestOK(c) /\ c \in Requests(c.answer)
  BY DEF ControlInv, RequestOK
<1>2. PICK n \in Nat : n = c.n
  BY <1>1 DEF Requests
<1>3. PICK then \in Seq({"overview", "detail"}) : then = c.then
  BY <1>1 DEF Requests
<1>4. PICK form \in BOOLEAN : form = c.form
  BY <1>1 DEF Requests
<1>5. PICK session \in {None} \cup AllSessions : session = ses
  BY DEF ControlInv, PageOK
<1>6. more = Loads(n, then, project, session, where, form)
  BY <1>2, <1>3, <1>4, <1>5
<1>7. CASE \/ then = <<>> \/ project = None
           \/ Head(then) = "detail" /\ (session = None \/ where # "sessions")
  BY <1>3, <1>6, <1>7 DEF Loads, GoesOnWith
<1>8. CASE ~ (\/ then = <<>> \/ project = None
              \/ Head(then) = "detail" /\ (session = None \/ where # "sessions"))
  <2>1. PICK kind : kind = Head(then)
    OBVIOUS
  <2>2. PICK left \in Seq({"overview", "detail"}) : left = Tail(then)
    <3>1. then # <<>>
      BY <1>8
    <3>2. Tail(then) \in Seq({"overview", "detail"})
      BY <3>1
    <3>. QED
      BY <3>2
  <2>3. kind \in Kinds /\ kind # "projects" /\ project \in ProjectIds
    BY <1>8, <2>1 DEF Kinds
  <2>4. PICK x : x = Call(n, kind, project, session, left, form)
    OBVIOUS
  <2>5. RequestOK(x)
    BY <2>3, <2>4, NewCall
  <2>6. more = {x}
    BY <1>6, <1>8, <2>1, <2>2, <2>4 DEF Loads
  <2>7. x.project = project /\ x.kind = kind
    BY <2>4 DEF Call
  <2>. QED
    BY <1>3, <1>8, <2>1, <2>5, <2>6, <2>7 DEF GoesOnWith
<1>. QED
  BY <1>7, <1>8

-----------------------------------------------------------------------------
(* The server.                                                             *)

LEMMA AnsweredRequest ==
  ASSUME NEW c, c \in Requests(c.answer), NEW answer
  PROVE  /\ Answered(c, answer) \in Requests(answer)
         /\ Answered(c, answer).answer = answer /\ Answered(c, answer).phase = "answered"
         /\ Answered(c, answer).kind = c.kind /\ Answered(c, answer).project = c.project
         /\ Answered(c, answer).then = c.then
<1>1. <<>> \in Seq(Rows)
  OBVIOUS
<1>. QED
  BY <1>1 DEF Answered, Requests

\* The request c is under way as d instead.
Replaces(c, d) ==
  /\ calls' = (calls \ {c}) \cup {d}
  /\ d.kind = c.kind /\ d.project = c.project
  /\ UNCHANGED <<entries, screen, typed, made, disturbed>>

LEMMA ServesProjectsStep ==
  ASSUME ControlInv, NEW c \in calls, ServesProjects(c)
  PROVE  TablesOK' /\ Grows /\ \E d : Replaces(c, d) /\ RequestOK(d)'
<1>. DEFINE d == Answered(c, {ProjectList})
<1>1. c.kind = "projects" /\ RequestOK(c) /\ TablesOK
  BY DEF ControlInv, ServesProjects
<1>2. /\ d \in Requests({ProjectList}) /\ d.answer = {ProjectList} /\ d.phase = "answered"
      /\ d.kind = c.kind /\ d.project = c.project /\ d.then = c.then
  BY <1>1, AnsweredRequest DEF RequestOK
<1>3. TablesOK' /\ Grows
  BY <1>1, TablesSame DEF ServesProjects, Progress
<1>4. Replaces(c, d)
  BY <1>2 DEF ServesProjects, Progress, Replaces, ProjectList
<1>. HIDE DEF d
<1>5. PICK x : x = d
  OBVIOUS
<1>6. RequestOK(x)
  BY <1>1, <1>2, <1>5 DEF RequestOK
<1>7. RequestOK(x)'
  BY <1>1, <1>3, <1>6, RequestKept
<1>. QED
  BY <1>3, <1>4, <1>5, <1>7

LEMMA OverviewReadsStep ==
  ASSUME ControlInv, NEW c \in calls, OverviewReads(c)
  PROVE  TablesOK' /\ Grows /\ \E d : Replaces(c, d) /\ RequestOK(d)'
<1>1. c.kind = "overview" /\ RequestOK(c) /\ TablesOK
  BY DEF ControlInv, OverviewReads
<1>2. PICK db \in Databases : db = getProjectOrThrow(c.project).db
  BY <1>1, ProjectFound DEF RequestOK, TablesOK
<1>3. PICK now \in Seq(Rows) : now = tasks[db]
  BY <1>1 DEF TablesOK
<1>. DEFINE d == [c EXCEPT !.phase = "reading", !.rows = now]
<1>4. /\ d \in Requests(c.answer) /\ d.answer = c.answer /\ d.phase = "reading" /\ d.rows = now
      /\ d.kind = c.kind /\ d.project = c.project /\ d.then = c.then
  BY <1>1 DEF RequestOK, Requests
<1>5. TablesOK' /\ Grows
  BY <1>1, TablesSame DEF OverviewReads, Progress
<1>6. Replaces(c, d)
  BY <1>2, <1>3, <1>4 DEF OverviewReads, Progress, Replaces
<1>7. Earlier(now, db)
  <2>1. Len(now) \in Nat
    OBVIOUS
  <2>. QED
    BY <1>3, <2>1 DEF Earlier
<1>. HIDE DEF d
<1>8. PICK x : x = d
  OBVIOUS
<1>9. RequestOK(x)
  BY <1>1, <1>2, <1>4, <1>7, <1>8 DEF RequestOK
<1>10. RequestOK(x)'
  BY <1>1, <1>5, <1>9, RequestKept
<1>. QED
  BY <1>5, <1>6, <1>8, <1>10

LEMMA OverviewAnswersStep ==
  ASSUME ControlInv, NEW c \in calls, OverviewAnswers(c)
  PROVE  TablesOK' /\ Grows /\ \E d : Replaces(c, d) /\ RequestOK(d)'
<1>1. c.kind = "overview" /\ c.phase = "reading" /\ RequestOK(c) /\ TablesOK
  BY DEF ControlInv, OverviewAnswers
<1>2. PICK db \in Databases : db = getProjectOrThrow(c.project).db
  BY <1>1, ProjectFound DEF RequestOK, TablesOK
<1>3. PICK sessions :
        Progress(c, Answered(c, {createProjectOverview(c.project, c.rows, tasks[db], sessions)}))
  BY <1>2 DEF OverviewAnswers
<1>4. PICK o : o = createProjectOverview(c.project, c.rows, tasks[db], sessions)
  OBVIOUS
<1>5. Earlier(c.rows, db) /\ tasks[db] \in Seq(Rows)
  BY <1>1, <1>2 DEF RequestOK, TablesOK
<1>6. o.project = c.project /\ FitsTogether(o)
  <2>1. o.project = c.project
    BY <1>4 DEF createProjectOverview
  <2>. QED
    BY <1>4, <1>5, <2>1, OverviewFits
<1>. DEFINE d == Answered(c, {o})
<1>7. /\ d \in Requests({o}) /\ d.answer = {o} /\ d.phase = "answered"
      /\ d.kind = c.kind /\ d.project = c.project /\ d.then = c.then
  BY <1>1, AnsweredRequest DEF RequestOK
<1>8. TablesOK' /\ Grows
  BY <1>1, <1>3, TablesSame DEF OverviewAnswers, Progress
<1>9. Replaces(c, d)
  <2>. HIDE DEF d
  <2>1. Progress(c, d)
    BY <1>3, <1>4 DEF d
  <2>. QED
    BY <1>7, <2>1 DEF Progress, Replaces
<1>. HIDE DEF d
<1>10. PICK x : x = d
  OBVIOUS
<1>11. RequestOK(x)
  BY <1>1, <1>6, <1>7, <1>10 DEF RequestOK
<1>12. RequestOK(x)'
  BY <1>1, <1>8, <1>11, RequestKept
<1>. QED
  BY <1>8, <1>9, <1>10, <1>12

LEMMA DetailAnswersStep ==
  ASSUME ControlInv, NEW c \in calls, DetailAnswers(c)
  PROVE  TablesOK' /\ Grows /\ \E d : Replaces(c, d) /\ RequestOK(d)'
<1>1. c.kind = "detail" /\ RequestOK(c) /\ TablesOK
  BY DEF ControlInv, DetailAnswers
<1>2. PICK answer : Progress(c, Answered(c, answer))
  BY DEF DetailAnswers
<1>. DEFINE d == Answered(c, answer)
<1>3. /\ d \in Requests(answer) /\ d.answer = answer /\ d.phase = "answered"
      /\ d.kind = c.kind /\ d.project = c.project /\ d.then = c.then
  BY <1>1, AnsweredRequest DEF RequestOK
<1>4. TablesOK' /\ Grows
  BY <1>1, <1>2, TablesSame DEF DetailAnswers, Progress
<1>. HIDE DEF d
<1>5. Replaces(c, d)
  BY <1>2, <1>3 DEF Progress, Replaces, d
<1>6. PICK x : x = d
  OBVIOUS
<1>7. RequestOK(x)
  BY <1>1, <1>3, <1>6 DEF RequestOK
<1>8. RequestOK(x)'
  BY <1>1, <1>4, <1>7, RequestKept
<1>. QED
  BY <1>4, <1>5, <1>6, <1>8

\* The answer to a task names a row and a metric that are both there.
LEMMA EnqueueAnswersStep ==
  ASSUME ControlInv, NEW c \in calls, EnqueueAnswers(c)
  PROVE  TablesOK' /\ Grows /\ \E d : Replaces(c, d) /\ RequestOK(d)'
<1>1. c.kind = "tasks" /\ RequestOK(c) /\ TablesOK
  BY DEF ControlInv, EnqueueAnswers
<1>2. PICK db \in Databases : db = getProjectOrThrow(c.project).db
  BY <1>1, ProjectFound DEF RequestOK, TablesOK
<1>3. PICK place \in Nat : place = Len(tasks[db]) + 1
  BY <1>1, <1>2 DEF TablesOK
<1>4. ASSUME NEW answer, Progress(c, Answered(c, answer)), TablesOK', Grows,
             \A r \in answer : Recorded(r)'
      PROVE  \E d : Replaces(c, d) /\ RequestOK(d)'
  <2>. DEFINE d == Answered(c, answer)
  <2>1. /\ d \in Requests(answer) /\ d.answer = answer /\ d.phase = "answered"
        /\ d.kind = c.kind /\ d.project = c.project /\ d.then = c.then
    BY <1>1, AnsweredRequest DEF RequestOK
  <2>. HIDE DEF d
  <2>2. Replaces(c, d)
    BY <1>4, <2>1 DEF Progress, Replaces, d
  <2>3. PICK x : x = d
    OBVIOUS
  <2>4. x \in Requests(x.answer)' /\ ProjectIds' = ProjectIds
    BY <1>4, <2>1, <2>3, RegistryKept DEF Requests, Grows
  <2>5. RequestOK(x)'
    BY <1>1, <1>4, <2>1, <2>3, <2>4 DEF RequestOK
  <2>. QED
    BY <2>2, <2>3, <2>5
<1>5. CASE c.prompt = 0
  <2>1. Progress(c, Answered(c, {})) /\ UNCHANGED tables
    BY <1>5 DEF EnqueueAnswers
  <2>2. TablesOK' /\ Grows
    BY <1>1, <2>1, TablesSame DEF Progress
  <2>. QED
    BY <1>4, <2>1, <2>2
<1>6. CASE c.prompt # 0
  <2>. DEFINE row == [thread |-> safeThreadId(c.thread), status |-> "pending"]
  <2>1. row \in Rows
    <3>1. safeThreadId(c.thread) \in Names
      BY <1>1 DEF RequestOK, Requests, safeThreadId, Names
    <3>. QED
      BY <1>1, <3>1 DEF RequestOK, Requests, Rows, Statuses
  <2>. HIDE DEF row
  <2>2. /\ tasks' = [tasks EXCEPT ![db] = Append(@, row)] /\ moves' = moves
        /\ \/ /\ metrics' = [metrics EXCEPT ![db] = @ \cup {place}]
              /\ Progress(c, Answered(c, {[db |-> db, place |-> place]}))
           \/ metrics' = metrics /\ Progress(c, Answered(c, {}))
    BY <1>2, <1>3, <1>6 DEF EnqueueAnswers, row
  <2>3. entries' = entries
    BY <2>2 DEF Progress
  <2>4. TablesOK' /\ Grows /\ DOMAIN tasks'[db] = 1..(Len(tasks[db]) + 1)
    BY <1>1, <1>3, <2>1, <2>2, <2>3, TablesAppend
  <2>5. CASE metrics' = metrics /\ Progress(c, Answered(c, {}))
    BY <1>4, <2>4, <2>5
  <2>6. CASE /\ metrics' = [metrics EXCEPT ![db] = @ \cup {place}]
             /\ Progress(c, Answered(c, {[db |-> db, place |-> place]}))
    <3>1. PICK r : r = [db |-> db, place |-> place]
      OBVIOUS
    <3>2. Databases' = Databases
      BY <2>3, RegistryKept
    <3>3. place \in metrics'[db]
      BY <1>1, <2>6 DEF TablesOK
    <3>4. place \in DOMAIN tasks'[db]
      BY <1>3, <2>4
    <3>5. r.db = db /\ r.place = place
      BY <3>1
    <3>6. Recorded(r)'
      BY <3>2, <3>3, <3>4, <3>5 DEF Recorded
    <3>. QED
      BY <1>4, <2>4, <2>6, <3>1, <3>6
  <2>. QED
    BY <2>2, <2>4, <2>5, <2>6
<1>. QED
  BY <1>5, <1>6

\* One of the server's steps.
Serves(c) ==
  \/ ServesProjects(c) \/ OverviewReads(c) \/ OverviewAnswers(c) \/ DetailAnswers(c)
  \/ EnqueueAnswers(c)

LEMMA ServesStep ==
  ASSUME ControlInv, NEW c \in calls, Serves(c)
  PROVE  TablesOK' /\ Grows /\ \E d : Replaces(c, d) /\ RequestOK(d)'
  BY ServesProjectsStep, OverviewReadsStep, OverviewAnswersStep, DetailAnswersStep,
     EnqueueAnswersStep DEF Serves

LEMMA ServesControlled ==
  ASSUME ControlInv, NEW c \in calls, Serves(c)
  PROVE  ControlInv'
<1>1. TablesOK' /\ Grows
  BY ServesStep
<1>2. PICK d : Replaces(c, d) /\ RequestOK(d)'
  BY ServesStep
<1>3. \A x \in calls' : RequestOK(x)'
  <2>1. \A x \in calls : RequestOK(x)'
    BY <1>1, RequestKept DEF ControlInv
  <2>. QED
    BY <1>2, <2>1 DEF Replaces
<1>4. ShownOK'
  BY <1>1, <1>2, ShownKept DEF ControlInv, Replaces, screen
<1>5. PageOK'
  BY <1>2, RegistryKept DEF ControlInv, PageOK, Replaces, screen, AllSessions, Views
<1>. QED
  BY <1>1, <1>3, <1>4, <1>5 DEF ControlInv

-----------------------------------------------------------------------------
(* The page.                                                               *)

\* A step of the page may add requests to those under way and show what they answered.
LEMMA PageStep ==
  ASSUME ControlInv, UNCHANGED <<entries, tables>>, NEW more,
         \A c \in more : RequestOK(c), calls' \subseteq calls \cup more
  PROVE  /\ TablesOK' /\ Grows
         /\ \A c \in calls' : RequestOK(c)'
         /\ \A r : Recorded(r) => Recorded(r)'
         /\ ProjectIds' = ProjectIds
<1>1. TablesOK' /\ Grows
  BY TablesSame DEF ControlInv
<1>2. \A c \in calls \cup more : RequestOK(c)'
  BY <1>1, RequestKept DEF ControlInv
<1>. QED
  BY <1>1, <1>2, RecordedKept, RegistryKept DEF ControlInv

LEMMA SelectProjectStep ==
  ASSUME ControlInv, NEW i \in DOMAIN projects, SelectProject(projects[i])
  PROVE  ControlInv'
<1>1. PICK id \in ProjectIds : id = projects[i]
  BY DEF ControlInv, PageOK
<1>2. made \in Nat /\ made' \in 1 .. MaxHandlers
  BY ControlPlaneAssumption DEF ControlInv, PageOK, SelectProject, Handles
<1>. DEFINE new == Call(made + 1, "overview", id, None, <<>>, FALSE)
<1>3. RequestOK(new)
  <2>1. "overview" \in Kinds /\ <<>> \in Seq({"overview", "detail"})
    BY DEF Kinds
  <2>0. PICK n \in Nat : n = made + 1
    BY <1>2
  <2>2. PICK then \in Seq({"overview", "detail"}) : then = <<>>
    BY <2>1
  <2>3. RequestOK(Call(n, "overview", id, None, then, FALSE))
    BY <2>1, NewCall
  <2>. QED
    BY <2>0, <2>2, <2>3
<1>4. calls' \subseteq calls \cup {new}
  BY <1>1 DEF SelectProject, Handles
<1>. HIDE DEF new
<1>5. /\ TablesOK' /\ Grows /\ ProjectIds' = ProjectIds
      /\ \A c \in calls' : RequestOK(c)'
  <2>1. UNCHANGED <<entries, tables>>
    BY DEF SelectProject
  <2>2. PICK more : more = {new}
    OBVIOUS
  <2>3. (\A c \in more : RequestOK(c)) /\ calls' \subseteq calls \cup more
    BY <1>3, <1>4, <2>2
  <2>. QED
    BY <2>1, <2>3, PageStep
<1>6. PageOK'
  BY <1>1, <1>2, <1>5 DEF ControlInv, PageOK, SelectProject, Handles
<1>7. ShownOK'
  BY <1>5, ShownKept DEF ControlInv, SelectProject
<1>. QED
  BY <1>5, <1>6, <1>7 DEF ControlInv

LEMMA SelectSessionStep ==
  ASSUME ControlInv, NEW s \in AllSessions, SelectSession(s)
  PROVE  ControlInv'
<1>2. made \in Nat /\ made' \in 1 .. MaxHandlers
  BY ControlPlaneAssumption DEF ControlInv, PageOK, SelectSession, Handles
<1>. DEFINE new == Call(made + 1, "detail", sel, s, <<>>, FALSE)
<1>3. RequestOK(new)
  <2>1. "detail" \in Kinds /\ <<>> \in Seq({"overview", "detail"})
    BY DEF Kinds
  <2>0. PICK n \in Nat : n = made + 1
    BY <1>2
  <2>2. PICK then \in Seq({"overview", "detail"}) : then = <<>>
    BY <2>1
  <2>3. sel \in {None} \cup ProjectIds
    BY DEF ControlInv, PageOK
  <2>4. RequestOK(Call(n, "detail", sel, s, then, FALSE))
    BY <2>1, <2>3, NewCall
  <2>. QED
    BY <2>0, <2>2, <2>4
<1>4. calls' \subseteq calls \cup {new}
  BY DEF SelectSession, Handles
<1>. HIDE DEF new
<1>5. /\ TablesOK' /\ Grows /\ ProjectIds' = ProjectIds
      /\ \A c \in calls' : RequestOK(c)'
  <2>1. UNCHANGED <<entries, tables>>
    BY DEF SelectSession
  <2>2. PICK more : more = {new}
    OBVIOUS
  <2>3. (\A c \in more : RequestOK(c)) /\ calls' \subseteq calls \cup more
    BY <1>3, <1>4, <2>2
  <2>. QED
    BY <2>1, <2>3, PageStep
<1>6. PageOK'
  BY <1>2, <1>5 DEF ControlInv, PageOK, SelectSession, Handles, Views
<1>7. ShownOK'
  BY <1>5, ShownKept DEF ControlInv, SelectSession
<1>. QED
  BY <1>5, <1>6, <1>7 DEF ControlInv

LEMMA RefreshStep ==
  ASSUME ControlInv, Refresh
  PROVE  ControlInv'
<1>2. made \in Nat /\ made' \in 1 .. MaxHandlers
  BY ControlPlaneAssumption DEF ControlInv, PageOK, Refresh, Handles
<1>. DEFINE new == Call(made + 1, "projects", None, None, <<"overview", "detail">>, FALSE)
<1>3. RequestOK(new)
  <2>1. /\ <<"overview", "detail">> \in Seq({"overview", "detail"}) /\ "projects" \in Kinds
        /\ <<"overview", "detail">> # <<>> /\ Head(<<"overview", "detail">>) = "overview"
    BY DEF Kinds
  <2>0. PICK n \in Nat : n = made + 1
    BY <1>2
  <2>2. PICK then \in Seq({"overview", "detail"}) : then = <<"overview", "detail">>
    BY <2>1
  <2>3. then # <<>> /\ Head(then) = "overview"
    BY <2>1, <2>2
  <2>4. RequestOK(Call(n, "projects", None, None, then, FALSE))
    BY <2>1, <2>3, NewCall
  <2>. QED
    BY <2>0, <2>2, <2>4
<1>4. calls' \subseteq calls \cup {new}
  BY DEF Refresh, Handles
<1>. HIDE DEF new
<1>5. /\ TablesOK' /\ Grows /\ ProjectIds' = ProjectIds
      /\ \A c \in calls' : RequestOK(c)'
  <2>1. UNCHANGED <<entries, tables>>
    BY DEF Refresh
  <2>2. PICK more : more = {new}
    OBVIOUS
  <2>3. (\A c \in more : RequestOK(c)) /\ calls' \subseteq calls \cup more
    BY <1>3, <1>4, <2>2
  <2>. QED
    BY <2>1, <2>3, PageStep
<1>6. PageOK'
  BY <1>2, <1>5 DEF ControlInv, PageOK, Refresh, Handles, screen
<1>7. ShownOK'
  BY <1>5, ShownKept DEF ControlInv, Refresh, screen
<1>. QED
  BY <1>5, <1>6, <1>7 DEF ControlInv

LEMMA SubmitStep ==
  ASSUME ControlInv, NEW t \in Threads, submitEnqueue(t)
  PROVE  ControlInv'
<1>2. made \in Nat /\ made' \in 1 .. MaxHandlers
  BY ControlPlaneAssumption DEF ControlInv, PageOK, submitEnqueue, Handles
<1>. DEFINE plain == Call(made + 1, "tasks", sel, None, <<"overview">>, TRUE)
            new == [plain EXCEPT !.thread = t, !.prompt = prompt]
<1>3. RequestOK(plain) /\ plain.kind = "tasks"
  <2>1. "tasks" \in Kinds /\ <<"overview">> \in Seq({"overview", "detail"})
    BY DEF Kinds
  <2>0. PICK n \in Nat : n = made + 1
    BY <1>2
  <2>2. PICK then \in Seq({"overview", "detail"}) : then = <<"overview">>
    BY <2>1
  <2>3. sel \in ProjectIds
    BY DEF ControlInv, PageOK, submitEnqueue
  <2>4. RequestOK(Call(n, "tasks", sel, None, then, TRUE))
    BY <2>1, <2>3, NewCall
  <2>. QED
    BY <2>0, <2>2, <2>4 DEF Call
<1>4. calls' \subseteq calls \cup {new}
  BY DEF submitEnqueue, Handles
<1>. HIDE DEF plain
<1>5. RequestOK(new)
  <2>1. prompt \in Nat
    BY ControlPlaneAssumption DEF ControlInv, PageOK
  <2>2. /\ new \in Requests(plain.answer)
        /\ new.kind = "tasks" /\ new.answer = plain.answer /\ new.phase = plain.phase
        /\ new.project = plain.project
    BY <1>3, <2>1 DEF RequestOK, Requests
  <2>. HIDE DEF new
  <2>. QED
    BY <1>3, <2>2 DEF RequestOK
<1>. HIDE DEF new
<1>6. /\ TablesOK' /\ Grows /\ ProjectIds' = ProjectIds
      /\ \A c \in calls' : RequestOK(c)'
  <2>1. UNCHANGED <<entries, tables>>
    BY DEF submitEnqueue
  <2>2. PICK more : more = {new}
    OBVIOUS
  <2>3. (\A c \in more : RequestOK(c)) /\ calls' \subseteq calls \cup more
    BY <1>5, <1>4, <2>2
  <2>. QED
    BY <2>1, <2>3, PageStep
<1>7. PageOK'
  BY <1>2, <1>6 DEF ControlInv, PageOK, submitEnqueue, Handles, screen
<1>8. ShownOK'
  BY <1>6, ShownKept DEF ControlInv, submitEnqueue, screen
<1>. QED
  BY <1>6, <1>7, <1>8 DEF ControlInv

\* The steps that touch no request: the view, the prompt field, X2's work on the tables.
LEMMA QuietStep ==
  ASSUME ControlInv, \/ \E v \in Views : setView(v)
                     \/ Type
                     \/ \E d \in DOMAIN tasks : TaskArrives(d) \/ \E i \in 1..MaxTasks : TaskMoves(d, i)
                     \/ UNCHANGED vars
  PROVE  ControlInv'
<1>1. /\ entries' = entries /\ calls' = calls
      /\ UNCHANGED <<sel, ses, projects, result, overview, made, disturbed>>
  BY DEF setView, Type, TaskArrives, TaskMoves, vars, screen
<1>2. TablesOK' /\ Grows
  <2>1. CASE UNCHANGED tables
    BY <1>1, <2>1, TablesSame DEF ControlInv
  <2>2. ASSUME NEW d \in DOMAIN tasks, TaskArrives(d) PROVE TablesOK' /\ Grows
    <3>1. d \in Databases
      BY DEF ControlInv, TablesOK
    <3>4. PICK thread \in {None} \cup {safeThreadId(t) : t \in Threads} :
            tasks' = [tasks EXCEPT ![d] = Append(@, [thread |-> thread, status |-> "pending"])]
      BY <2>2 DEF TaskArrives
    <3>. DEFINE row == [thread |-> thread, status |-> "pending"]
    <3>2. row \in Rows
      <4>1. thread \in Names
        BY DEF safeThreadId, Names
      <4>. QED
        BY <4>1 DEF Rows, Statuses
    <3>3. /\ tasks' = [tasks EXCEPT ![d] = Append(@, row)]
          /\ metrics' = metrics /\ moves' = moves
      BY <2>2, <3>4 DEF TaskArrives
    <3>. HIDE DEF row
    <3>. QED
      BY <1>1, <3>1, <3>2, <3>3, TablesAppend DEF ControlInv
  <2>3. ASSUME NEW d \in DOMAIN tasks, NEW i \in 1..MaxTasks, TaskMoves(d, i)
        PROVE  TablesOK' /\ Grows
    BY <2>3, TablesMove DEF ControlInv, TablesOK
  <2>. QED
    BY <2>1, <2>2, <2>3 DEF setView, Type, vars, tables
<1>3. \A c \in calls' : RequestOK(c)'
  BY <1>1, <1>2, RequestKept DEF ControlInv
<1>4. ShownOK'
  BY <1>1, <1>2, ShownKept DEF ControlInv
<1>5. prompt' \in 0 .. typed' /\ typed' \in 0 .. MaxPrompts /\ view' \in Views
  BY ControlPlaneAssumption
  DEF ControlInv, PageOK, setView, Type, TaskArrives, TaskMoves, vars, screen
<1>6. PageOK'
  BY <1>1, <1>5, RegistryKept DEF ControlInv, PageOK
<1>. QED
  BY <1>2, <1>3, <1>4, <1>6 DEF ControlInv

\* A handler whose request c is answered goes on.
Continues(c, project) ==
  \E more :
    /\ calls' = (calls \ {c}) \cup more
    /\ disturbed' = (disturbed \/ Overlaps(calls \ {c}, more))
    /\ GoesOnWith(c, project, more)

LEMMA GoesOnContinues ==
  ASSUME ControlInv, NEW c \in calls, NEW project \in {None} \cup ProjectIds, NEW where,
         GoesOn(c, project, ses, where)
  PROVE  Continues(c, project)
<1>1. PICK more : more = Loads(c.n, c.then, project, ses, where, c.form)
  OBVIOUS
<1>2. /\ calls' = (calls \ {c}) \cup more
      /\ disturbed' = (disturbed \/ Overlaps(calls \ {c}, more))
  BY <1>1 DEF GoesOn
<1>3. GoesOnWith(c, project, more)
  BY <1>1, LoadsOne
<1>. QED
  BY <1>2, <1>3 DEF Continues

\* What such a step leaves as good as it was.
LEMMA ContinuesKeeps ==
  ASSUME ControlInv, NEW c \in calls, NEW project, Continues(c, project),
         UNCHANGED <<entries, tables>>
  PROVE  /\ TablesOK' /\ Grows
         /\ \A x \in calls' : RequestOK(x)'
         /\ \A r : Recorded(r) => Recorded(r)'
         /\ ProjectIds' = ProjectIds /\ disturbed' \in BOOLEAN
<1>1. PICK more : /\ calls' = (calls \ {c}) \cup more
                  /\ \A x \in more : RequestOK(x)
                  /\ disturbed' = (disturbed \/ Overlaps(calls \ {c}, more))
  BY DEF Continues, GoesOnWith
<1>2. (\A x \in more : RequestOK(x)) /\ calls' \subseteq calls \cup more
  BY <1>1
<1>3. disturbed' \in BOOLEAN
  BY <1>1
<1>. QED
  BY <1>2, <1>3, PageStep

LEMMA ErrorShownStep ==
  ASSUME ControlInv, NEW c \in calls, ErrorShown(c)
  PROVE  ControlInv'
<1>1. UNCHANGED <<entries, tables>> /\ calls' \subseteq calls \cup {}
  BY DEF ErrorShown
<1>2. /\ TablesOK' /\ Grows /\ ProjectIds' = ProjectIds
      /\ \A x \in calls' : RequestOK(x)'
  <2>1. PICK more : more = {}
    OBVIOUS
  <2>2. (\A x \in more : RequestOK(x)) /\ calls' \subseteq calls \cup more
    BY <1>1, <2>1
  <2>. QED
    BY <1>1, <2>2, PageStep
<1>3. PageOK'
  BY <1>2 DEF ControlInv, PageOK, ErrorShown
<1>4. result' \subseteq result /\ overview' = overview
  BY DEF ErrorShown
<1>5. ShownOK'
  BY <1>2, <1>4, ShownKept DEF ControlInv
<1>. QED
  BY <1>2, <1>3, <1>5 DEF ControlInv

\* The selected project after a list of the projects has come.
LEMMA ProjectsLoadedContinues ==
  ASSUME ControlInv, NEW c \in calls, ProjectsLoaded(c)
  PROVE  /\ \A i \in DOMAIN projects' : projects'[i] \in ProjectIds
         /\ sel' \in {None} \cup ProjectIds /\ (sel # None => sel' = sel)
         /\ Continues(c, sel')
<1>1. c.kind = "projects" /\ RequestOK(c)
  BY DEF ControlInv, ProjectsLoaded
<1>2. PICK list \in c.answer : /\ projects' = list
                               /\ sel' = IF sel = None /\ list # <<>> THEN list[1] ELSE sel
  BY DEF ProjectsLoaded
<1>3. list = ProjectList
  BY <1>1 DEF RequestOK
<1>4. PICK n \in Nat \ {0} : DOMAIN Registry = 1..n
  BY RegistryShape DEF ControlInv, TablesOK
<1>5. DOMAIN list = 1..n /\ \A i \in DOMAIN list : list[i] \in ProjectIds
  BY <1>3, <1>4 DEF ProjectList, ProjectIds
<1>6. list[1] \in ProjectIds
  BY <1>5
<1>7. sel' \in {None} \cup ProjectIds
  BY <1>2, <1>6 DEF ControlInv, PageOK
<1>8. PICK project \in {None} \cup ProjectIds : project = sel'
  BY <1>7
<1>9. PICK where : where = view
  OBVIOUS
<1>10. GoesOn(c, project, ses, where)
  BY <1>8, <1>9 DEF ProjectsLoaded, GoesOn
<1>11. Continues(c, project)
  BY <1>10, GoesOnContinues
<1>12. Continues(c, sel')
  BY <1>8, <1>11
<1>. QED
  BY <1>2, <1>5, <1>7, <1>12

LEMMA ProjectsLoadedStep ==
  ASSUME ControlInv, NEW c \in calls, ProjectsLoaded(c)
  PROVE  ControlInv'
<1>1. PICK project : project = sel' /\ Continues(c, project)
  BY ProjectsLoadedContinues
<1>2. UNCHANGED <<entries, tables>>
  BY DEF ProjectsLoaded
<1>3. /\ TablesOK' /\ Grows /\ ProjectIds' = ProjectIds /\ disturbed' \in BOOLEAN
      /\ \A x \in calls' : RequestOK(x)'
  BY <1>1, <1>2, ContinuesKeeps
<1>4. PageOK'
  BY <1>3, ProjectsLoadedContinues DEF ControlInv, PageOK, ProjectsLoaded
<1>5. ShownOK'
  BY <1>3, ShownKept DEF ControlInv, ProjectsLoaded
<1>. QED
  BY <1>3, <1>4, <1>5 DEF ControlInv

\* The other answers leave the selection alone.
LEMMA OthersContinue ==
  ASSUME ControlInv, NEW c \in calls, OverviewLoaded(c) \/ DetailLoaded(c) \/ Enqueued(c)
  PROVE  Continues(c, sel) /\ UNCHANGED <<entries, tables, sel, ses, projects, made, typed>>
<1>1. PICK project \in {None} \cup ProjectIds : project = sel
  BY DEF ControlInv, PageOK
<1>2. PICK where : GoesOn(c, project, ses, where)
  BY <1>1 DEF OverviewLoaded, DetailLoaded, Enqueued
<1>3. Continues(c, project)
  BY <1>2, GoesOnContinues
<1>. QED
  BY <1>1, <1>3 DEF OverviewLoaded, DetailLoaded, Enqueued

LEMMA OthersStep ==
  ASSUME ControlInv, NEW c \in calls, OverviewLoaded(c) \/ DetailLoaded(c) \/ Enqueued(c)
  PROVE  ControlInv'
<1>1. PICK project : project = sel /\ Continues(c, project)
  BY OthersContinue
<1>2. /\ TablesOK' /\ Grows /\ ProjectIds' = ProjectIds /\ disturbed' \in BOOLEAN
      /\ \A x \in calls' : RequestOK(x)'
      /\ \A r : Recorded(r) => Recorded(r)'
  BY <1>1, OthersContinue, ContinuesKeeps
<1>3. PageOK'
  <2>1. prompt' \in 0 .. typed' /\ view' \in Views
    BY ControlPlaneAssumption
    DEF ControlInv, PageOK, OverviewLoaded, DetailLoaded, Enqueued, Views
  <2>. QED
    BY <1>2, <2>1, OthersContinue DEF ControlInv, PageOK
<1>4. \A o \in overview' : FitsTogether(o)
  <2>1. CASE overview' = overview
    BY <2>1 DEF ControlInv, ShownOK
  <2>2. CASE overview' = c.answer /\ c.kind = "overview"
    BY <2>2 DEF ControlInv, RequestOK
  <2>. QED
    BY <2>1, <2>2 DEF OverviewLoaded, DetailLoaded, Enqueued
<1>5. \A r \in result' : Recorded(r)'
  <2>1. CASE result' = result
    BY <1>2, <2>1 DEF ControlInv, ShownOK
  <2>2. CASE result' = c.answer /\ c.kind = "tasks"
    BY <1>2, <2>2 DEF ControlInv, RequestOK
  <2>. QED
    BY <2>1, <2>2 DEF OverviewLoaded, DetailLoaded, Enqueued
<1>6. ShownOK'
  BY <1>4, <1>5 DEF ShownOK
<1>. QED
  BY <1>2, <1>3, <1>6 DEF ControlInv

-----------------------------------------------------------------------------
(* The theorems about the tables and the answers.                          *)

LEMMA InitControlled == Init => ControlInv
<1>. SUFFICES ASSUME Init PROVE ControlInv
  OBVIOUS
<1>1. TablesOK
  <2>1. <<>> \in Seq(Rows)
    OBVIOUS
  <2>2. /\ tasks = [d \in Databases |-> <<>>] /\ metrics = [d \in Databases |-> {}]
        /\ entries \in Registries /\ moves \in 0 .. MaxMoves
    BY ControlPlaneAssumption DEF Init, Databases
  <2>. QED
    BY <2>1, <2>2 DEF TablesOK
<1>2. PageOK
  <2>1. MaxHandlers \in Nat \ {0} /\ MaxPrompts \in Nat
    BY ControlPlaneAssumption
  <2>2. /\ sel = None /\ ses = None /\ view = "others" /\ disturbed = FALSE
        /\ prompt = 0 /\ typed = 0 /\ made = 1 /\ DOMAIN projects = {}
    BY DEF Init
  <2>3. prompt \in 0 .. typed /\ typed \in 0 .. MaxPrompts /\ made \in 1 .. MaxHandlers
    BY <2>1, <2>2
  <2>. QED
    BY <2>2, <2>3 DEF PageOK, Views
<1>3. ShownOK
  BY DEF Init, ShownOK
<1>4. RequestOK(Call(1, "projects", None, None, <<"overview">>, FALSE))
  <2>1. /\ "projects" \in Kinds /\ <<"overview">> \in Seq({"overview", "detail"})
        /\ <<"overview">> # <<>> /\ Head(<<"overview">>) = "overview"
    BY DEF Kinds
  <2>2. PICK then \in Seq({"overview", "detail"}) : then = <<"overview">>
    BY <2>1
  <2>3. then # <<>> /\ Head(then) = "overview"
    BY <2>1, <2>2
  <2>4. RequestOK(Call(1, "projects", None, None, then, FALSE))
    BY <2>1, <2>3, NewCall
  <2>. QED
    BY <2>2, <2>4
<1>5. \A c \in calls : RequestOK(c)
  BY <1>4 DEF Init
<1>. QED
  BY <1>1, <1>2, <1>3, <1>5 DEF ControlInv

LEMMA ControlledStep == ControlInv /\ [Next]_vars => ControlInv'
<1>. SUFFICES ASSUME ControlInv, [Next]_vars PROVE ControlInv'
  OBVIOUS
<1>1. ASSUME NEW i \in DOMAIN projects, SelectProject(projects[i]) PROVE ControlInv'
  BY <1>1, SelectProjectStep
<1>2. ASSUME NEW s \in AllSessions, SelectSession(s) PROVE ControlInv'
  BY <1>2, SelectSessionStep
<1>3. CASE Refresh
  BY <1>3, RefreshStep
<1>4. ASSUME NEW t \in Threads, submitEnqueue(t) PROVE ControlInv'
  BY <1>4, SubmitStep
<1>5. CASE \/ \E v \in Views : setView(v)
           \/ Type
           \/ \E d \in DOMAIN tasks : TaskArrives(d) \/ \E i \in 1..MaxTasks : TaskMoves(d, i)
           \/ UNCHANGED vars
  BY <1>5, QuietStep
<1>6. ASSUME NEW c \in calls, Serves(c) PROVE ControlInv'
  BY <1>6, ServesControlled
<1>7. ASSUME NEW c \in calls, ErrorShown(c) PROVE ControlInv'
  BY <1>7, ErrorShownStep
<1>8. ASSUME NEW c \in calls, ProjectsLoaded(c) PROVE ControlInv'
  BY <1>8, ProjectsLoadedStep
<1>9. ASSUME NEW c \in calls, OverviewLoaded(c) \/ DetailLoaded(c) \/ Enqueued(c)
      PROVE  ControlInv'
  BY <1>9, OthersStep
<1>. QED
  BY <1>1, <1>2, <1>3, <1>4, <1>5, <1>6, <1>7, <1>8, <1>9 DEF Next, Serves

LEMMA ControlledAlways == Spec => []ControlInv
  BY InitControlled, ControlledStep, PTL DEF Spec

\* When the form says a task was queued, the task and the record of its enqueueing are
\* both in one state.db, whatever fails between the two writes or on the way back
\* (control-plane/summary.ts).
THEOREM QueuedTasksAreRecorded == Spec => []QueuedIsRecorded
<1>1. ControlInv => QueuedIsRecorded
  BY DEF ControlInv, ShownOK, Recorded, QueuedIsRecorded
<1>. QED
  BY <1>1, ControlledAlways, PTL

\* The counts of an overview fit together although the tasks change between the reading
\* of the rows and that of the statistics (control-plane/summary.ts).
THEOREM OverviewsFitTogether == Spec => []OverviewFitsTogether
<1>1. ControlInv => OverviewFitsTogether
  BY DEF ControlInv, ShownOK, OverviewFitsTogether
<1>. QED
  BY <1>1, ControlledAlways, PTL

-----------------------------------------------------------------------------
(* The requests under way are no more than the handlers that made them.     *)

CallsMove ==
  \/ made' = made /\ \E c \in calls : \E d : calls' \subseteq (calls \ {c}) \cup {d}
  \/ made' = made + 1 /\ \E d : calls' = calls \cup {d}
  \/ made' = made /\ calls' = calls

LEMMA CallsMoved == ControlInv /\ [Next]_vars => CallsMove
<1>. SUFFICES ASSUME ControlInv, [Next]_vars PROVE CallsMove
  OBVIOUS
<1>1. CASE \/ \E i \in DOMAIN projects : SelectProject(projects[i])
           \/ \E s \in AllSessions : SelectSession(s)
           \/ Refresh
           \/ \E t \in Threads : submitEnqueue(t)
  <2>1. PICK d : made' = made + 1 /\ calls' = calls \cup {d}
    BY <1>1 DEF SelectProject, SelectSession, Refresh, submitEnqueue, Handles
  <2>. QED
    BY <2>1 DEF CallsMove
<1>2. CASE \/ \E v \in Views : setView(v)
           \/ Type
           \/ \E d \in DOMAIN tasks : TaskArrives(d) \/ \E i \in 1..MaxTasks : TaskMoves(d, i)
           \/ UNCHANGED vars
  BY <1>2 DEF setView, Type, TaskArrives, TaskMoves, vars, CallsMove
<1>3. ASSUME NEW c \in calls, Serves(c) PROVE CallsMove
  <2>1. PICK d : Replaces(c, d)
    BY <1>3, ServesStep
  <2>. QED
    BY <2>1 DEF Replaces, CallsMove
<1>4. ASSUME NEW c \in calls, ErrorShown(c) PROVE CallsMove
  BY <1>4 DEF ErrorShown, CallsMove
<1>5. ASSUME NEW c \in calls, NEW project, Continues(c, project), made' = made PROVE CallsMove
  <2>1. PICK more : calls' = (calls \ {c}) \cup more /\ GoesOnWith(c, project, more)
    BY <1>5 DEF Continues
  <2>2. PICK d : more \subseteq {d}
    BY <2>1 DEF GoesOnWith
  <2>. QED
    BY <1>5, <2>1, <2>2 DEF CallsMove
<1>6. ASSUME NEW c \in calls, ProjectsLoaded(c) PROVE CallsMove
  <2>1. PICK project : Continues(c, project)
    BY <1>6, ProjectsLoadedContinues
  <2>. QED
    BY <1>5, <1>6, <2>1 DEF ProjectsLoaded
<1>7. ASSUME NEW c \in calls, OverviewLoaded(c) \/ DetailLoaded(c) \/ Enqueued(c)
      PROVE  CallsMove
  <2>1. PICK project : Continues(c, project)
    BY <1>7, OthersContinue
  <2>. QED
    BY <1>5, <1>7, <2>1, OthersContinue
<1>. QED
  BY <1>1, <1>2, <1>3, <1>4, <1>6, <1>7 DEF Next, Serves

LEMMA CountedStep == ControlInv /\ CallsCounted /\ [Next]_vars => CallsCounted'
<1>. SUFFICES ASSUME ControlInv, CallsCounted, CallsMove PROVE CallsCounted'
  BY CallsMoved
<1>. DEFINE k == Cardinality(calls)
            m == Cardinality(calls')
<1>1. IsFiniteSet(calls) /\ k \in Nat /\ k <= made /\ made \in Nat
  BY FS_CardinalityType, ControlPlaneAssumption DEF CallsCounted, ControlInv, PageOK
<1>2. ASSUME NEW c \in calls, NEW d, calls' \subseteq (calls \ {c}) \cup {d}, made' = made
      PROVE  CallsCounted'
  <2>1. IsFiniteSet(calls \ {c}) /\ Cardinality(calls \ {c}) = k - 1
    BY <1>1, FS_RemoveElement
  <2>. DEFINE S == (calls \ {c}) \cup {d}
  <2>2. IsFiniteSet(S) /\ Cardinality(S) \in {k - 1, k}
    <3>. DEFINE T == calls \ {c}
    <3>1. IsFiniteSet(T) /\ Cardinality(T) = k - 1
      BY <2>1
    <3>. HIDE DEF T, k
    <3>2. IsFiniteSet(T \cup {d}) /\ Cardinality(T \cup {d}) \in {Cardinality(T), Cardinality(T) + 1}
      BY <3>1, FS_AddElement
    <3>3. Cardinality(T \cup {d}) \in {k - 1, k}
      BY <1>1, <3>1, <3>2
    <3>. QED
      BY <3>2, <3>3 DEF T
  <2>. HIDE DEF S
  <2>3. calls' \subseteq S
    BY <1>2 DEF S
  <2>4. IsFiniteSet(calls') /\ m \in Nat /\ m <= Cardinality(S)
    BY <2>2, <2>3, FS_Subset, FS_CardinalityType
  <2>. HIDE DEF k, m
  <2>5. m <= made'
    BY <1>1, <1>2, <2>2, <2>4
  <2>. QED
    BY <2>4, <2>5 DEF CallsCounted, m
<1>3. ASSUME NEW d, calls' = calls \cup {d}, made' = made + 1 PROVE CallsCounted'
  <2>1. IsFiniteSet(calls') /\ m \in {k, k + 1}
    BY <1>1, <1>3, FS_AddElement
  <2>. HIDE DEF k, m
  <2>2. m <= made'
    BY <1>1, <1>3, <2>1
  <2>. QED
    BY <2>1, <2>2 DEF CallsCounted, m
<1>4. CASE made' = made /\ calls' = calls
  BY <1>4 DEF CallsCounted
<1>. QED
  BY <1>2, <1>3, <1>4 DEF CallsMove

\* The selection is a project of the registry, every metric is of a task that is there,
\* and the requests under way are no more than the handlers that made one.
THEOREM ControlPlaneTypeCorrect == Spec => []TypeOK
<1>1. Init => CallsCounted
  <2>. SUFFICES ASSUME Init PROVE CallsCounted
    OBVIOUS
  <2>1. PICK c : calls = {c} /\ made = 1
    BY DEF Init
  <2>2. IsFiniteSet({c}) /\ Cardinality({c}) = 1
    BY FS_Singleton
  <2>3. IsFiniteSet(calls) /\ Cardinality(calls) = 1
    BY <2>1, <2>2
  <2>4. 1 <= 1
    OBVIOUS
  <2>. QED
    BY <2>1, <2>3, <2>4 DEF CallsCounted
<1>2. Spec => []CallsCounted
  BY <1>1, CountedStep, ControlledAlways, PTL DEF Spec
<1>3. ASSUME ControlInv, CallsCounted PROVE TypeOK
  <2>1. \A d \in Databases : \A i \in DOMAIN tasks[d] : tasks[d][i].status \in Statuses
    <3>1. \A d \in Databases : tasks[d] \in Seq(Rows)
      BY <1>3 DEF ControlInv, TablesOK
    <3>2. \A d \in Databases : \A i \in DOMAIN tasks[d] : tasks[d][i] \in Rows
      BY <3>1
    <3>. QED
      BY <3>2 DEF Rows
  <2>2. DOMAIN tasks = Databases /\ DOMAIN metrics = Databases
    BY <1>3 DEF ControlInv, TablesOK
  <2>3. sel # None => \E i \in DOMAIN Registry : Registry[i].id = sel
    BY <1>3 DEF ControlInv, PageOK, ProjectIds
  <2>. QED
    BY <1>3, <2>1, <2>2, <2>3
    DEF ControlInv, TablesOK, PageOK, CallsCounted, TypeOK, Statuses
<1>. QED
  BY <1>2, <1>3, ControlledAlways, PTL

-----------------------------------------------------------------------------
(* The screen follows the selection.                                       *)

LEMMA FollowingServed ==
  ASSUME ControlInv, Following, NEW c \in calls, Serves(c)
  PROVE  Following'
<1>1. PICK d : Replaces(c, d)
  BY ServesStep
<1>2. /\ sel' = sel /\ overview' = overview /\ disturbed' = disturbed
      /\ calls' = (calls \ {c}) \cup {d} /\ d.kind = c.kind /\ d.project = c.project
  BY <1>1 DEF Replaces, screen
<1>. QED
  BY <1>2 DEF Following

LEMMA FollowingHandled ==
  ASSUME ControlInv, Following,
         \/ \E i \in DOMAIN projects : SelectProject(projects[i])
         \/ \E s \in AllSessions : SelectSession(s)
         \/ Refresh
         \/ \E t \in Threads : submitEnqueue(t)
  PROVE  Following'
<1>1. ASSUME NEW i \in DOMAIN projects, SelectProject(projects[i]) PROVE Following'
  <2>1. PICK new : /\ new = Call(made + 1, "overview", projects[i], None, <<>>, FALSE)
                   /\ calls' = calls \cup {new}
                   /\ disturbed' = (disturbed \/ Overlaps(calls, {new}))
                   /\ sel' = projects[i]
    BY <1>1 DEF SelectProject, Handles
  <2>2. new.kind = "overview" /\ new.project = projects[i]
    BY <2>1 DEF Call
  <2>3. ~disturbed' => \A c \in calls : c.kind # "overview"
    BY <2>1, <2>2 DEF Overlaps
  <2>. QED
    BY <2>1, <2>2, <2>3 DEF Following
<1>2. ASSUME NEW new, new.kind # "overview", calls' = calls \cup {new},
             disturbed' = (disturbed \/ Overlaps(calls, {new})),
             sel' = sel, overview' = overview
      PROVE  Following'
  BY <1>2 DEF Following
<1>3. ASSUME NEW s \in AllSessions, SelectSession(s) PROVE Following'
  <2>1. PICK new : /\ new = Call(made + 1, "detail", sel, s, <<>>, FALSE)
                   /\ calls' = calls \cup {new}
                   /\ disturbed' = (disturbed \/ Overlaps(calls, {new}))
    BY <1>3 DEF SelectSession, Handles
  <2>2. new.kind # "overview"
    BY <2>1 DEF Call
  <2>. QED
    BY <1>2, <1>3, <2>1, <2>2 DEF SelectSession
<1>4. ASSUME Refresh PROVE Following'
  <2>1. PICK new : /\ new = Call(made + 1, "projects", None, None, <<"overview", "detail">>, FALSE)
                   /\ calls' = calls \cup {new}
                   /\ disturbed' = (disturbed \/ Overlaps(calls, {new}))
    BY <1>4 DEF Refresh, Handles
  <2>2. new.kind # "overview"
    BY <2>1 DEF Call
  <2>. QED
    BY <1>2, <1>4, <2>1, <2>2 DEF Refresh, screen
<1>5. ASSUME NEW t \in Threads, submitEnqueue(t) PROVE Following'
  <2>1. PICK new : /\ new = [Call(made + 1, "tasks", sel, None, <<"overview">>, TRUE)
                               EXCEPT !.thread = t, !.prompt = prompt]
                   /\ calls' = calls \cup {new}
                   /\ disturbed' = (disturbed \/ Overlaps(calls, {new}))
    BY <1>5 DEF submitEnqueue, Handles
  <2>2. new.kind # "overview"
    BY <2>1 DEF Call
  <2>. QED
    BY <1>2, <1>5, <2>1, <2>2 DEF submitEnqueue, screen
<1>. QED
  BY <1>1, <1>3, <1>4, <1>5

LEMMA FollowingQuiet ==
  ASSUME Following, \/ \E v \in Views : setView(v)
                    \/ Type
                    \/ \E d \in DOMAIN tasks : TaskArrives(d) \/ \E i \in 1..MaxTasks : TaskMoves(d, i)
                    \/ UNCHANGED vars
  PROVE  Following'
<1>1. UNCHANGED <<sel, overview, calls, disturbed>>
  BY DEF setView, Type, TaskArrives, TaskMoves, vars, screen
<1>. QED
  BY <1>1 DEF Following

\* A failed load of an overview, or a failure before one, disturbs the page.
LEMMA FollowingError ==
  ASSUME Following, NEW c \in calls, ErrorShown(c)
  PROVE  Following'
<1>1. /\ calls' = calls \ {c} /\ sel' = sel /\ overview' = overview
      /\ ~disturbed' => ~disturbed /\ c.kind # "overview"
  BY DEF ErrorShown
<1>. QED
  BY <1>1 DEF Following

LEMMA FollowingProjects ==
  ASSUME ControlInv, Following, NEW c \in calls, ProjectsLoaded(c)
  PROVE  Following'
<1>1. /\ c.kind = "projects" /\ c.then # <<>> /\ Head(c.then) = "overview"
      /\ overview' = overview
  BY DEF ControlInv, RequestOK, ProjectsLoaded
<1>2. PICK project : project = sel' /\ Continues(c, project) /\ (sel # None => project = sel)
  BY ProjectsLoadedContinues
<1>3. PICK more : /\ calls' = (calls \ {c}) \cup more
                  /\ disturbed' = (disturbed \/ Overlaps(calls \ {c}, more))
                  /\ GoesOnWith(c, project, more)
  BY <1>2 DEF Continues
<1>4. CASE more = {}
  <2>1. project = None
    BY <1>1, <1>3, <1>4 DEF GoesOnWith
  <2>2. sel = None /\ sel' = None
    BY <1>2, <2>1
  <2>3. \A x \in calls' : x \in calls
    BY <1>3, <1>4
  <2>. QED
    BY <1>3, <2>2, <2>3 DEF Following
<1>5. CASE more # {}
  <2>1. PICK x : more = {x} /\ x.project = project /\ x.kind = "overview"
    BY <1>1, <1>3, <1>5 DEF GoesOnWith
  <2>2. ~disturbed' => ~disturbed /\ \A y \in calls \ {c} : y.kind # "overview"
    BY <1>3, <2>1 DEF Overlaps
  <2>. QED
    BY <1>2, <1>3, <2>1, <2>2 DEF Following
<1>. QED
  BY <1>4, <1>5

LEMMA FollowingOthers ==
  ASSUME ControlInv, Following, NEW c \in calls,
         OverviewLoaded(c) \/ DetailLoaded(c) \/ Enqueued(c)
  PROVE  Following'
<1>1. PICK project : project = sel /\ sel' = sel /\ Continues(c, project)
  BY OthersContinue
<1>2. PICK more : /\ calls' = (calls \ {c}) \cup more
                  /\ disturbed' = (disturbed \/ Overlaps(calls \ {c}, more))
                  /\ \A x \in more : x.project = sel
  BY <1>1 DEF Continues, GoesOnWith
<1>3. ~disturbed' => ~disturbed
  BY <1>2
<1>4. ASSUME ~disturbed' PROVE \A x \in calls' : x.kind = "overview" => x.project = sel'
  BY <1>1, <1>2, <1>3, <1>4 DEF Following
<1>5. CASE OverviewLoaded(c)
  <2>1. c.kind = "overview" /\ c.answer # {} /\ overview' = c.answer
    BY <1>5 DEF OverviewLoaded
  <2>2. \A o \in overview' : o.project = c.project
    BY <2>1 DEF ControlInv, RequestOK
  <2>3. ~disturbed => c.project = sel
    BY <2>1 DEF Following
  <2>4. ~disturbed' => \E o \in overview' : o.project = sel'
    BY <1>1, <1>3, <2>1, <2>2, <2>3
  <2>. QED
    BY <1>4, <2>4 DEF Following
<1>6. CASE DetailLoaded(c) \/ Enqueued(c)
  <2>1. c.kind # "overview" /\ overview' = overview
    BY <1>6 DEF DetailLoaded, Enqueued
  <2>2. \A x \in calls : x.kind = "overview" => x \in calls'
    BY <1>2, <2>1
  <2>. QED
    BY <1>1, <1>3, <1>4, <2>1, <2>2 DEF Following
<1>. QED
  BY <1>5, <1>6

LEMMA FollowingStep == ControlInv /\ Following /\ [Next]_vars => Following'
<1>. SUFFICES ASSUME ControlInv, Following, [Next]_vars PROVE Following'
  OBVIOUS
<1>1. CASE \/ \E i \in DOMAIN projects : SelectProject(projects[i])
           \/ \E s \in AllSessions : SelectSession(s)
           \/ Refresh
           \/ \E t \in Threads : submitEnqueue(t)
  BY <1>1, FollowingHandled
<1>2. CASE \/ \E v \in Views : setView(v)
           \/ Type
           \/ \E d \in DOMAIN tasks : TaskArrives(d) \/ \E i \in 1..MaxTasks : TaskMoves(d, i)
           \/ UNCHANGED vars
  BY <1>2, FollowingQuiet
<1>3. ASSUME NEW c \in calls, Serves(c) PROVE Following'
  BY <1>3, FollowingServed
<1>4. ASSUME NEW c \in calls, ErrorShown(c) PROVE Following'
  BY <1>4, FollowingError
<1>5. ASSUME NEW c \in calls, ProjectsLoaded(c) PROVE Following'
  BY <1>5, FollowingProjects
<1>6. ASSUME NEW c \in calls, OverviewLoaded(c) \/ DetailLoaded(c) \/ Enqueued(c)
      PROVE  Following'
  BY <1>6, FollowingOthers
<1>. QED
  BY <1>1, <1>2, <1>3, <1>4, <1>5, <1>6 DEF Next, Serves

\* Once no overview is on its way, the one on the screen is that of the selected project,
\* unless loads of overviews overlapped or one failed; the answers to everything else may
\* come in any order (control-plane/public/app.js).
THEOREM TheScreenFollows == Spec => []ScreenFollowsSelection
<1>1. Init => Following
  BY DEF Init, Following, Call
<1>2. Spec => []Following
  BY <1>1, FollowingStep, ControlledAlways, PTL DEF Spec
<1>3. Following => ScreenFollowsSelection
  BY DEF Following, ScreenFollowsSelection
<1>. QED
  BY <1>2, <1>3, PTL

=============================================================================
