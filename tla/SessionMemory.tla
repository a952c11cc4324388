------------------------------ MODULE SessionMemory ------------------------------
(***************************************************************************)
(* What watch's improve agent is told of the iterations before            *)
(* (watch.py, memory.py): a table row for each of the last ones, what was  *)
(* excerpted of the very last, a snapshot of the older ones kept in the    *)
(* database under the plan's name, and the lessons.  A snapshot lists the  *)
(* newest successes and failures and is cut to a length.  The agent may    *)
(* rename the plan; a snapshot that reads like instructions is stored and  *)
(* never told.  WatchLoop has the loop itself.                             *)
(***************************************************************************)
EXTENDS Integers, FiniteSets, SequencesExt

CONSTANTS
  PlanNames,
  TriggerIteration, RecentTail,    \* 8 and 3
  HistoryLimit,                    \* rows of the history table: 10
  ListLimit,                       \* successes, and failures, that a snapshot lists: 5
  MaxSnapshots,                    \* 5 kept
  MaxLessons,                      \* 20
  MaxIterations, MaxCrashes, MaxRenames    \* bounds

ASSUME SessionAssumption ==
  /\ {TriggerIteration, RecentTail, HistoryLimit, ListLimit, MaxSnapshots, MaxLessons} \subseteq Nat \ {0}
  /\ TriggerIteration > RecentTail /\ HistoryLimit >= TriggerIteration - 1 /\ HistoryLimit >= RecentTail

VARIABLES
  at,          \* prompt, outcome (the iteration is in experiments.jsonl), lesson, down
  plan,        \* its name
  iterations,  \* experiments.jsonl: [action (keep, rollback, validation_failed), era]
  excerpted,   \* those of the last RecentTail that left an excerpt
  lessons,     \* lessons.jsonl: iterations
  snapshots,   \* rows: [plan, to, tells, cut, trusted]
  era,         \* grows with a pause after which a new failure outweighs an old success
  stored,      \* history: all rows ever
  crashes, renames
sessionVars == <<at, plan, iterations, excerpted, lessons, snapshots, era, stored, crashes, renames>>

Improved(i) == iterations[i].action = "keep"

-----------------------------------------------------------------------------
(* The database *)

SnapshotsOf(rows, name) == {r \in rows : r.plan = name}

\* ORDER BY iteration_to DESC: no two rows of a plan have the same one.
Newer(rows, r) == {s \in SnapshotsOf(rows, r.plan) : s.to > r.to}
Older(rows, r) == {s \in SnapshotsOf(rows, r.plan) : s.to < r.to}

\* mutant: sorted the other way round
PruneOldestFirst(rows, name) ==
  {r \in rows : r.plan # name \/ Cardinality(Older(rows, r)) < MaxSnapshots}
\* Whatever its label a row counts.
PruneSnapshots(rows, name) ==
  {r \in rows : r.plan # name \/ Cardinality(Newer(rows, r)) < MaxSnapshots}

NoSnapshot == [plan |-> plan, to |-> 0, tells |-> {}, cut |-> FALSE, trusted |-> TRUE]
LatestSnapshot(rows, name) ==
  LET told == {r \in SnapshotsOf(rows, name) : r.trusted}
  IN IF told = {} THEN NoSnapshot ELSE CHOOSE r \in told : \A s \in told : s.to <= r.to

-----------------------------------------------------------------------------
(* What a prompt says *)

LastOnes(k) == {i \in DOMAIN iterations : i > Len(iterations) - k}

\* Rows of the table: number, metric and action.
HistoryRows == LastOnes(HistoryLimit)

\* What was tried; an iteration without any excerpt is left out.
RecentOutputs == LastOnes(RecentTail) \cap excerpted

\* By confidence, 0.9 or 0.5 with a half-life of 30 days.
LoadLessons ==
  LET Before(i, j) == \/ Improved(i) = Improved(j) /\ i > j
                      \/ Improved(i) /\ ~ Improved(j) /\ iterations[i].era >= iterations[j].era
                      \/ ~ Improved(i) /\ Improved(j) /\ iterations[i].era > iterations[j].era
      all == ToSet(lessons)
  IN {j \in all : Cardinality({i \in all : Before(i, j)}) < MaxLessons}

-----------------------------------------------------------------------------
SessionInit ==
  /\ at = "prompt" /\ plan = (CHOOSE name \in PlanNames : TRUE) /\ iterations = <<>> /\ excerpted = {} /\ lessons = <<>>
  /\ snapshots = {} /\ era = 0 /\ stored = {} /\ crashes = 0 /\ renames = 0

\* Its row; excerpts of those that are not among the last any more are never read.
WriteExperiment(action) ==
  /\ iterations' = Append(iterations, [action |-> action, era |-> era])
  /\ LET n == Len(iterations) + 1 IN
     excerpted' \in {{i \in excerpted : i > n - RecentTail} \cup new : new \in SUBSET {n}}

MayRename ==
  \/ plan' = plan /\ UNCHANGED renames
  \/ renames < MaxRenames /\ renames' = renames + 1 /\ plan' \in PlanNames \ {plan}

\* The agent edits the plan, which is run; a regression is rolled back, and the
\* plan is read again.
Iterate ==
  /\ at = "prompt" /\ Len(iterations) < MaxIterations
  /\ \/ WriteExperiment("keep") /\ IF iterations = <<>> THEN UNCHANGED <<plan, renames>> ELSE MayRename
     \/ iterations # <<>> /\ WriteExperiment("rollback") /\ UNCHANGED <<plan, renames>>
  /\ at' = "outcome" /\ UNCHANGED <<lessons, snapshots, era, stored, crashes>>

ValidationFails ==
  /\ at = "prompt" /\ Len(iterations) \in 1 .. MaxIterations - 1
  /\ WriteExperiment("validation_failed") /\ at' = "lesson"
  /\ UNCHANGED <<plan, lessons, snapshots, era, stored, crashes, renames>>

WriteLesson ==
  /\ at = "outcome" /\ lessons' = Append(lessons, Len(iterations)) /\ at' = "lesson"
  /\ UNCHANGED <<plan, iterations, excerpted, snapshots, era, stored, crashes, renames>>

\* The newest of a kind are listed.
Crowded(i, to) == Cardinality({j \in i + 1 .. to : Improved(j) = Improved(i)}) >= ListLimit
Listed(to) == {i \in 1 .. to : ~ Crowded(i, to)}

\* The failures come after the successes, the oldest first, and the end of a long
\* text is cut off: the successes' lines are short and always there.
Told(to, room) ==
  {i \in Listed(to) : Improved(i) \/ Cardinality({j \in Listed(to) : ~ Improved(j) /\ j <= i}) <= room}

\* Blockers, lessons and hints, which may name iterations again, are left out.
BuildSnapshot(trusted, room) ==
  LET to == Len(iterations) - RecentTail
  IN [plan |-> plan, to |-> to, tells |-> Told(to, room), cut |-> Told(to, room) # Listed(to), trusted |-> trusted]

\* Whether the text reads like instructions, and how long it gets, is up to what
\* was excerpted.
ExtractSessionMemory ==
  /\ at = "lesson" /\ at' = "prompt"
  /\ IF \/ Len(iterations) < TriggerIteration
        \/ LatestSnapshot(snapshots, plan).to >= Len(iterations) - RecentTail
       THEN UNCHANGED <<snapshots, stored>>
     ELSE \E trusted \in BOOLEAN, room \in 0 .. ListLimit :
            /\ snapshots' = PruneSnapshots(snapshots \cup {BuildSnapshot(trusted, room)}, plan)
            /\ stored' = stored \cup {BuildSnapshot(trusted, room)}
  /\ UNCHANGED <<plan, iterations, excerpted, lessons, era, crashes, renames>>

WatchDies ==
  /\ at # "down" /\ crashes < MaxCrashes /\ crashes' = crashes + 1 /\ at' = "down"
  /\ UNCHANGED <<plan, iterations, excerpted, lessons, snapshots, era, stored, renames>>

\* The plan as the agent left it, soon or after weeks.
ResumeWatch ==
  /\ at = "down" /\ at' = "prompt" /\ MayRename /\ era' \in {era, era + 1}
  /\ UNCHANGED <<iterations, excerpted, lessons, snapshots, stored, crashes>>

SessionNext == Iterate \/ ValidationFails \/ WriteLesson \/ ExtractSessionMemory \/ WatchDies \/ ResumeWatch
SessionSpec == SessionInit /\ [][SessionNext]_sessionVars

-----------------------------------------------------------------------------
\* What was tried in an iteration is told in one of the last outputs or in the
\* snapshot; where there are too few iterations for a snapshot, or it is one of
\* the last and left no excerpt, the table has its row.  An older one may be told
\* nowhere: when ListLimit newer ones of its kind crowd it out of the snapshot;
\* when it is a failure and the snapshot was cut; when no trusted snapshot of it
\* was ever taken under the plan's name; or when so many quarantined ones came
\* after the last that it was pruned.  And an improvement is in a lesson, unless
\* the watch died before it was written or there are as many as the prompt has
\* room for of newer improvements and of failures a long pause later.
IterationsTold ==
  at = "prompt" =>
    LET n == Len(iterations)
        snapshot == LatestSnapshot(snapshots, plan)
        Covers(r, i) == r.trusted /\ r.to >= i
    IN \A i \in 1 .. n :
         /\ \/ i \in RecentOutputs \cup snapshot.tells
            \/ i \in HistoryRows /\ (n < TriggerIteration \/ (i > n - RecentTail /\ i \notin excerpted))
            \/ i <= snapshot.to /\ (Crowded(i, snapshot.to) \/ (~ Improved(i) /\ snapshot.cut))
            \/ /\ n >= TriggerIteration /\ i <= n - RecentTail
               /\ \A r \in SnapshotsOf(stored, plan) : Covers(r, i) => Cardinality(Newer(stored, r)) >= MaxSnapshots
         /\ Improved(i) /\ i \notin LoadLessons =>
              \/ ~ Contains(lessons, i)
              \/ Cardinality({j \in 1 .. n : (j > i /\ Improved(j)) \/ iterations[j].era > iterations[i].era}) >= MaxLessons
=============================================================================
