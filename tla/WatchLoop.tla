------------------------------ MODULE WatchLoop ------------------------------
(***************************************************************************)
(* maestro watch: the custom loop (watch) and the improve loop             *)
(* (_watch_improve) of watch.py, with the files that outlive the process:  *)
(* the repository, experiments.jsonl and the archive of stepping stones.   *)
(* The last two are in the repository themselves unless git ignores them.  *)
(* A watch may be interrupted or die at any step and be resumed.           *)
(***************************************************************************)
EXTENDS Integers, FiniteSets, SequencesExt, FiniteSetsExt

CONSTANTS
  Specs,         \* watch blocks tried (set of WatchSpec records)
  MaxMetric,     \* bound: metrics are 1 .. MaxMetric, 0 stands for None
  Results,       \* results of a plan run tried: [metric, cost, steps]
  StoneLimit,    \* _STEPPING_STONES_MAX
  MaxSessions,   \* bound on the number of watch processes
  MaxEdits       \* bound: edits made by agents and runs after the user's

ASSUME WatchBounds == /\ MaxMetric \in Nat \ {0}
                      /\ StoneLimit \in Nat \ {0} /\ MaxSessions \in Nat \ {0} /\ MaxEdits \in Nat
                      /\ Results \subseteq [metric : 0 .. MaxMetric, cost : Nat, steps : Nat]

VARIABLES
  wspec,        \* the watch block (with the plan's stones and frozen flags)
  wpc,          \* next step of the loop
  session,      \* which watch process this is
  \* WatchState, lost with the process
  best, bestIter, plateau, cost, steps, status,
  iterations,   \* its rows
  iter,         \* the iteration at hand: agent and target run so far
  \* what outlives the process
  experiments,  \* rows of experiments.jsonl
  commits,      \* the branch, oldest first, the last one is HEAD
  tree,         \* content of the working tree
  staged,       \* git add -A was not followed by a commit
  archive,      \* stones.jsonl
  \* history
  edits,        \* number of edits made, each edit is a fresh number
  merged,       \* edits that worktrees of a plan run merged
  orphans,      \* edits of watch commits whose row was never written
  lastGood      \* content of the last improvement with a row; none if git refused it

stateVars == <<best, bestIter, plateau, cost, steps>>
gitVars   == <<commits, tree, staged>>
diskVars  == <<experiments, gitVars, archive>>
histVars  == <<edits, merged, orphans, lastGood>>
watchVars == <<wspec, wpc, session, stateVars, status, iterations, iter, diskVars, histVars>>

None == 0
Metrics == None .. MaxMetric

WatchSpec ==
  [mode : {"custom", "improve"}, onRegression : {"rollback", "revert", "keep"},
   direction : {"higher", "lower"}, maxIterations : Nat, plateauThreshold : Nat,
   warmup : Nat, maxCost : Nat, maxSteps : Nat, target : Metrics,
   stones : BOOLEAN, frozen : BOOLEAN,
   ignored : BOOLEAN]   \* git has .maestro-runs and .maestro-cache ignored, or elsewhere

NoIter == [metric |-> None, cost |-> 0, steps |-> 0, edit |-> "none", commit |-> FALSE]
Number == Len(iterations) + 1      \* iteration_number
HEAD == Last(commits)
Baseline == iterations = <<>>

Better(m, n) == IF wspec.direction = "higher" THEN m > n ELSE m < n

IsImprovement(m, b) == m # None /\ (b = None \/ Better(m, b))

TargetReached(m) ==
  m # None /\ wspec.target # None /\ ~ Better(wspec.target, m)

-----------------------------------------------------------------------------
(* Stepping stones: snapshots of an improved plan, lastGood across watches.    *)

\* Compaction keeps the StoneLimit highest metrics, whatever the direction.
CompactStones(stones) ==
  IF Cardinality(stones) <= StoneLimit THEN stones
  ELSE CHOOSE kept \in kSubset(StoneLimit, stones) :
         \A s \in kept, t \in stones \ kept : s.metric >= t.metric

\* An improvement is archived only when there is a commit and a metric.
Archived(m, content, committed) ==
  IF wspec.mode = "improve" /\ wspec.stones /\ committed /\ m # None
    THEN CompactStones(archive \cup {[metric |-> m, content |-> content]})
    ELSE archive

BestStones(stones) == {s \in stones : \A t \in stones : ~ Better(t.metric, s.metric)}

-----------------------------------------------------------------------------
(* git in the working tree.                                                *)

\* A commit has the watch's files when git does not ignore them: <<>> and {} are
\* files it does not have.
Committed ==
  [content |-> tree, by |-> "watch",
   rows |-> IF wspec.ignored THEN <<>> ELSE experiments, stones |-> IF wspec.ignored THEN {} ELSE archive]

\* git add -A, commit: fails when there is nothing to commit or on an error.  The
\* logs of a run are always something to commit.
GitCommit(ok, added) ==
  IF ok /\ (tree # HEAD.content \/ ~ wspec.ignored)
    THEN /\ commits' = Append(commits, Committed)
         /\ iter' = [iter EXCEPT !.commit = TRUE] /\ staged' = FALSE
    ELSE commits' = commits /\ iter' = iter /\ staged' = (staged \/ (added /\ ~ ok))

\* A tracked file is again as committed; one that was only added is deleted; one
\* that git does not know stays.
FileAfterReset(tracked, file, none) ==
  IF wspec.ignored THEN {file}
  ELSE IF tracked # none THEN {tracked}
  ELSE IF staged THEN {file, none} ELSE {file}

ResetTo(commit) ==
  /\ \E untracked \in SUBSET (tree \ commit.content) : tree' = commit.content \cup untracked
  /\ experiments' \in FileAfterReset(commit.rows, experiments, <<>>)
  /\ archive' \in FileAfterReset(commit.stones, archive, {})
  /\ staged' = FALSE

ResetParent ==   \* mutant: reset --hard HEAD~1
  /\ wspec.onRegression = "rollback" /\ Len(commits) > 1
  /\ commits' = Front(commits) /\ ResetTo(Last(commits'))

\* A merge has no single parent to go back to, and what is staged or edited must
\* not be in the way.
Revert ==
  LET before == commits[Len(commits) - 1]
      rowsToo == HEAD.rows # before.rows
      stonesToo == HEAD.stones # before.stones
  IN /\ HEAD.by # "merge" /\ ~ staged /\ Len(commits) > 1
     /\ rowsToo => experiments = HEAD.rows
     /\ stonesToo => archive = HEAD.stones
     /\ commits' = Append(commits, [before EXCEPT !.by = "revert"])
     /\ tree' = (tree \ (HEAD.content \ before.content)) \cup (before.content \ HEAD.content)
     /\ experiments' = IF rowsToo THEN before.rows ELSE experiments
     /\ archive' = IF stonesToo THEN before.stones ELSE archive
     /\ UNCHANGED staged

GitRollback ==
  \/ wspec.onRegression = "keep" /\ UNCHANGED diskVars
  \/ wspec.onRegression = "rollback" /\ ResetTo(HEAD) /\ UNCHANGED commits
  \/ wspec.onRegression = "revert" /\ Revert
  \/ /\ wspec.onRegression = "revert" /\ UNCHANGED diskVars
     /\ HEAD.by = "merge" \/ staged \/ tree # HEAD.content \/ ~ wspec.ignored

-----------------------------------------------------------------------------
(* Start, and the state a resumed watch rebuilds from experiments.jsonl.   *)

Forgotten == [best |-> None, bestIter |-> 0, plateau |-> 0, cost |-> 0]
Remembered(st, row) ==
  [best |-> row.best,
   bestIter |-> IF row.improved THEN row.number ELSE st.bestIter,
   plateau |-> IF row.improved THEN 0 ELSE st.plateau + 1,
   cost |-> st.cost + row.cost]

RebuiltFrom(rows) ==
  LET st[n \in 0 .. Len(rows)] ==
        IF n = 0 THEN Forgotten ELSE Remembered(st[n - 1], rows[n]) IN
  st[Len(rows)]

Rebuilt == RebuiltFrom(experiments)

WatchInit ==
  /\ wspec \in Specs /\ wpc = "start" /\ session = 1
  /\ best = None /\ bestIter = 0 /\ plateau = 0 /\ cost = 0 /\ steps = 0
  /\ status = "max_iterations" /\ iterations = <<>> /\ iter = NoIter
  /\ experiments = <<>> /\ archive = {} /\ edits = 1
  /\ LET User(content) == [content |-> content, by |-> "user", rows |-> <<>>, stones |-> {}]
     IN commits = <<User({}), User({1})>> /\ tree = {1} /\ staged = FALSE
  /\ merged = {} /\ orphans = {} /\ lastGood = {}

\* A stone's plan that validates replaces the plan file, uncommitted; a resumed
\* watch takes none.
PutStone(stone) == tree' = stone.content /\ best' = stone.metric

ApplyStone ==
  /\ wpc = "start" /\ wspec.mode = "improve" /\ wspec.stones
  /\ \E stone \in BestStones(archive) : PutStone(stone)
  /\ wpc' = "top"
  /\ UNCHANGED <<wspec, session, bestIter, plateau, cost, steps, status, iterations, iter,
                 experiments, commits, staged, archive, histVars>>

\* No stone to apply, a stone that does not validate, or a resumed watch.
Begin ==
  /\ wpc \in {"start", "resume"}
  /\ wpc' = "top" /\ iterations' = experiments
  /\ best' = Rebuilt.best /\ bestIter' = Rebuilt.bestIter
  /\ plateau' = Rebuilt.plateau /\ cost' = Rebuilt.cost /\ steps' = 0
  /\ UNCHANGED <<wspec, session, status, iter, diskVars, histVars>>

-----------------------------------------------------------------------------
(* The loop.                                                               *)

StopCause ==
  IF Number > wspec.maxIterations THEN "max_iterations"
  ELSE IF cost >= wspec.maxCost THEN "budget_exceeded"
  ELSE IF plateau >= wspec.plateauThreshold THEN "plateau"
  ELSE IF steps >= wspec.maxSteps THEN "step_limit_reached"
  ELSE "none"

StopWithoutBreak ==   \* mutant: the status is set, the loop goes on
  /\ wpc = "top" /\ StopCause # "none"
  /\ status' = StopCause
  /\ UNCHANGED <<wspec, wpc, session, stateVars, iterations, iter, diskVars, histVars>>

StopLoop ==
  /\ wpc = "top" /\ StopCause # "none"
  /\ status' = StopCause /\ wpc' = "done"
  /\ UNCHANGED <<wspec, session, stateVars, iterations, iter, diskVars, histVars>>

StartIteration ==
  /\ wpc = "top" /\ StopCause = "none"
  /\ iter' = NoIter
  /\ wpc' = IF wspec.mode = "improve" /\ ~ Baseline THEN "agent" ELSE "target"
  /\ UNCHANGED <<wspec, session, stateVars, status, iterations, diskVars, histVars>>

Edit == /\ edits <= MaxEdits /\ edits' = edits + 1 /\ tree' = tree \cup {edits + 1}

\* The improve agent edits the plan: well, into an invalid one, into one whose
\* frozen task differs, or not at all.
ImproveAgent ==
  /\ wpc = "agent"
  /\ \E r \in Results, e \in {"none", "good", "invalid"}
                               \cup (IF wspec.frozen THEN {"frozen"} ELSE {}) :
       /\ iter' = [iter EXCEPT !.cost = r.cost, !.steps = r.steps, !.edit = e]
       /\ IF e = "none" THEN UNCHANGED <<edits, tree>> ELSE Edit
       /\ wpc' = IF e = "invalid" THEN "invalid" ELSE "frozen"
  /\ UNCHANGED <<wspec, session, stateVars, status, iterations, experiments, commits, staged, archive,
                 merged, orphans, lastGood>>

InvalidNoPlateau ==   \* mutant: a plan that does not load is no failure
  /\ wpc = "invalid" /\ GitRollback
  /\ wpc' = "record"
  /\ UNCHANGED <<wspec, session, stateVars, status, iterations, iter, histVars>>

\* The plan does not load: roll back.  The row will have the agent's cost, the
\* state gets neither its cost nor its steps.
Invalid ==
  /\ wpc = "invalid" /\ GitRollback
  /\ plateau' = plateau + 1 /\ UNCHANGED <<best, bestIter, cost, steps>>
  /\ wpc' = "record"
  /\ UNCHANGED <<wspec, session, status, iterations, iter, histVars>>

\* A frozen task that was modified is rolled back, then the target runs anyway.
CheckFrozen ==
  /\ wpc = "frozen" /\ wpc' = "target"
  /\ IF iter.edit = "frozen" THEN GitRollback ELSE UNCHANGED diskVars
  /\ UNCHANGED <<wspec, session, stateVars, status, iterations, iter, histVars>>

\* The tasks of the measured plan edit the working tree, or a worktree that is
\* merged: a commit of its own.
RunTasks ==
  /\ wpc = "target" /\ wpc' = "measure"
  /\ \/ UNCHANGED <<edits, tree, commits, merged>>
     \/ Edit /\ UNCHANGED <<commits, merged>>
     \/ /\ ~ staged /\ Edit /\ merged' = merged \cup {edits'}
        /\ commits' = Append(commits, [HEAD EXCEPT !.content = @ \cup {edits'}, !.by = "merge"])
  /\ UNCHANGED <<wspec, session, stateVars, status, iterations, iter, experiments, staged, archive, orphans, lastGood>>

RunTarget ==
  /\ wpc = "measure" /\ wpc' = "judge"
  /\ \E r \in Results :
       /\ iter' = [iter EXCEPT !.cost = @ + r.cost, !.steps = @ + r.steps, !.metric = r.metric]
       /\ cost' = cost + iter'.cost /\ steps' = steps + iter'.steps
  /\ UNCHANGED <<wspec, session, best, bestIter, plateau, status, iterations, diskVars, histVars>>

Warmup == Number <= wspec.warmup

Improved ==
  \/ Warmup
  \/ IsImprovement(iter.metric, best)
  \/ wspec.mode = "improve" /\ iter.metric # None /\ iter.metric = best

\* An improvement is committed (or not, when git fails) and becomes the best;
\* a stepping stone is saved when there is a commit.
Keep ==
  /\ wpc = "judge" /\ Improved
  /\ \E ok, added \in BOOLEAN : GitCommit(ok, added)
  /\ best' = iter.metric /\ bestIter' = Number /\ plateau' = 0
  /\ archive' = Archived(iter.metric, tree, iter'.commit)
  /\ wpc' = "record"
  /\ UNCHANGED <<wspec, session, cost, steps, status, iterations, tree, experiments, histVars>>

Regress ==
  /\ wpc = "judge" /\ ~ Improved
  /\ GitRollback
  /\ plateau' = plateau + 1 /\ wpc' = "record"
  /\ UNCHANGED <<wspec, session, best, bestIter, cost, steps, status, iterations, iter, histVars>>

Row(m, improved, action) ==
  [number |-> Number, metric |-> m, best |-> best, improved |-> improved, action |-> action, cost |-> iter.cost]

LastMetric == IF Baseline THEN None ELSE Last(iterations).metric

Outcome ==
  IF iter.edit = "invalid" THEN Row(LastMetric, FALSE, "validation_failed")
  ELSE IF plateau # 0 THEN Row(iter.metric, FALSE, wspec.onRegression)
  ELSE Row(iter.metric, TRUE, IF Warmup THEN "warmup_keep" ELSE "keep")

\* The row is appended, to the list and to the file; reaching the target ends the
\* watch.
Record ==
  /\ wpc = "record"
  /\ iterations' = Append(iterations, Outcome) /\ experiments' = Append(experiments, Outcome)
  /\ lastGood' = IF ~ Outcome.improved THEN lastGood ELSE IF iter.commit THEN {tree} ELSE {}
  /\ IF TargetReached(iter.metric)
       THEN wpc' = "done" /\ status' = "target_reached"
       ELSE wpc' = "top" /\ UNCHANGED status
  /\ UNCHANGED <<wspec, session, stateVars, iter, gitVars, archive, edits, merged, orphans>>

-----------------------------------------------------------------------------
(* Ctrl+C, cancel, an exception out of a plan run or the death of the      *)
(* process end the watch; maestro watch --resume takes its directory up,   *)
(* a plain maestro watch starts a new one in the same repository.          *)

Interrupt ==
  /\ wpc \notin {"start", "resume", "done"}
  /\ wpc' = "done" /\ status' = "interrupted"
  /\ orphans' = IF wpc = "record" /\ iter.commit
                  THEN orphans \cup (HEAD.content \ commits[Len(commits) - 1].content) ELSE orphans
  /\ UNCHANGED <<wspec, session, stateVars, iterations, iter, diskVars, edits, merged, lastGood>>

Restart ==
  /\ wpc = "done" /\ session < MaxSessions
  /\ session' = session + 1 /\ status' = "max_iterations"
  /\ iterations' = <<>> /\ iter' = NoIter
  /\ best' = None /\ bestIter' = 0 /\ plateau' = 0 /\ cost' = 0 /\ steps' = 0
  /\ \/ wpc' = "resume" /\ UNCHANGED <<experiments, commits, lastGood>>
     \/ /\ wpc' = "start" /\ experiments' = <<>> /\ lastGood' = {}
        /\ commits' = [n \in DOMAIN commits |-> [commits[n] EXCEPT !.rows = <<>>]]   \* of another file
  /\ UNCHANGED <<wspec, tree, staged, archive, edits, merged, orphans>>

WatchStep == \/ ApplyStone \/ Begin \/ StopLoop \/ StartIteration \/ ImproveAgent
             \/ Invalid \/ CheckFrozen \/ RunTasks \/ RunTarget \/ Keep \/ Regress \/ Record

WatchNext == WatchStep \/ Interrupt \/ Restart

WatchFairness == WF_watchVars(WatchStep)
WatchSpecification == WatchInit /\ [][WatchNext]_watchVars /\ WatchFairness
-----------------------------------------------------------------------------
(* Properties.                                                             *)

WatchTypeOK ==
  /\ wspec \in Specs /\ session \in 1 .. MaxSessions
  /\ wpc \in {"start", "resume", "top", "agent", "invalid", "frozen", "target", "measure", "judge", "record", "done"}
  /\ best \in Metrics /\ bestIter \in Nat /\ plateau \in Nat /\ cost \in Nat /\ steps \in Nat
  /\ tree \subseteq 1 .. edits /\ \A n \in DOMAIN commits : commits[n].content \subseteq 1 .. edits
  /\ merged \cup orphans \subseteq 1 .. edits /\ staged \in BOOLEAN

\* Whenever an iteration is about to start, a resume would rebuild from
\* experiments.jsonl the best metric that the running watch remembers.  Where git
\* leaves the file alone, ignored or with on_regression: keep, it would also
\* rebuild the iteration that made it and the plateau counter, and count at least
\* the cost that the watch counts against its cap (_resume_watch_state); a
\* rollback of a committed file takes back rows, and then it may not.
ResumeFaithful ==
  wpc = "top" /\ ~ Baseline =>
    /\ Rebuilt.best = best
    /\ wspec.ignored \/ wspec.onRegression = "keep" =>
         Rebuilt.bestIter = bestIter /\ Rebuilt.plateau = plateau /\ Rebuilt.cost >= cost

\* With on_regression: rollback the branch ends at the content that was measured
\* as best: a regression or an invalid plan never costs the last good commit
\* (the comment in _git_rollback), and leaves nothing behind in the branch but
\* what worktrees merged, good or not, and commits of iterations that the watch
\* died in before it wrote their row.
BestCommitKept ==
  wspec.onRegression = "rollback" /\ wpc = "top" =>
    \A content \in lastGood : content \subseteq HEAD.content /\ HEAD.content \ content \subseteq merged \cup orphans

\* Every watch ends, whatever the plans return (max_iterations, and the
\* KeyboardInterrupt handler).
WatchEnds == []<>(wpc = "done")

=============================================================================
