---------------------------- MODULE MCTaskRunner ----------------------------
(***************************************************************************)
(* Instances of TaskRunner for TLC: families of tasks that each turn on    *)
(* one part of execute_task.                                               *)
(***************************************************************************)
EXTENDS TaskRunner

MCModel == {"haiku", "sonnet", "opus"}

Plain ==
  [kind |-> "plain", engine |-> TRUE, model |-> "none", escalation |-> <<>>,
   fallback |-> FALSE, fallbackModel |-> "none", maxRetries |-> 0, maxIterations |-> 0,
   allowFailure |-> FALSE, checks |-> {}, onFail |-> "retry", deliberation |-> FALSE,
   worktree |-> FALSE, prepared |-> FALSE, grants |-> "off", schema |-> FALSE,
   dynamic |-> FALSE, phantom |-> FALSE, chunks |-> 0, dryRun |-> FALSE]

\* Attempts, models and engines: chains that start at the task's model, at
\* none, that do not hold it, or that hold it twice.
AttemptTasks ==
  {[Plain EXCEPT !.model = m, !.escalation = c, !.fallback = f # "off",
                 !.fallbackModel = IF f = "off" THEN "none" ELSE f,
                 !.maxRetries = r, !.maxIterations = i, !.allowFailure = a] :
     m \in {"none", "haiku"}, c \in {<<>>, <<"haiku", "sonnet", "opus">>, <<"sonnet">>, <<"haiku", "sonnet", "haiku">>},
     f \in {"off", "none", "opus"}, r \in {0, 2, 3}, i \in {0, 2}, a \in BOOLEAN}

\* Every set of checks, with each way a judge may fail.
CheckTasks ==
  {[Plain EXCEPT !.engine = e, !.checks = c, !.onFail = o, !.maxRetries = 1,
                 !.allowFailure = a, !.phantom = TRUE] :
     e \in BOOLEAN, c \in SUBSET Check, o \in {"fail", "warn", "retry"}, a \in BOOLEAN}

\* What comes before and after the attempts.
StageTasks ==
  {[Plain EXCEPT !.worktree = w, !.grants = g, !.schema = s, !.dynamic = s /\ d,
                 !.phantom = TRUE, !.allowFailure = a, !.deliberation = d,
                 !.prepared = p, !.dryRun = dry, !.checks = {"verify"}] :
     w, s, d, a, p, dry \in BOOLEAN, g \in {"off", "warn", "fail"}}

OtherTasks ==
  {[Plain EXCEPT !.kind = k, !.chunks = n, !.checks = c, !.allowFailure = a, !.dryRun = dry] :
     k \in {"group", "batch"}, n \in 0 .. 3, c \in {{}, {"guard"}}, a, dry \in BOOLEAN}

MCSpecs == AttemptTasks \cup CheckTasks \cup StageTasks \cup OtherTasks

WorktreeTasks == {[Plain EXCEPT !.worktree = TRUE]}
=============================================================================
