# Verification of maestro-cli

maestro-cli runs a plan, a directed acyclic graph of tasks (shell commands and
calls of AI engines), in a pool of worker threads.  This directory models the
parts of it whose correctness depends on order, failure and concurrency, and
the pure stages in between whose result the rest takes for granted.

`tlc -config MCScheduler.cfg MCScheduler.tla` checks a run, `tlapm
SchedulerProofs.tla` the proofs of a module.  PROJECT.json lists every run, the lines
of the source each definition models, the hazards, findings and theorems.
Paths below are relative to `src/maestro_cli/`.

## The system

| Part | State it keeps | Operations | What is hard | What makes it correct |
|---|---|---|---|---|
| Scheduler (`scheduler.py`, `run_plan`) | pending, ready, running, results, completed; fail_fast, budget and breaker accounts | dispatch, cache hit, approval, policy, submit, collect, handle dependents, cancel, interrupt, finish | worker threads finish in any order; cancel and Ctrl+C arrive anywhere; three different reasons to stop | every task decided once, in dependency order, within the limits, or accounted for |
| Task runner (`runners.py`, `execute_task`) | attempt, engine, model, worktree, failure history, processes in `_active_procs` | build, run, verify, guard, assert, judge, retry, fall back, escalate, merge, clean up | a timeout against a late exit; a retry of what was half done; cleanup on every path | at most max_retries + 1 attempts; a failed check never ends as success; the worktree is removed |
| Judge (`runners.py`) | verdict of the last judged attempt | direct, G-Eval, debate, reflection, quorum, aggregate | five ways in which a model may fail to answer | silence lets nothing pass |
| Context (`runners.py`, `scheduler.py`, `context_fusion`) | summaries in the results, a process-wide breaker | assemble, filter, rank, cut, compact | five modes, four budgets, and consumers that share one result | what a task is told fits its budget |
| Council (`council.py`) | rounds and responses | convene, ask, consolidate | failed calls, seats with the same key | every voice heard once per round, and only where the topology allows it |
| Worktrees (`worktree.py`) | branches, directories, merge ledger, `_merge_lock` | create, merge, cleanup, reset ledger | concurrent merges into one base branch; a process that died | a merge brings its own task's work and nothing else |
| Cache (`cache.py`) | one entry per task hash, with time of storage | hash, lookup, store, negative TTL, clear | concurrent runs; an upstream that was cached | a hit is a result of the same task on the same inputs |
| Event log (`eventsource.py`) | events.jsonl with a hash chain | emit, continue, verify, replay | threads, truncation | replay tells what the results say; tampering is seen |
| Resume (`scheduler.py`, `_load_prior_results`) | run_manifest.json | load, pre-populate | what a skip was caused by is in its message | successes survive, starved tasks are tried again |
| Watch loop (`watch.py`) | iteration, best metric, plateau, spend; experiments.jsonl, stepping stones, commits | iterate, measure, keep or roll back, stop, resume | rollback after a failed iteration, resumed state, death between commit and row, its own files under git | the branch keeps the best content; a resume knows the best metric; always ends |
| Replan (`replan.py`, `mcts.py`) | attempts, plan versions, the tree of variants | diagnose, rewrite, gate, rerun | a chain of rewrites, each judged against the last | no plan runs that was not approved and gated; it ends |
| Score history (`knowledge.py`, `mcts.py`) | score records beside each plan, simulation cache | record, prune, deduplicate, backpropagate | candidates live in directories of their own | a run is counted once |
| Multi-plan and ledger (`multi.py`, `budget.py`) | results per plan, remaining budget, budget_ledger.jsonl | run in order or at once, check, record | check and record are far apart | overshoot bounded by the runs under way, here and in other processes |
| Memory (`memory.py`, `knowledge.py`) | SQLite rows, retrieval counts, JSONL | load, tell, count, quarantine, store, migrate | several processes, reads outside the transaction | an insight a run quarantined is told in full no more |
| Session memory (`memory.py`, `watch.py`) | snapshots, lessons | extract, prune, tell | a plan that renames itself, quarantined snapshots, lists of five and cut texts | the agent is told of every iteration that the lists leave room for |
| Loader (`loader.py`, `models.py`) | none | parse, import, expand matrices, resolve, validate, find cycles | eight stages, each trusting the one before; self-reference | accepted plans are acyclic, closed and runnable; no edge is lost |
| Command line (`cli.py`) | run directories | run, select, resume, check, cleanup | several terminals on one directory; files that vanish | what was asked for runs; a success was had |
| Web server (`web/`) | run registry, cancel events, approval queues | start, end, delete, approve, stream | background threads against requests; ids chosen by clients | a result, an approval and a stream reach who asked |
| Routing (`routing.py`, `hardware.py`) | the manifests of earlier runs | score a task, look up its history, choose a model | five rules and two caps over records that overlap | history moves a task by one tier at most; a local model is one that is there |
| Contracts, blame, policy | none | pure functions over plan and results | | contracts with the loader, policies a free choice, blame not modelled |
| Dynamic groups (`dynamic.py`) | nested plan | validate, run | a task's output adds tasks | not modelled beyond the runner's step |
| Reports, audit, estimates, indexes, TUI, chat, MCP | none | read and print | | not modelled |

The command line calls `run_plan`; it submits `execute_task` to a
`ThreadPoolExecutor` and waits for the first future.  A group or dynamic task
calls `run_plan` again inside its worker.  Watch, replan and several plans call
`run_plan` in a loop.  The web server calls it in a thread and talks to it
through `cancel_event`, `approval_handler` and the event callback.  Before a
task is submitted the scheduler assembles its context, convenes its council and
looks in the memory and the cache; when a run ends it writes the manifest, the
ledger, the score record and what it learned.

## Modules

| Module | Models |
|---|---|
| `PlanRun` | what a run promises: the abstract specification |
| `Scheduler` | `run_plan`, one action per step of the main thread and of the workers |
| `RunReplay` | `replay_run_state` over the events the scheduler writes |
| `ResumedRuns` | runs of one plan connected by `--resume` |
| `SchedulerProofs` | theorems of `Scheduler`, `RunReplay` and `ResumedRuns` |
| `TaskAttempts` | what a worker promises the scheduler: bounded launches, one answer |
| `TaskRunner` | `execute_task`: one task in a worker, from the gate to its result |
| `TaskRunnerProofs` | theorems of `TaskRunner` |
| `ProcessStream` | `_stream_process`: the threads and processes of one attempt after another |
| `Judging` | the judge of an output: methods, quorum, criteria, verdict |
| `TaskContext` | what a task is told of its upstreams |
| `Council` | the council that deliberates for a task |
| `TaskPartsProofs` | theorems of `ProcessStream`, `Judging`, `Council` and `TaskContext` |
| `Worktrees` | git worktrees of concurrent tasks, merges, crashes, the next run |
| `TaskCache` | the result cache under concurrent processes |
| `EventChain` | the hash chain of events.jsonl |
| `WebRuns`, `AgUiRuns` | the web server's runs; the AG-UI endpoint's streams and approvals |
| `SharedStateProofs` | theorems of `EventChain`, `TaskCache`, `Worktrees`, `WebRuns` and `AgUiRuns` |
| `Memory`, `SessionMemory`, `ScoreHistory` | the database: insights, snapshots of a watch, scores of plans |
| `Routing` | `model: auto` over several runs of a plan |
| `MemoryProofs` | theorems of `Memory`, `SessionMemory`, `ScoreHistory` and `Routing` |
| `WatchLoop`, `Replan`, `MultiPlan` | the drivers that call `run_plan` again and again |
| `CommandLine` | `maestro run`, `check`, `cleanup` from several terminals |
| `CommandProofs` | theorems of `CommandLine`, `WatchLoop`, `Replan` and `MultiPlan` |
| `PlanFields`, `PlanRules`, `PlanLoader` | the parsers of single fields; the rules of `validate_plan`; `load_plan` itself |
| `LoaderProofs` | theorems of `PlanLoader` |
| `MCScheduler`, `MCResumedRuns` | instances of `Scheduler` and of `ResumedRuns` |
| `MCTaskRunner`, `MCTaskParts` | families of tasks; the runner and its parts, one of them chosen |
| `MCPlanLoader`, `MCCommands` | plan files; what a user may call, one command chosen |
| `MCSharedState` | what threads, processes and later runs share, one part chosen |
| `MCDivergences` | the instance of `forgotten_task` |
| `DataLemmas` | lemmas about sequences, sums over finite sets, recursive functions and fixpoints |

`Scheduler` sees a worker as one step, `WorkerFinish`.  `TaskRunner` opens that
step; `ProcessStream` opens its steps `BeginAttempt` and `ProcessEnds`, `Judging`
the answer of its judge, `Worktrees` its merge.  `TaskContext` and `Council` open
the scheduler's `AbandonedSubmit` and `Submit`, `TaskCache` its cache hit.  What
each level assumes of the one below is a property checked there: `WorkerAnswers`
gives the fairness of `WorkerFinish`, `StreamReturns` that of `ProcessEnds`,
`AcceptedIsRunnable` the assumptions on plans.

### Scheduler

The plan, with its command-line options, is a record chosen in `Init` from the
constant `Plans`; `Task` is the set of selected tasks and `plan.deps` is already
cut down to it, as `deps_map` is.  `pending`, `ready`, `running`, `results`
(`status` and `reason`) are the sets and dicts of the same names.  `completed` is
not a variable: the code adds to it exactly where it adds to `results`.
`pc` says where the main thread is:

| pc | code |
|---|---|
| `init` | the loop that fills `ready` before the pool is made |
| `loop` | top of `while pending or running`, where `cancel_event` is read |
| `dispatch` | the inner `while ready and ...` |
| `visit` | inside `_handle_dependents`; `back` is where it returns to |
| `wait`, `collect` | `wait(FIRST_COMPLETED)` and the loop over what it returned |
| `drain`, `join` | the skips after the loop; leaving the `with` block |
| `interrupted`, `summary` | the `KeyboardInterrupt` handler and after |
| `crashing` | an exception leaves the `with` block |
| `done`, `aborted` | `run_plan` has returned, or raised |

`_handle_dependents` and the initial loop run in plan order (`plan.rank`), one
task per step, because a task they skip changes what they decide about the next.
A `when` expression is `{{ dep.status }} op value`; the `exit_code` form is the
same comparison over another field.  `_apply_completion_state` is the operator
`ApplyCompletion`, conjoined to the actions that call it and missing from those
that do not (denied approval, blocking policy).  A worker is one step: it turns a
submitted task into one of `Outcomes`.  What an approval, a trajectory guard, the
cache or the operator of a paused breaker answers is a free choice.
`AbandonedSubmit` stands for everything between the pop and the running dict: the
cache lookup, the approval prompt, the 700 lines that build the context of a taken
task.  They change nothing the scheduler decides by, but they may raise.

Ctrl+C between two actions is `Interrupt`.  Within an action it is `CutShort`, one
disjunct for each step that decides tasks (a skip in the walk of the dependents, a
cache hit, a collection, a cancel, the skips of a stopped run): what the code does
one statement after another, taking the task out of its set, storing its result,
writing its event, may stop after each.  The result is then decided and the log
still says running.  `spent` counts what is stored; the flags stay as they were,
since nothing reads them after a cut.  A cut after the event is the action and then
`Interrupt`.  An exception in the same places (a log that cannot be written) leaves
`run_plan`.  Not modelled: a second Ctrl+C while the first is handled, the kill of
the process, Ctrl+C between `pool.submit` and the running dict (a task in hand and
lost, as in `AbandonedSubmit`), and between a hash and its write to the log.

Messages are kept only as `reason`, because `_load_prior_results` decides by
them.  The order in which several pending tasks are skipped at once is not kept:
the events of different tasks are in separate sequences.

### PlanRun and the refinement

`PlanRun` knows only, for every task, whether it waits, runs, is decided or lost,
and whether the run is open.  `Scheduler` maps `place` to the set a task is in and
`open` to `pc`, and `RunSpec` says that every scheduler step is then a step of
`PlanRun` or a stutter: a start after the dependencies are decided, a decision,
a loss that closes the run, a closing that may skip what waits.  A decision may be
the last step of a run, a closing may be broken off (`SkipSome`), and then a task
that waited may be lost (`LoseWaiting`).

### RunReplay and ResumedRuns

`RunReplay` follows the events of each task as `replay_run_state` does, as a
recursive function over the log.  The log may lag behind by one event
(`Unlogged`), only once the run is broken.  `ResumedRuns` adds the step `Resume`:
`_load_prior_results` over the manifest of the run that ended, and the next run
from the beginning as `Init` has it, with the results it takes over.

### TaskRunner

The task is a record `task` chosen in `Init` from the constant `Specs`, with the
options of the plan file that decide the control flow.  The other variables are
the locals of `execute_task` with the same names (`attempt`, `iterations` for
`total_iterations`, `engine` for `active_engine`, `model` for `current_model`,
`feedback` for `verify_feedback`, `history` for `failure_history`) and the
effects others see: `launches`, `tracked`, `worktree`, `work`, `published`, `handoff`.
`passed`, the checks that the last launch passed, is bookkeeping for the
properties; the code has only the position in the sequence of checks.

| pc | code |
|---|---|
| `gate` | delegation to group and batch, the deliberation gate |
| `create`, `build` | the worktree; the command, dry run, workdir, clean check, pre_command |
| `attempt`, `run`, `check`, `failed` | top of `for attempt in range(max_attempts)`, the process, the checks in order, the except and failure branches |
| `report`, `merge`, `validate`, `decompose`, `finish` | after the loop: handoff and grants, worktree, contract and schema, dynamic plan, phantom workspace |
| `chunk`, `running`, `combine` | `_execute_batch_task` |
| `done`, `raised` | a result is returned, or an exception reaches the scheduler |

A judge is one of the checks; what it answers and how git, the engine and the
nested plan end is the environment's choice.  `worktree = "removed"` after
`cleanup_worktree`: git's own failure to remove it is swallowed by the code and
not modelled.  `TaskAttempts` is what remains for the scheduler: `AttemptsSpec`
says that every worker is a `TaskAttempts` with `limit` the smaller of
`max_retries + 1` and `max_iterations`.

### ProcessStream

The main thread of `_stream_process` (`main`), a reader thread per attempt, the
process of each attempt, and a child that has inherited its pipe.  Time is
discrete and counts from the beginning of the attempt; a thread does what it can
before the clock moves (`Tick`), which is
how `timeout_sec` and the joins of 5 and 10 seconds compare with a thread's
step.  `signal_handler` is a variable of `execute_task` that the reader's
callback reads when it is called, so the handler is the one of `current`, the attempt in hand, and not
the reader's own.  `written`, `forked`, `stray` are history for the
properties.  The stderr reader is the same without signals; the limit of signals
in a second and the signals that only emit events are left out.  The model is
POSIX, where `_kill_process_tree` kills the process alone.

### Judging

`_run_judge` and its methods.  A call of a model ends with a verdict, with a
text that does not parse, with a nonzero exit or with a timeout, and each
method makes something else of it.  Scores are whole quarters (`Scale = 4`), so
means are compared by multiplication.  `Judging` also keeps the attempts of a
task that the judge saw, for the comparison with the last one judged.

### TaskContext

Texts are sequences of sections with a length, whether they match the prompt,
and who wrote them; tokens are small numbers.  Stages run in the order of the
code: `assemble` (visible upstreams, the intent filter, hop distance and fusion
of rankings), `fit` (budgets, eviction by relevance), `compact` (the five modes,
and the stages of progressive compaction one after another), `dispatch`.  What a
summarizing model answers is open, and it may fail.  Two tasks in a row share
the results and the process-wide breaker.  The loops that fill a budget are written
in closed form: what is left for a section is the budget less the sizes before it
(`Cut`, `Fitting`, `Room`), and what an upstream has to give up is what the whole is
over, less what those before it in the order had (`Excess`).

### Council

The loader's conditions, whether `run_plan` convenes the council at all, then one
call after another in a star, a chain or a graph, and the consolidation.  A
response is known by who gave it and when; `result.rounds` is the dict keyed as in
the code, where two seats of the same role and model share a key.

### Worktrees, TaskCache, EventChain

`Worktrees` has one task per thread with the steps of `create_worktree`, the
agent's commits, `merge_worktree` under `_merge_lock` with its preview and its
ledger, and `cleanup_worktree`; the process may die anywhere and the plan be run
again.  Two naming functions are tried: one where two task ids map to the same
branch.  `TaskCache` has processes that hash, look up, run and store; the hash of a task contains
that of its upstreams as `_compute_task_hash` does.  The runner reads a `prompt_file`
again after the hash was computed, so an entry has the version that was hashed and
the one that was run, and an edit may lie between them.  `EventChain` separates
computing a record from writing it, so that the lock matters.

### WebRuns and AgUiRuns

Handlers run on the event loop one at a time; a thread per run.  `start_run`
blocks the loop for two seconds and then takes the directory modified last for
the run's own.  In `AgUiRuns` the thread's callbacks reach the loop later than
they were scheduled, the queue is bounded and drops silently, and two streams may
carry the same run id.

### Memory, SessionMemory, ScoreHistory

`Memory`: runs as processes on one SQLite file.  A first SELECT is outside the
transaction that the first write opens, which is where another process gets in
between.  Two things of it reach a prompt: `{{ task_knowledge }}` (`retold`), chosen
anew for each task, and `{{ knowledge_index }}` (`index`), one line for each of the
most useful insights, made once when the run loads its knowledge.  An alert takes an
insight out of the first and not out of the second.

`SessionMemory`: the improve agent's prompt has the table of the last ten rows
(number, metric, action), what was excerpted of the last three iterations, the last
trusted snapshot under the plan's name and the lessons.  An iteration may leave no
excerpt.  A snapshot lists the newest five successes and failures, and is cut:
the end of the failures goes, the successes come first and fit.  Lessons are taken by
confidence, which decays, so after a long pause (`era`) a new failure comes before an
old success.  Git is taken to leave the watch's directory alone here; `WatchLoop` has
what happens where it does not.

`ScoreHistory`:
directories with score records; a search writes each candidate into a directory
of its own, and the simulation cache and the pruning look where the code makes
them look.  `Replan` has the same search with its gates and failures and without the
evidence; each leaves out what the other one has, since they meet only in which
candidate is run, which is open in both.

### Routing

A run scores each `model: auto` task by its features, its strategy, its history and
that of similar tasks, in hundredths, and leaves a manifest with a status per task.
Manifests older than `_HISTORY_MAX_MANIFESTS` are never read again, so only the
latest are kept and the number of runs is not bounded.  Left out are the rounding of
floats, the soft failures, which count as runs and nothing else, and
`upstream_failure_rate`, which is always 0: a task with a failed dependency is never
started.  How the hardware is detected is not modelled, only which tiers it can run.

### PlanFields, PlanRules, PlanLoader

A raw YAML value is one of fifteen `Kinds`, enough to tell every parser's
branches apart.  `PlanFields` gives for every `_to_*` parser and every check of
the task loop the code it would raise; a parser is a sequence of codes because
only the first one is seen.  `PlanRules` does the same for `validate_plan`, rule
by rule in order.  `PlanLoader` is the machine: imports and the depth-first
search are stacks of frames (no recursion is needed), matrices are expanded,
dependencies, contracts and consistency groups resolved, then the rules, the
search, the rules after the search.  A task's id is a record (prefix of its
imports, name, matrix cell), not a string.

### CommandLine, WatchLoop, Replan, MultiPlan

`CommandLine`: terminals that run command lines; a call is parse, gates,
selection, tainted tasks, prior results, the run, manifest, exit code, with a
`cleanup` of another terminal in between.  What tasks do is open.  `WatchLoop`
has both loops with the repository (the commits of the branch and the working tree),
experiments.jsonl and the archive; it may be interrupted or die at every step
and be resumed.  `git add -A` stages all of the workdir, so unless git ignores
`.maestro-runs` and `.maestro-cache`, as `docs/SECURITY.md:134` advises, a commit
holds the watch's own files, a `reset --hard` puts them back to what was committed
(or deletes those only staged), and a `revert` undoes them with the rest; the watch
block says which case it is (`ignored`).  The tasks of a measured run may edit the
working tree, or edit in worktrees whose merges are commits of the branch
themselves (`RunTasks`).  Not modelled: the logs of other runs in a tracked
directory, beyond that there is then always something to commit, and a
`rev-parse` that fails after a commit.  `Replan` has both loops; its variables are the plans so far with
their findings, and which plan the model is shown.  `MultiPlan` runs plans in
order or at once, sharing a cap, while runs of other processes check the same
ledger, run and record in it (`OtherStart`, `OtherEnd`), across midnight.  All of
them are taken to have the same period and limit.  What records without a check is
outside: a plan with a `budget_period` and no `max_cost_usd`, and the improve
agent's cost that the watch loop records (`watch.py:1040`).

## Runs

| Run | Checks | Bounds |
|---|---|---|
| `scheduler` | accounting, order, skips, stops, overshoot, the replayed log, the refinement | 3 tasks, 88 plans in six families, costs 0 and 1 |
| `resumed_runs` | successes kept, starved tasks done, every run ends and dispatches what is ready (liveness) | 3 tasks, 2 runs |
| `task_parts` | runner: success earned, published after checks, order of models, the refinement, an answer always given; stream: attempts apart, timeout kept, it returns; judge, context, council: one or two each | 856 tasks in four families; see below |
| `commands` | loader: accepted is runnable, the search exact, edges kept; run: selection and manifests; watch, replan, several plans: gates, budgets, resume, and that they end (liveness) | 3032 plan files; 2 terminals, 2 runs; see below |
| `shared_state` | chain verdicts, hits current, merges accounted, web results and streams, quarantine, evidence, iterations told, models chosen | see below |
| seven violation runs | one statement each that the code does not keep | |

Three tasks are enough for what the properties of the scheduler compare: a chain with a middle
task, a join, a fork, two tasks in flight with a third waiting, two exclusive
tasks with one more behind them, and a task below a skipped one.  Each family
turns on one part of the scheduler (graphs and fail_fast; conditions; approval,
policy, cache and guard; budget and breaker; the exclusive slot; resumed
results), since the parts meet only in `ready`, `pending` and the accounts.  A
limit of 0 or 1 with costs of 0 and 1 reaches both sides of every comparison.
Nothing else is bounded: a run of three tasks is finite.

`task_parts`.  The families of tasks turn on the attempts (models, chains that start at
the task's model or do not hold it, fallback, retries against max_iterations),
the checks (every subset with every way a judge may fail), the stages around the
attempts, and groups and batches.  Four attempts let a chain of three models, a
fallback in the middle and a cap of two all happen.  Two attempts are what
`ProcessStream` needs for one to meddle with the next; two lines, so that one may
be read in time and one late; one signal in an attempt; the clock of an attempt
is far past the last moment at which the call may still run.  A judge sees three
attempts, quorums have three votes.  A context has three upstreams of up to three
sections and two tasks in a row.  A council has three seats and up to two rounds
of discussion (three requested).

`commands`.  Imports nest one deep (`ImportMaxDepth = 1` for 10), which reaches
the refusal, a diamond, a file that imports itself, and a fragment and its own
import under one prefix with tasks of one name.  Plans have up to three
tasks and two matrix dimensions of two values, of the task or of the import's overrides.  Two terminals, two run
directories, three plan files whose names do not end in one another (the case
where they do is listed below).  Watch: seven watch blocks, with the watch's own
files ignored by git and not, metrics 1 and 2, one stepping stone, two edits
(`MaxEdits`) after the user's, two processes.  Replan: two or three attempts, one or two
variants.  Several plans: three, one run of
another process at a time, days 0 to 2, a week of 2 days.

`shared_state`.  Two threads and four events; two processes, two versions of a
prompt, a TTL of one tick; two tasks that may share a branch, two files, two
runs; two web runs; two streams on one id with a queue of two; two runs of two
tasks on three earlier insights, of which an index lists two.  Thresholds are scaled down with the instance:
dominance at 2 retrievals instead of 5, pruning at 2 of the last 3 runs instead
of 5 of 20, an index of 2 insights, a snapshot from iteration 3 with a tail of 2
instead of 8 and 3, a table of 2 rows instead of 10, one success and one failure
listed instead of five each, two snapshots kept instead of 5 and two lessons instead
of 20, over five iterations, so that every limit is passed on both sides: an
iteration leaves the table, is crowded out of a snapshot and loses its snapshot.
Routing: four plans of two tasks (Claude and Ollama, three strategies, two sets of
installed models, tags and structure of every kind); history from 2 manifests
instead of 3, the latest 3 instead of 20, 2 runs of a model instead of 3, full
confidence at 3 runs instead of 5, a trend over two windows of 1 instead of 3.

The properties by name; each is stated in words above its definition.

| Property | Module | What would break it |
|---|---|---|
| `EveryTaskAccountedFor`, `DependenciesFirst`, `SkipsJustified` | Scheduler | a task lost, run too early, or skipped without a cause |
| `OvershootBounded`, `StoppedForGood` | Scheduler | work started after a budget, a failure or the breaker stopped the run |
| `RunSpec` | Scheduler | a step that is no step of `PlanRun` |
| `ReplayFaithful` | RunReplay | a log that tells another story than the results, or lags by more than the step Ctrl+C cut short |
| `AchievementsSurvive`, `ResumeCompletes`, `RunsProgress` | ResumedRuns, Scheduler | a success run again or lost, a task starved for ever |
| `SuccessEarned`, `PublishedIsChecked` | TaskRunner | success or a merge from an attempt that failed a check |
| `LaunchOrder`, `AttemptsSpec`, `WorkerAnswers` | TaskRunner | models out of order, attempts without limit, a worker that never answers |
| `AttemptsApart`, `TimeoutKept`, `StreamReturns` | ProcessStream | an earlier attempt touching a later one, a kill too early, a hang |
| `VerdictGrounded` | Judging | a pass that no answer of a judge supports |
| `CutToFit` | TaskContext | a context over its budget, or the wrong upstream cut |
| `VoicesHeard` | Council | a seat that hears too little, too much or twice |
| `AcceptedIsRunnable`, `SearchIsExact`, `EdgesKept` | PlanLoader | a plan accepted that cannot run, a cycle missed, a dependency dropped |
| `PreludeExact`, `SuccessWasRun`, `ResumeFaithful`, `BestCommitKept` | CommandLine, WatchLoop | a wrong selection, a success nobody had, a watch that resumes with another best metric, or whose branch loses its best content or keeps what it rejected |
| `GeneratedPlansGated`, `OvershootBounded`, `DriverEnds` | Replan, MultiPlan, MCCommands | a generated plan past its gates, a cap overrun further than runs under way, in any process, allow, a driver that goes on for ever |
| `VerdictExact`, `HitIsCurrent`, `MergesAccounted` | EventChain, TaskCache, Worktrees | a broken or blind chain, a stale hit, a merge that brings another's work |
| `ResultWhereAsked`, `StreamTellsTrue` | WebRuns, AgUiRuns | a result under no name, a grant nobody gave, events lost or out of order |
| `QuarantineKept`, `IterationsTold`, `EvidenceCountedOnce`, `HistoryMovesOneTier` | Memory, SessionMemory, ScoreHistory, Routing | an insight told in full after its alert, an iteration forgotten that there was room for, a run counted twice, history overruling the task |

The violation runs: `SuccessMeansAllDecided`, `NothingLost`,
`FailedSummaryFallsThrough`, `ActiveRunKept`, `TakenOverWasRun`, `CouncilConvened`
and `FailingPlansSkipped`; see "What the code does not keep".

Deadlock checking is off where a run really stops.

## Fairness

`WF(MainStep)`: the main thread is an ordinary thread and keeps taking its next
step.  `WF(WorkerFinish(t))`: a submitted command ends, because every engine and
command task has a timeout (`timeout_sec`, default 1800 s) after which its process
is killed.  No fairness is assumed of cancel, Ctrl+C or an exception in the
context of a task.

`WF(Step)` of a worker in `TaskRunner`: what it waits for has a timeout of its own
(the process, the checks and the judge), or is `run_plan` again.  In
`ProcessStream` the main thread, the readers and the clock keep going; no process
need ever write, end or close its pipe.

`WF` of `WatchStep`, `ReplanNext` and `MultiStep`: each is the single thread of
its command, and the `run_plan` it waits for ends.  The step of replan that asks for
approval is one of them: the user is taken to answer the prompt, which has no
timeout (`--auto-approve` does without).  Nobody need interrupt, resume or start
anything.

## Proofs

Eight modules hold proofs; a theorem holds for every value of the constants that
satisfies the named assumptions, which TLC evaluates on every run.

| Module | What is proved |
|---|---|
| `SchedulerProofs` | every safety invariant of a run, and the refinement of `PlanRun`; the replayed log; successes kept and starved tasks taken up through any number of resumed runs |
| `TaskRunnerProofs` | every safety invariant of a worker, the order of its models, and the refinement of `TaskAttempts` |
| `TaskPartsProofs` | attempts apart, no kill before its time, a pass rests on an answer, who hears whom in a council, contexts cut to fit |
| `SharedStateProofs` | the hash chain's verdicts, current cache hits, mutual exclusion and contents of merges; where a web run's result is found; what a stream and a grant mean |
| `MemoryProofs` | evidence on a plan counted once, which iterations are told, quarantines kept, a route moved by one tier |
| `CommandProofs` | selection and taint, successes in manifests, gates of generated plans, budgets, a watch's resume and its best commit |
| `LoaderProofs` | an accepted plan can be run; the search for cycles is exact; no dependency is lost between the files and the plan |
| `DataLemmas` | what the others need of the data: induction over finite sets, functions defined by recursion below a number, rounds that grow to a fixpoint, sequences, sums |

### The scheduler

`SchedulerProofs`: for every set of tasks and plans that satisfies the
assumptions of `Scheduler` (finite `Task`, distinct ranks, costs up to `MaxCost`).

- `TypeCorrect`, by induction on its own.
- `Accounted`, `DecidedForGood`, `OrderKept`, `SkipsHaveCauses`: the inductive
  invariant says where a task may be.  `pending`, `running` and the decided tasks
  are disjoint, but for tasks a cancel had decided when it was cut short; `ready` holds distinct pending tasks whose dependencies are decided and
  that are eligible; a decided task stays decided with the same status, so
  eligibility, once true, remains true.
- `FailFastHolds`, `BreakerHolds`, and `StopsHold` from both: the accounts agree with the results.  If a
  failure was executed or cached, `stop` is set; `failures` is at least the number of
  counted failures while `stop` is `none`, which a set's cardinality growing by
  at most one per collected result preserves.
- `PoolHolds`, `OvershootHolds`: while a task is dispatched the budget is not
  exceeded, so what is spent and what is running add up to at most the limit and
  one dearest task per worker.
- `Implements`: initial states map to initial states and every action to a step of
  `PlanRun`, from the invariants above.
- A step that Ctrl+C cuts short (`CutShort`) is split once, in `CutCases`, into one in
  hand, one that collects, one that cancels and one that skips; every step hands
  tasks over in one of a few ways (`Handover`), and the proofs above go by these.

`LogReplays`: `LogTrue` says how a task's events end: not begun
while it waits, with its start while it runs, with its status once it is decided,
unless an approval, a policy or a guard decided it or its event is the one that hangs
(at most one, and none while the run is intact); one event more is one step of
the recursive function that replays.  `AchievementsKept` and `ResumeTakesUp` rest on
`SessionInv`: what the manifests recorded stands, what was starved is taken up, a
skip has the cause its reason names, and in a run left alone what still waits at
the end waits behind a skip by condition.  `ResumableAssumption`: the plans are
closed under the results a manifest may leave.

### The task runner and its parts

`TaskRunnerProofs`: for every set of models and every set of tasks that satisfies
`SpecsAssumption` (`None` is no model's name).

- `RunnerTypeCorrect`, by induction on its own.
- `IInv`, a conjunction of parts that are each kept by every action: which kinds
  of task may be where (`KindsApart`); attempts, iterations and launches grow
  together (`LaunchesCounted`: at the top of the loop `iterations = attempt`, in an
  attempt one more); what is known of the status along the way (`StatusKnown`);
  `Earned`, `PublishedLate`, `Cleaned`, `HistoryInOrder`, `HandoffKnown`.  The
  properties are not inductive because they speak of the end, or of what was
  published, and the steps between depend on the status and on `passed` agreeing
  from the report on.
- `EveryResultEarned`, `OnlyCheckedPublished`, `HandoffHolds`, `AttemptsCleaned`
  follow from `IInv`.
- `LaunchesInOrder`: `OrderInv` adds to the property where the next launch stands,
  on the last one's rung or above it, and that a fallback has one model.
- `AttemptsImplemented`: a step of a worker is quiet, a launch, its end, or the
  answer (`StepMoves`), and `LaunchesCounted` bounds the launches.

`TaskPartsProofs`.  `AttemptsStayApart`, `TimeoutsKept`: `StreamInv` says for each
attempt which states of its process, reader and child go together (`Traces`), that
between the pipe and the tail nothing is lost while nobody but the process holds it
(`Lossless`), and that the deadline is the timeout and the extensions granted so far
(`DeadlineGranted`).  `VerdictsAreGrounded`: `JudgeInv` says that as long as no number was
heard every criterion's score is zero and every score of the whole at most a half
(`Unanswered`), that a tally has a vote in it, and that what the next attempt is
compared with is the one judged last, which failed; sums of zeros are zero and means of halves
stay below the threshold.  `VoicesAreHeard`: `CouncilInv` says how many calls are on record in
which seat and round, that under each key of a round stands the response of its last
namesake so far (`Keyed`), and that each call on record was told what it may hear;
`CouncilAssumption` says that participants are a list.

`ContextsAreCutToFit`: `ContextInv` adds to `CutToFit` that outputs and the tasks to
come are what `ContextAssumption` says (finite `Upstream`, outputs that are texts,
natural budgets, sources among the upstreams), that tails about to be fitted are as
they were assembled, and that what compaction has left, if it stopped before its last
stage, keeps to the budget: `CutToFit` speaks of the dispatch and says nothing of the
summaries made on the way.  That a step keeps the budget is a fact about sums.  A cut
is as long as its share at most (`SharesFit`); proportional shares sum to the budget
at most (`SharesInProportion`); an eviction goes through the order and takes from each
all it has or all that is still over, so that what stays is what there was less what
it was over, and whoever lost a part is the last to lose any (`EvictionFits`,
`Evicted`); a layered text stops at the section that has no room for its header
(`SectionsFit`).  The upgrades before that need no bound of their own: the last pass
cuts whatever they have made.

### What threads, processes and runs share

`SharedStateProofs`.  `ChainVerdictExact`: `ChainInv` says that the file is linked and
its hashes apart, and that the state of the chain is that of its end or of the one
record on its way to it, under the lock.  `HitsCurrent`: `CacheInv` says that every
entry, on disk or in the hands of a process, is filed under the hash of the version
it was made with, or was made with another one than was hashed; it needs the hypothesis `UpstreamCached`, that the upstream of a
cached task is cached itself: the hash of an upstream that is not is the empty
string, and then a stale hit is possible.  `TasksApart`, `MergesAreAccounted`: `TreeInv`
says who holds the lock and whose a branch is, that the ledger names every file
this run has merged, and that a preview under way has seen the overlap.
`ResultsWhereAsked`, from `WebInv`: an entry of the registry belongs to
the run that was answered its id; a run that `start_run` has not answered yet has
none, although its result may stand in the entry of its directory's name already.
`StreamsTellTrue`, from `ApprovalInv` and `PipeInv`: a request or a verdict that says
yes goes with a client that was told yes, and each status of a task not shown yet is
scheduled or queued, in order, or was refused by a full queue.

`MemoryProofs`.  `EvidenceIsCountedOnce`: `ScoreInv` says that each directory has one
row per run, that the visits of the search tree add up, which a sum over a node's
children keeps when one lineage grows by one, that the tree has room for every
candidate left, and that every plan this search has run is in it while a variant that
only has a score is none of those (`RunOnce`).
`IterationsAreTold`: `SessionInv` says that of all rows ever stored under a name the
newest `MaxSnapshots` are there, that every row's iterations have left the tail, and
that a row tells each iteration up to its last but those crowded out or cut off.
`HistoryMovesLittle`: the clamps of both signals bound the score's
move, whatever the sums are, by less than the width of the middle tier.
`QuarantinesAreKept`: `MemoryInv` says that every row has a label, that nothing a run
knows or was told in full has raised one of its alerts, that its index lists what it
knows or has raised an alert for, and that a run that has not loaded yet has
raised none; an insight put back right after its own SELECT keeps the label, so a
batch keeps every label but the one of the row that its first SELECT had read.

`CommandProofs`.  `RunsArePrepared`: the selection and the taint are rounds that grow
to a fixpoint, which `GrowsToFixpoint` shows reached within as many rounds as there are
tasks.  `SuccessesWereRun`: `CommandInv` says that what a run was resumed from is
part of what it is from, and that what it took over was had there.  `PlansGated`:
`ReplanInv` says that every plan that could be chosen next was let pass, and that the
firewall of the user's plan is in force from the first load on.
`BudgetsOvershootLittle`: `MultiInv` bounds what a period has spent together with what
the runs under way, here and in other processes, may still cost, and keeps the shared
cap equal to what was not charged, with sums over finite sets.
`WatchesResume`, `BestCommitsKept`: `WatchInv` says at each place of an iteration
what HEAD, the working tree, the rows and the counters are to each other, since
metric, row, commit and counter are written one after another; of the counters only
where git leaves experiments.jsonl alone (`LeftAlone`), and of the branch that it has
the last improvement and beyond it only merges and orphans (`Has`).

### The loader

`LoaderProofs`: for every set of plan files that satisfies `FilesAssumption` (where
the loader walks a list there is one, a block has its fields, a path names a
file; everything else may be of any kind), every limit on imports and every way to
sanitize a value.  `LoaderInv` has four parts.  `FramesInv`: the stack of imports,
each frame below the entry it has reached.  `StageInv`: files and tasks keep their
shape through imports, overrides, matrices and resolution, and what a stage has
passed holds of the list it leaves: after the rules, that names are unique and that
references and counts are right; the switched-off cache of a dynamic group changes
none of it.  `SearchInv`: the path of the search is a path of the graph, what it has
left behind reaches no circle, every step from a node on the path but the last
goes to a node seen.  `VerdictInv`: what an
acceptance or a refusal for a cycle has found.  The properties speak of the verdict
only, eight stages after the files were read, so each stage's part is needed.
`CyclesAreRefused` and `AcceptedPlansRun` follow.

`DependenciesAreKept` needs a second invariant, `EdgesInv`, which follows a
dependency from its file to the plan.  While imports are read, `Collected` says that the
list holds the tasks of every entry that no call is still before (`Past`), each as its
import makes it (`Brought`), and nothing else; it holds because a file is entered once
only (a second time is refused) and `Chained` says who called whom.  After the imports,
`Gathered`: each task of each file is in the list under its name, with its matrix and
its dependencies, and each of the list comes from a file.  The expansion turns this
into `EdgesIn`: the children of a matrix are its combinations, by induction over the
dimensions, and a name stands for all of them.  Contracts, groups and the rules then
only add to what a task waits for.

### What the attempts to prove showed

Four properties, as first stated, were false beyond the small instances; each is
restated as the code has it and its instance widened to hold the case.

- `PreludeExact`: with `--only` and `--tags` a run has tasks that only a task
  filtered out by its tag needs.
- `SuccessWasRun`: `--resume` may be given the directory of another plan's run.
- `ResumeCompletes`: below a task that its own condition skips, others remain
  without a result.
- `LaunchOrder`: a chain that names a model twice goes round;
  `_next_escalation_model` finds the first of the two and the loader only warns
  of it (W14, `loader.py:3385`).

A fifth, `AcceptedIsRunnable`, said that a task with a worktree has an engine.  The
rule (E046, `loader.py`) looks at the truth of `group` and `command`: a command that
is there but empty, or an empty group, is let pass without one.  The same proof
told apart the fields that pass through `str()`, where `0` and `[]` are texts,
from those that do not (`NoText`, `NoEntries`, `Falsy`).

A sixth, `EdgesKept`, forgot that an import may override a matrix, so that a task
has children which its file does not declare, and that two files may have one prefix
(a nested import takes only its own, which may be its importer's).  There a name
stands for the children of the last matrix that bears it, and a dependency on a task
of that name in the other file leads to them; `Shadowed` is that case.

`Tick` of `ProcessStream` was defined by ENABLED; it names now what each thread
waits for (`MainReady`, `ReaderReady`).  `ScoreHistory`, `SessionMemory` and `Routing`
sorted rows by filtering sequences, of which the provers know nothing; their rows are
sets now, ordered by the run, iteration or manifest they come from, with the same
runs and verdicts.  `Judging` mixed what a model is asked, rubrics and checks in one
sequence of criteria, which are counted, weighed and checked apart in
`_run_judge_evaluation`; a judge has a field of each now, and weighted scores are
sums.  A batch in `Memory` was a fold with an operator; it is a function of its
insights now (`PutAll`).  `TaskContext` was folds over folds; its cuts, shares and
evictions are sums and functions now, with the same 381,461 states.

### Only model-checked

Of the properties that a run checks, the liveness properties under fairness, which
are out of the prover's reach; every safety invariant is proved.
`DecidedForGood`, `FailFastHolds`, `BreakerHolds`, `PoolHolds`, `HandoffHolds`,
`AttemptsCleaned`, `TasksApart` and the two type invariants are proved and no longer run.

## What the code does not keep

Seven runs end in a counterexample; PROJECT.json quotes each statement.

1. `forgotten_task`: below a task that its condition skips, the next tasks
   are neither run nor skipped, and the run is a success.
2. `unmerged_work`: a task succeeds, nothing of its worktree is merged, and the
   worktree is removed.
3. `failed_summary`: the notice of a failed summarization takes the place of the
   upstream's text.
4. `active_deleted`: the directory of a run that goes on can be deleted through
   another id, or through "unknown".
5. `dry_run_resumed`: a run that resumes a dry run takes its tasks over as done.
6. `council_convened`: a council without `context_from` never meets.
7. `failing_plans`: a search simulates a plan whose runs in the project have all
   failed, because it asks the candidate's own, empty directory.

Facts met while modelling that have no run of their own:

- Scheduler.  A run cut short by its budget exits with 0; a breaker tripped by
  soft failures does not fail the run; a task failed by a policy does not stop a
  fail_fast run; a cancel between two reads of the event leaves tasks without a
  result; a resumed run does not run what the budget left out; a task whose
  approval was denied is still running in the replayed log.
- Runner.  An engine that is not installed is retried, not replaced by the
  fallback engine; the early returns before the first attempt leave the worktree
  in place; a fallback without `fallback_model` passes the first engine's model
  name to the second; extensions of a timeout add up without the limit the comment
  names, and the limit of signals is per attempt; `_estimate_workspace_timeout`
  lowers a timeout above 3600.  A group's and a batch's early failures ignore
  `allow_failure`; a batch ignores `max_retries`, `verify_command`, judge,
  worktree and cache, and succeeds although an item got no answer.
- Judge and context.  A unanimous quorum ignores votes that ended in an error and
  never yields "warn"; debate and reflection ignore the exit code, and their
  default score is 0.5; the titles of the selective mode have no budget; a
  summary is cached as its first consumer saw it, the text of a failed call
  too; the breaker of the summarization never closes.
- Council.  Participants with the same key overwrite each other; the text of a
  failed call counts as a response and, at the end, as the synthesis; the calls are
  not counted against the run's budget; `consensus_threshold` is not used.
- Loader.  matrix with batch or with dynamic_group is accepted, because the
  expansion drops both before the rules see them; children of a matrix lose the
  worktree, `allowed_tools`, `mcp_tools`, population, council and half a dozen
  other fields; two matrix tasks with one id are accepted; a diamond of imports is
  reported as circular; a task of a nested import has only its own prefix; `when`,
  `consumes_contracts` and `reconcile_after` are not prefixed in fragments, and a
  `when` reference with "/" or "." is never checked; bare `int()` and `float()`
  raise without a code; a group that names its own plan recurses without bound.
- Ctrl+C.  Between the result of a task and its event it leaves a log in which the
  task is running for ever, while the manifest has its result; in the middle of a
  cancel it skips the same tasks a second time, with another message.
- Memory.  An insight that a run has raised an alert for stays in its
  `{{ knowledge_index }}`, which is made once.  A store that read a row before it was quarantined puts its label back;
  two runs may lose an occurrence or store a row twice; a run that loaded before a
  quarantine by another goes on telling the insight; below 11 live rows nothing
  is ever dominant; the fallback to JSONL splits the store.  Five quarantined
  snapshots in a row evict the last trusted one; a renamed plan loses its
  snapshots until the next extraction.
- Session memory.  A snapshot lists the last five successes and failures before the
  tail and the table has ten rows, so in a long watch an early iteration is told
  nowhere, unless a lesson or a blocker names it; with 4 to 7 iterations of the older
  ones the table has number, metric and action only; lessons are by confidence, so
  after a few weeks' pause new failures come before old improvements.
- Scores.  An interrupted run with only skips is recorded as a success and a
  resumed run as a run; a hit in the simulation cache gives a variant the cached
  plan's hash.
- Watch.  Where git does not ignore the run directory, `git add -A` commits
  experiments.jsonl and a later rollback takes back the rows written since: a resume
  has the best metric and not the plateau, nor the cost.  A regression whose tasks
  merged worktrees stays in the branch after the rollback.  `max_total_steps` is exceeded by the last run's steps and starts anew on
  resume; compaction of the stepping stones keeps the highest metrics whichever way
  the metric goes; `on_regression: revert` can undo a good commit; the baseline
  iteration of improve may become a lesson; `watch` exits with 0 for
  max_iterations and plateau.
- Cache and merges.  The hash of an upstream without one is the empty string, so a hit
  below it may be stale (`cache.py:509`); a nested run empties the merge ledger of its
  parent, so a later overlap is not reported (`scheduler.py:1804`); a prompt file edited
  between its hash and its use is stored under the old hash.  `HitIsCurrent` and
  `MergesAccounted` exclude these cases, no property covers them.
- Command line.  The latest run is found by the suffix of its directory's name,
  so a plan "b" finds a run of "a_b"; `--skip` with tags lets a skipped task
  back in if a tagged one needs it; `cleanup` counts and deletes `.cache`; refused
  runs leave an empty directory; several plans ignore `--resume` and `--only`.
- Web.  An error before the first event is lost; a late approval is told True
  though the task was denied; a denied task stays "running" in a run that
  finished with success; a full queue can refuse the sentinel; streams that
  share an id overwrite each other's approvals.
- Routing.  The strategies work against their comments and `docs/PLAN_GUIDE.md:225`:
  `cost_optimized` adds to the score, which chooses stronger models, and
  `quality_first` takes from it (`routing.py:54-62`, `191-196`).  A success is
  recorded for the model chosen at the start, whichever model of the escalation
  chain or the fallback had it (`runners.py:8359`).  `recent_outcomes` is ordered
  oldest first, not newest first as its comment says, and the trend relies on that;
  the recency decay is never applied; `_compute_task_depth` shares its visited set
  between branches and may count a task with shared ancestors too short.
- Without effect: the restoration after a compaction (`runners.py:1136`), the
  population search, `compile_policy` beyond parsing, and the compaction,
  invalidation and point-in-time queries of the memory, which nothing calls.

## Not modelled

Each component that PROJECT.json calls `not_modelled` or `partly` has its reason
there.  In short: blame and policies are pure functions that read a plan and its
results; dynamic groups end in `run_plan` again; audit, reports, estimates, the
code indexes, the TUI, the chat shell and the MCP server read and print; the population search has no caller.  Inside the modelled parts
wording, layout and file formats are left out, as are weights of plan scores and
priors, metrics by command or by regular expression, consolidated lessons, and
the shared dict that `_budget_getter` reads from worker threads.

## Plan

Done: the scheduler, the runner and its parts, the drivers, the command line, the
shared files, the web server, the scores, snapshots, the routing, the loader and the
contexts, each with its proofs.  What is left, in this order:

1. Composition of `Worktrees` with `TaskRunner`: a merge that answers as the
   locked merge does, not freely.
2. Contracts, blame and policies as operators against a reference definition.
3. The MCP server's session of a running plan.
