----------------------------- MODULE TaskRunner -----------------------------
(***************************************************************************)
(* One task in a worker thread: execute_task in runners.py, with the group *)
(* and batch tasks it delegates to.                                        *)
(*                                                                         *)
(* The task, as the plan file gives it, is chosen in Init and never        *)
(* changes.  The environment answers everything that runs outside: the     *)
(* engine or command, the checks, git, the nested plan.                    *)
(***************************************************************************)
EXTENDS Naturals, Sequences, FiniteSets

CONSTANTS
  Model,    \* names of models
  Specs     \* the tasks to run

None == "none"    \* no model named; no result yet

\* The checks of an attempt in the order they are made.
CheckOrder == <<"verify", "guard", "assert", "honeypot", "judge">>
Check == {CheckOrder[i] : i \in DOMAIN CheckOrder}

TaskSpec ==
  [kind          : {"plain", "group", "batch"},
   engine        : BOOLEAN,               \* an engine task, not a shell command
   model         : Model \cup {None},
   escalation    : Seq(Model),
   fallback      : BOOLEAN,               \* fallback_engine is given
   fallbackModel : Model \cup {None},
   maxRetries    : Nat,
   maxIterations : Nat,                   \* 0: not given
   allowFailure  : BOOLEAN,
   checks        : SUBSET Check,
   onFail        : {"fail", "warn", "retry"},    \* of the judge
   deliberation  : BOOLEAN,
   worktree      : BOOLEAN,
   prepared      : BOOLEAN,               \* requires_clean_worktree or pre_command
   grants        : {"off", "warn", "fail"},
   schema        : BOOLEAN,               \* output_schema
   dynamic       : BOOLEAN,               \* dynamic_group
   phantom       : BOOLEAN,               \* phantom_workspace
   chunks        : Nat,                   \* of a batch
   dryRun        : BOOLEAN]

ASSUME SpecsAssumption ==
  /\ None \notin Model
  /\ Specs \subseteq TaskSpec
  /\ \A s \in Specs : /\ s.dynamic => s.schema
                      /\ s.escalation # <<>> \/ s.fallback \/ s.worktree => s.engine
                      /\ s.fallbackModel # None => s.fallback

Command == [engine : {"own", "fallback"}, model : Model \cup {None}]
Artifact == {"commits", "edits"}

VARIABLES
  task,          \* the task
  pc,            \* where the worker is
  attempt,       \* of range(max_attempts), and the chunk of a batch
  iterations,    \* total_iterations
  status,        \* status of the attempt, then of the result
  failure,       \* how the attempt failed
  engine,        \* active_engine: the task's own, or its fallback
  model,         \* current_model
  command,       \* the command as last built
  feedback,      \* verify_feedback is not empty
  history,       \* failure_history: the attempts it has a record of
  launches,      \* what was launched, in order
  passed,        \* checks the last launch has passed
  tracked,       \* the process is in _active_procs
  worktree,      \* the directory and branch of the task
  work,          \* what the engine left in the worktree
  published,     \* what reached the workspace
  handoff        \* the result has a handoff report

loop == <<attempt, iterations, failure, engine, model, command, feedback, history>>
vars == <<task, pc, loop, status, launches, passed, tracked, worktree, work,
          published, handoff>>

SuccessLike == {"success", "soft_failed"}

MaxAttempts == 1 + task.maxRetries
MaxIterations == IF task.maxIterations = 0 THEN MaxAttempts ELSE task.maxIterations
LastAttempt == attempt + 1 = MaxAttempts

\* What a failure that allow_failure forgives is called.
Forgiven == IF task.allowFailure THEN "soft_failed" ELSE "failed"

Goto(where) == pc' = where
Finish(st) == status' = st /\ Goto("done")

Init ==
  /\ task \in Specs
  /\ pc = "gate" /\ attempt = 0 /\ iterations = 0
  /\ status = None /\ failure = None
  /\ engine = "own" /\ model = task.model
  /\ command = [engine |-> "own", model |-> task.model]
  /\ feedback = FALSE /\ history = <<>> /\ launches = <<>> /\ passed = {}
  /\ tracked = FALSE /\ worktree = "none" /\ work = {} /\ published = {}
  /\ handoff = FALSE

-----------------------------------------------------------------------------
(* Before the first attempt *)

\* A group task is its nested plan, which may not load or may fail.
RunGroup(ok) ==
  /\ pc = "gate" /\ task.kind = "group"
  /\ \/ ok = "unloaded" /\ Finish("failed")
     \/ ok # "unloaded" /\ task.dryRun /\ Finish("dry_run")
     \/ ok # "unloaded" /\ ~task.dryRun /\ Finish(IF ok = "success" THEN "success" ELSE Forgiven)
  /\ UNCHANGED <<task, loop, launches, passed, tracked, worktree, work, published, handoff>>

BeginBatch ==
  /\ pc = "gate" /\ task.kind = "batch"
  /\ \/ task.chunks = 0 /\ Finish("success")
     \/ task.chunks > 0 /\ task.dryRun /\ Finish("dry_run")
     \/ task.chunks > 0 /\ ~task.dryRun /\ Goto("chunk") /\ UNCHANGED status
  /\ UNCHANGED <<task, loop, launches, passed, tracked, worktree, work, published, handoff>>

ChunkUnbuilt ==
  /\ pc = "chunk" /\ Finish("failed")
  /\ UNCHANGED <<task, loop, launches, passed, tracked, worktree, work, published, handoff>>

\* subprocess.run, which _active_procs does not know of.
LaunchChunk ==
  /\ pc = "chunk" /\ Goto("running")
  /\ launches' = Append(launches, command)
  /\ UNCHANGED <<task, loop, status, passed, tracked, worktree, work, published, handoff>>

\* The first chunk that fails is the last.
ChunkEnds(ok) ==
  /\ pc = "running"
  /\ attempt' = attempt + 1
  /\ status' = IF ok THEN "success" ELSE "failed"
  /\ Goto(IF ok /\ attempt' < task.chunks THEN "chunk" ELSE "combine")
  /\ UNCHANGED <<task, iterations, failure, engine, model, command, feedback, history,
                 launches, passed, tracked, worktree, work, published, handoff>>

\* The guard sees the output of all chunks.
CombineChunks(ok) ==
  /\ pc = "combine"
  /\ LET guarded == status = "success" /\ "guard" \in task.checks
     IN  /\ passed' = IF guarded /\ ok THEN passed \cup {"guard"} ELSE passed
         /\ Finish(IF status = "success" /\ (guarded => ok) THEN "success" ELSE Forgiven)
  /\ UNCHANGED <<task, loop, launches, tracked, worktree, work, published, handoff>>

\* The deliberation gate may find that no engine is needed.
PassGate(ok) ==
  /\ pc = "gate" /\ task.kind = "plain"
  /\ ~ok => task.deliberation /\ task.engine /\ ~task.dryRun
  /\ IF ok THEN Goto("create") /\ UNCHANGED status ELSE Finish("skipped")
  /\ UNCHANGED <<task, loop, launches, passed, tracked, worktree, work, published, handoff>>

CreateWorktree(ok) ==
  /\ pc = "create"
  /\ ~ok => task.worktree
  /\ worktree' = IF task.worktree /\ ok THEN "open" ELSE worktree
  /\ IF ok THEN Goto("build") /\ UNCHANGED status ELSE Finish("failed")
  /\ UNCHANGED <<task, loop, launches, passed, tracked, work, published, handoff>>

BeforeFirst(where, st) ==
  /\ pc = "build" /\ Goto(where) /\ status' = st
  /\ UNCHANGED <<task, loop, launches, passed, tracked, worktree, work, published, handoff>>

\* build_command raises; or, with a command to run, the working directory
\* does not exist or is not clean, or the pre_command fails.
BuildFails == BeforeFirst("done", "failed")
DryRun     == task.dryRun /\ BeforeFirst("done", "dry_run")
Unfit      == ~task.dryRun /\ BeforeFirst("done", "failed")

\* A pre_command that cannot be started, or a missing git, is an exception
\* that nothing in execute_task catches.
PreparationRaises == ~task.dryRun /\ task.prepared /\ BeforeFirst("raised", status)

StartAttempts == ~task.dryRun /\ BeforeFirst("attempt", "failed")

-----------------------------------------------------------------------------
(* An attempt *)

\* What build_command makes of an engine and a model: without a model of its
\* own the command has the task's.
Built(e, m) == [engine |-> e, model |-> IF m = None THEN task.model ELSE m]

CapReachedLate == iterations > MaxIterations   \* mutant: off by one

CapReached == iterations + 1 > MaxIterations

TooManyLate ==   \* mutant: the cap is reached and nothing is done about it
  /\ pc = "attempt" /\ iterations > MaxIterations
  /\ status' = "failed"
  /\ Goto("report")
  /\ UNCHANGED <<task, loop, launches, passed, tracked, worktree, work, published, handoff>>

TooManyIterations ==
  /\ pc = "attempt" /\ CapReached
  /\ iterations' = iterations + 1
  /\ status' = "failed"
  /\ Goto("report")
  /\ UNCHANGED <<task, attempt, failure, engine, model, command, feedback, history,
                 launches, passed, tracked, worktree, work, published, handoff>>

\* Rebuild the command if there is feedback to put in, keeping the old one
\* when that fails; then launch it, which may raise.
BeginAttempt(rebuilt, started) ==
  /\ pc = "attempt" /\ ~CapReached
  /\ iterations' = iterations + 1
  /\ LET rebuild == attempt > 0 /\ task.engine /\ feedback
     IN  /\ ~rebuilt => rebuild
         /\ command' = IF rebuild /\ rebuilt THEN Built(engine, model) ELSE command
  /\ passed' = {}
  /\ IF started
       THEN /\ launches' = Append(launches, command')
            /\ tracked' = TRUE /\ failure' = None
            /\ Goto("run") /\ UNCHANGED status
       ELSE /\ status' = "failed" /\ failure' = "missing"
            /\ Goto("failed") /\ UNCHANGED <<launches, tracked>>
  /\ UNCHANGED <<task, attempt, engine, model, feedback, history, worktree, work,
                 published, handoff>>

\* The process ends by itself or is killed at its deadline.  "engine": its
\* exit code or its output tells of a failure of the engine itself; Claude's
\* exit code 3 with a good result is "ok".
ProcessEnds(how) ==
  /\ pc = "run"
  /\ tracked' = FALSE
  /\ status' = IF how = "ok" THEN "success" ELSE Forgiven
  /\ failure' = IF status' = "failed" THEN how ELSE None
  /\ Goto(IF status' = "failed" THEN "failed" ELSE "check")
  /\ work' \in IF worktree = "open" THEN {work \cup w : w \in SUBSET Artifact} ELSE {work}
  /\ UNCHANGED <<task, attempt, iterations, engine, model, command, feedback, history,
                 launches, passed, worktree, published, handoff>>

\* The first configured check the attempt has not passed.
NextCheck(c) ==
  /\ c \in task.checks \ passed
  /\ \E i \in DOMAIN CheckOrder :
       /\ CheckOrder[i] = c
       /\ \A j \in 1 .. (i - 1) : CheckOrder[j] \notin task.checks \ passed

CheckPasses(c) ==
  /\ pc = "check" /\ NextCheck(c)
  /\ passed' = passed \cup {c}
  /\ UNCHANGED <<task, pc, loop, status, launches, tracked, worktree, work, published, handoff>>

CheckFailsForgiven(c, raises) ==   \* mutant: allow_failure covers the checks
  /\ pc = "check" /\ NextCheck(c)
  /\ c = "judge" /\ ~raises => task.onFail # "warn"
  /\ status' = Forgiven
  /\ failure' = "check"
  /\ Goto(IF status' = "failed" THEN "failed" ELSE "report")
  /\ UNCHANGED <<task, attempt, iterations, engine, model, command, feedback, history,
                 launches, passed, tracked, worktree, work, published, handoff>>

\* allow_failure does not cover checks.  A judge that only warns does not
\* fail; one whose failure is final leaves the loop, unrecorded.
CheckFails(c, raises) ==
  /\ pc = "check" /\ NextCheck(c)
  /\ c = "judge" /\ ~raises => task.onFail # "warn"
  /\ status' = "failed" /\ failure' = "check"
  /\ Goto(IF c = "judge" /\ ~raises /\ task.onFail = "fail" THEN "report" ELSE "failed")
  /\ UNCHANGED <<task, attempt, iterations, engine, model, command, feedback, history,
                 launches, passed, tracked, worktree, work, published, handoff>>

AttemptSucceeds ==
  /\ pc = "check" /\ task.checks \subseteq passed
  /\ Goto("report")
  /\ UNCHANGED <<task, loop, status, launches, passed, tracked, worktree, work, published, handoff>>

\* _next_escalation_model: the model after the current one, if there is one.
NextModel(m) ==
  LET chain == task.escalation
      after == {chain[i + 1] : i \in {j \in 1 .. (Len(chain) - 1) :
                  chain[j] = m /\ \A k \in 1 .. (j - 1) : chain[k] # m}}
  IN  IF m = None THEN {chain[i] : i \in DOMAIN chain \cap {1}} ELSE after

\* Only the task's own command fails as "exit" or "engine".
FallsBack == /\ failure = "engine" /\ ~LastAttempt
             /\ task.fallback /\ engine = "own"

EscalatesAlways ==   \* mutant: the fallback engine climbs the task's chain
  ~LastAttempt /\ NextModel(model) # {}

Escalates == /\ ~LastAttempt /\ engine = "own"
             /\ NextModel(model) # {}

Record == history' = Append(history, attempt + 1)

\* The command for the fallback engine is built outside any try.
FallBack(built) ==
  /\ pc = "failed" /\ FallsBack
  /\ Record
  /\ engine' = "fallback" /\ model' = task.fallbackModel
  /\ IF built
       THEN /\ command' = Built("fallback", task.fallbackModel)
            /\ attempt' = attempt + 1 /\ Goto("attempt")
       ELSE Goto("raised") /\ UNCHANGED <<command, attempt>>
  /\ UNCHANGED <<task, iterations, failure, feedback, status, launches, passed, tracked,
                 worktree, work, published, handoff>>

\* Otherwise feedback for the next command, perhaps a stronger model, and
\* after the delay the next attempt, if one is left.
Retry ==
  /\ pc = "failed" /\ ~FallsBack
  /\ Record
  /\ feedback' = task.engine
  /\ model' \in IF Escalates THEN NextModel(model) ELSE {model}
  /\ IF LastAttempt THEN Goto("report") /\ UNCHANGED attempt
     ELSE Goto("attempt") /\ attempt' = attempt + 1
  /\ UNCHANGED <<task, iterations, failure, engine, command, status, launches, passed,
                 tracked, worktree, work, published, handoff>>

-----------------------------------------------------------------------------
(* After the last attempt *)

RetriesExhausted == status = "failed" /\ Len(history) >= MaxAttempts

\* The handoff report, and the tool calls against the grants.
Report(violated) ==
  /\ pc = "report"
  /\ violated => task.grants # "off" /\ launches # <<>>
  /\ handoff' = RetriesExhausted
  /\ status' = IF violated /\ task.grants = "fail" /\ status \in SuccessLike
                 THEN "failed" ELSE status
  /\ Goto("merge")
  /\ UNCHANGED <<task, loop, launches, passed, tracked, worktree, work, published>>

\* What git may say of the branch: only what is committed on it can be merged.
MergeAnswers ==
  {"error"} \cup IF "commits" \in work THEN {"merged", "conflict"} ELSE {"empty"}

MergeUnasked(answer) ==   \* mutant: the status is not looked at
  /\ pc = "merge"
  /\ answer \in IF worktree = "open" THEN MergeAnswers ELSE {"none"}
  /\ published' = IF answer = "merged" THEN published \cup {"worktree"} ELSE published
  /\ status' = IF answer = "conflict" THEN "failed" ELSE status
  /\ worktree' = IF worktree = "open" THEN "removed" ELSE worktree
  /\ Goto("validate")
  /\ UNCHANGED <<task, loop, launches, passed, tracked, work, handoff>>

\* Merge the branch of a task that has not failed; remove the worktree, and
\* what is not committed in it, in any case.
MergeWorktree(answer) ==
  /\ pc = "merge"
  /\ answer \in IF worktree = "open" /\ status \in SuccessLike
                  THEN MergeAnswers ELSE {"none"}
  /\ published' = IF answer = "merged" THEN published \cup {"worktree"} ELSE published
  /\ status' = IF answer = "conflict" THEN "failed" ELSE status
  /\ worktree' = IF worktree = "open" THEN "removed" ELSE worktree
  /\ Goto("validate")
  /\ UNCHANGED <<task, loop, launches, passed, tracked, work, handoff>>

\* The schema is validated after the merge.
ValidateOutput(ok) ==
  /\ pc = "validate"
  /\ ~ok => task.schema /\ status \in SuccessLike
  /\ status' = IF ok THEN status ELSE "failed"
  /\ Goto(IF task.dynamic /\ status' = "success" THEN "decompose" ELSE "finish")
  /\ UNCHANGED <<task, loop, launches, passed, tracked, worktree, work, published, handoff>>

\* The output is a plan; it runs as a nested DAG.
RunDynamic(ok) ==
  /\ pc = "decompose"
  /\ \/ ok = "raises" /\ Goto("raised") /\ UNCHANGED status
     \/ ok = "invalid" /\ Goto("finish") /\ status' = "failed"
     \/ ok = "success" /\ Goto("finish") /\ UNCHANGED status
     \/ ok = "failed" /\ Goto("finish") /\ status' = Forgiven
  /\ UNCHANGED <<task, loop, launches, passed, tracked, worktree, work, published, handoff>>

\* Copy the phantom workspace, if the task has one and has not failed.
CommitPhantom ==
  /\ pc = "finish"
  /\ published' = IF task.phantom /\ status \in SuccessLike
                    THEN published \cup {"phantom"} ELSE published
  /\ Goto("done")
  /\ UNCHANGED <<task, loop, status, launches, passed, tracked, worktree, work, handoff>>

Over == pc \in {"done", "raised"} /\ UNCHANGED vars

Step ==
  \/ \E ok \in {"unloaded", "success", "failed"} : RunGroup(ok)
  \/ BeginBatch
  \/ ChunkUnbuilt \/ LaunchChunk
  \/ \E ok \in BOOLEAN : \/ ChunkEnds(ok) \/ CombineChunks(ok) \/ PassGate(ok)
                         \/ CreateWorktree(ok) \/ FallBack(ok) \/ Report(ok) \/ ValidateOutput(ok)
  \/ BuildFails \/ DryRun \/ Unfit \/ PreparationRaises \/ StartAttempts
  \/ TooManyIterations
  \/ \E rebuilt, started \in BOOLEAN : BeginAttempt(rebuilt, started)
  \/ \E how \in {"ok", "exit", "engine", "timeout"} : ProcessEnds(how)
  \/ \E c \in Check : CheckPasses(c) \/ (\E raises \in BOOLEAN : CheckFails(c, raises))
  \/ AttemptSucceeds \/ Retry
  \/ \E answer \in {"none", "merged", "conflict", "empty", "error"} : MergeWorktree(answer)
  \/ \E ok \in {"invalid", "success", "failed", "raises"} : RunDynamic(ok)
  \/ CommitPhantom

Next == Step \/ Over

Spec == Init /\ [][Next]_vars

\* A worker thread keeps going; what it waits for has a timeout.
FairSpec == Spec /\ WF_vars(Step)

-----------------------------------------------------------------------------
(***************************************************************************)
(* Properties                                                              *)
(***************************************************************************)
Places == {"gate", "chunk", "running", "combine", "create", "build", "attempt", "run",
           "check", "failed", "report", "merge", "validate", "decompose", "finish",
           "done", "raised"}

TypeOK ==
  /\ task \in TaskSpec /\ pc \in Places
  /\ attempt \in Nat /\ iterations \in Nat
  /\ status \in {None, "success", "failed", "soft_failed", "skipped", "dry_run"}
  /\ failure \in {None, "exit", "engine", "timeout", "missing", "check"}
  /\ engine \in {"own", "fallback"} /\ model \in Model \cup {None}
  /\ command \in Command /\ feedback \in BOOLEAN
  /\ history \in Seq(Nat) /\ launches \in Seq(Command)
  /\ passed \subseteq Check /\ tracked \in BOOLEAN
  /\ worktree \in {"none", "open", "removed"} /\ work \subseteq Artifact
  /\ published \subseteq {"worktree", "phantom"} /\ handoff \in BOOLEAN

\* A plain task ends well only if what was launched last passed every check it
\* has, whatever the attempts before it did and whatever allow_failure forgives
\* (runners.py, the checks of the attempt loop).  A batch succeeds only when every
\* chunk has been launched and its guard, the one check a batch runs, has passed;
\* of group and plan tasks nothing is said here.
SuccessEarned ==
  pc = "done" /\ status \in SuccessLike =>
    /\ task.kind = "plain" => launches # <<>> /\ task.checks \subseteq passed
    /\ task.kind = "batch" /\ status = "success" =>
         Len(launches) = task.chunks /\ (task.chunks > 0 => task.checks \cap {"guard"} \subseteq passed)

\* What a task did reaches the workspace only after the attempt that did it
\* passed its checks, and a phantom workspace only with a good result
\* (docs/PLAN_GUIDE.md:1186, "on success (after verify_command passes) or
\* discards them on failure").
PublishedIsChecked ==
  /\ published # {} => task.checks \subseteq passed /\ launches # <<>>
  /\ "phantom" \in published => status \in SuccessLike

\* The commands of the attempts: the task's own engine first, climbing the
\* escalation chain and never back down, then the fallback engine with one
\* model to the end (docs/PLAN_GUIDE.md, Auto-Escalation and Fallback).  A chain
\* that names a model twice goes round: the loader only warns of it (W14,
\* loader.py:3385), and _next_escalation_model finds the first of the two.
ClimbsOnce == \A i, j \in DOMAIN task.escalation :
                task.escalation[i] = task.escalation[j] => i = j
Rung(chain, m) == IF m = None THEN 0
                  ELSE LET at == {i \in DOMAIN chain : chain[i] = m}
                       IN  IF at = {} THEN 0 ELSE CHOOSE i \in at : \A j \in at : i <= j
LaunchOrder ==
  \A i, j \in DOMAIN launches : i < j =>
    \/ /\ launches[i].engine = "own" /\ launches[j].engine = "own"
       /\ ClimbsOnce => Rung(task.escalation, launches[i].model)
                          <= Rung(task.escalation, launches[j].model)
    \/ launches[i].engine = "own" /\ launches[j].engine = "fallback"
    \/ launches[i].engine = "fallback" /\ launches[i] = launches[j]

\* Every attempt that failed has one record, in order, and the handoff
\* report comes exactly when all of them failed; a failed task without one
\* was cut short by max_iterations or a final judge, or failed after an
\* attempt that passed.
HandoffWhenExhausted ==
  /\ pc \in {"attempt", "run", "check", "failed"} => history = [i \in 1 .. attempt |-> i]
  /\ handoff => Len(history) = MaxAttempts /\ status = "failed"
  /\ pc = "done" /\ status = "failed" /\ ~handoff /\ iterations > 0 =>
       \/ iterations > MaxIterations
       \/ "judge" \in task.checks /\ task.onFail = "fail" /\ failure = "check"
       \/ task.checks \subseteq passed /\ failure = None

\* Whatever an attempt ended in, no process is left in _active_procs and
\* no worktree of a task that got as far as an attempt.
CleanAfterAttempts ==
  pc = "done" /\ iterations > 0 => ~tracked /\ worktree # "open"

\* A task launches at most max_retries + 1 commands, at most max_iterations,
\* one after the other, and gives the scheduler one answer for good.
LaunchLimit ==
  IF task.kind = "group" THEN 0
  ELSE IF task.kind = "batch" THEN task.chunks
  ELSE IF MaxIterations < MaxAttempts THEN MaxIterations ELSE MaxAttempts
Abstract == INSTANCE TaskAttempts WITH
  Limits <- Nat,
  Outcome <- {"success", "failed", "soft_failed", "skipped", "dry_run", "raised"},
  NoOutcome <- None,
  limit <- LaunchLimit,
  tries <- Len(launches),
  busy <- pc \in {"run", "running"},
  answer <- IF pc = "done" THEN status ELSE IF pc = "raised" THEN "raised" ELSE None
AttemptsSpec == Abstract!Spec

\* A worker always answers: the fairness the scheduler's liveness assumes of
\* a submitted task.
WorkerAnswers == (pc = "gate") ~> (pc \in {"done", "raised"})

\* docs/PLAN_GUIDE.md:1711, of worktrees: "on success, `git merge --no-ff`
\* back to the base branch"; 1720, of the result "empty": "No changes in
\* worktree (nothing to merge)".  What a task that succeeds left in its
\* worktree is merged before the worktree is removed.
NothingLost ==
  [][pc = "merge" /\ status' \in SuccessLike /\ worktree' = "removed" /\ worktree = "open"
       => work = {} \/ "worktree" \in published']_vars
=============================================================================
