------------------------------ MODULE Scheduler ------------------------------
(***************************************************************************)
(* The DAG scheduler of maestro-cli: run_plan in scheduler.py.             *)
(*                                                                         *)
(* One main thread dispatches ready tasks to a thread pool, waits for the  *)
(* first completed future, and applies each result: budget, fail-fast and  *)
(* circuit breaker first, then the dependents of the task.  Worker threads *)
(* only turn a submitted task into an outcome.  The environment may set    *)
(* the cancel event or press Ctrl+C.                                       *)
(*                                                                         *)
(* The plan (and what the command line adds to it) is chosen in Init from  *)
(* the constant Plans and never changes.  Task is the set of selected      *)
(* tasks; plan.deps is already cut down to it, as deps_map is.             *)
(***************************************************************************)
EXTENDS Naturals, Sequences, FiniteSets

CONSTANTS
  Task,        \* the ids of the selected tasks
  Plans,       \* the plans, with their command-line options, to run
  Outcomes,    \* what execute_task may return: [status, cost]
  MaxCost      \* the most one task can cost

Status == {"success", "failed", "soft_failed", "skipped", "dry_run"}
NoStatus == "none"

SuccessLikeStrict == {"success", "dry_run", "skipped"}   \* mutant: soft_failed stops

\* Statuses that do not stop a dependent: a skipped task counts as one.
SuccessLike == {"success", "soft_failed", "dry_run", "skipped"}

\* What execute_task gives back: a status ("skipped" from the deliberation
\* gate), or "raised" when it throws.
WorkerStatus == Status \cup {"raised"}
DryRunStatus == {"dry_run", "failed", "raised"}
NoOutcome == [status |-> NoStatus, cost |-> 0]

\* Why a task has the result it has (the message of its TaskResult).
Reasons == {"none", "resumed", "executed", "cache", "dependency", "condition",
            "denied", "policy", "fail_fast", "breaker", "budget",
            "cancelled", "interrupted"}

EventTypes == {"task_start", "task_complete", "task_skip"}
Event == [type : EventTypes, status : Status \cup {NoStatus}]

\* A when expression "{{ dep.status }} op value"; "none": no expression;
\* "invalid": neither == nor != in it.
WhenExpr == [op : {"none", "==", "!=", "invalid"},
             dep : Task, value : Status]

PlanSpec ==
  [rank        : [Task -> Nat],            \* position in the plan file
   deps        : [Task -> SUBSET Task],
   when        : [Task -> WhenExpr],
   prior       : [Task -> SuccessLike \cup {NoStatus}],   \* --resume
   cacheable   : SUBSET Task,
   approval    : SUBSET Task,              \* requires_approval
   blocked     : SUBSET Task,              \* a "block" policy applies
   exclusive   : SUBSET Task,              \* exclusive MCP worktree slot
   guarded     : SUBSET Task,              \* trajectory_guard, on_violation abort
   maxParallel : Nat \ {0},
   failFast    : BOOLEAN,
   dryRun      : BOOLEAN,
   budgeted    : BOOLEAN,                  \* max_cost_usd is given
   limit       : Nat,
   breaker     : {"off", "fail", "pause"},
   maxFailures : Nat \ {0}]

ASSUME PlansAssumption ==
  /\ Plans \subseteq PlanSpec
  /\ \A p \in Plans : \A t, u \in Task : p.rank[t] = p.rank[u] => t = u
ASSUME TaskAssumption == IsFiniteSet(Task)
ASSUME CostAssumption ==
  /\ MaxCost \in Nat
  /\ Outcomes \subseteq [status : WorkerStatus, cost : 0 .. MaxCost]

VARIABLES
  plan,       \* the plan being run
  pc,         \* where the main thread is
  visit,      \* tasks the current for loop of the main thread has yet to see
  back,       \* where _handle_dependents returns to
  requeued,   \* _mcp_dispatch_blocked
  pending,    \* tasks neither submitted nor decided
  ready,      \* deque of pending tasks that may be dispatched
  running,    \* tasks whose future is in the running dict
  batch,      \* futures the last wait() returned and not yet processed
  outcome,    \* what the worker of a submitted task returned
  status,     \* results[t].status, NoStatus while t has no result
  reason,     \* results[t].message, as one of Reasons
  spent,      \* sum of cost_usd over results
  stop,       \* fail_fast_reason, "none" while fail_fast_trigger is false
  exceeded,   \* budget_exceeded
  failures,   \* circuit_breaker_failure_count
  cancelled,  \* cancel_event is set
  verdict,    \* PlanRunResult.success once the run is over
  events      \* per task, the events written to events.jsonl

main == <<pc, visit, back, requeued, batch, verdict>>
accounts == <<spent, stop, exceeded, failures>>
vars == <<plan, pc, visit, back, requeued, pending, ready, running, batch,
          outcome, status, reason, spent, stop, exceeded, failures,
          cancelled, verdict, events>>

\* The run has not been broken off.
Intact == pc \in {"init", "loop", "dispatch", "visit", "wait", "collect", "drain", "join"}

Completed == {t \in Task : status[t] # NoStatus}
Dependents(t) == {u \in Task : t \in plan.deps[u]}

\* The first task of S in plan order.
IsFirst(t, S) == /\ t \in S
                 /\ \A u \in S : plan.rank[t] <= plan.rank[u]

(***************************************************************************)
(* Conditions                                                              *)
(***************************************************************************)
Conditional(t) == plan.when[t].op # "none"

\* A dep that is not selected leaves its template variable as it stands,
\* which equals no status.
WhenHolds(t) ==
  LET w == plan.when[t]
      left == IF w.dep \in plan.deps[t] THEN status[w.dep] ELSE "unresolved"
  IN  \/ w.op = "==" /\ left = w.value
      \/ w.op = "!=" /\ left # w.value

Eligible(t) ==
  IF Conditional(t) THEN WhenHolds(t)
  ELSE \A d \in plan.deps[t] : status[d] \in SuccessLike

(***************************************************************************)
(* Results                                                                 *)
(***************************************************************************)
Emit(t, type, st) ==
  events' = [events EXCEPT ![t] = Append(@, [type |-> type, status |-> st])]

Decide(t, st, why) ==
  /\ status' = [status EXCEPT ![t] = st]
  /\ reason' = [reason EXCEPT ![t] = why]

\* The tasks of decided get a result, those of told the event that says so.
DecideSome(decided, told, type, st, why) ==
  /\ status' = [t \in Task |-> IF t \in decided THEN st ELSE status[t]]
  /\ reason' = [t \in Task |-> IF t \in decided THEN why ELSE reason[t]]
  /\ events' = [t \in Task |->
                  IF t \in told THEN Append(events[t], [type |-> type, status |-> st])
                                ELSE events[t]]

\* Every task of S gets a skipped result and a task_skip event.
SkipAll(S, why) == DecideSome(S, S, "task_skip", "skipped", why)

Init ==
  /\ plan \in Plans
  /\ pc = "init" /\ visit = Task /\ back = "loop" /\ requeued = 0
  /\ status = plan.prior
  /\ reason = [t \in Task |-> IF plan.prior[t] = NoStatus THEN "none" ELSE "resumed"]
  /\ events = [t \in Task |->
                 IF plan.prior[t] = NoStatus THEN <<>>
                 ELSE <<[type |-> "task_complete", status |-> plan.prior[t]]>>]
  /\ pending = {t \in Task : plan.prior[t] = NoStatus}
  /\ ready = <<>> /\ running = {} /\ batch = {}
  /\ outcome = [t \in Task |-> NoOutcome]
  /\ spent = 0 /\ stop = "none" /\ exceeded = FALSE /\ failures = 0
  /\ cancelled = FALSE /\ verdict = "none"

-----------------------------------------------------------------------------
(***************************************************************************)
(* Building the ready queue and walking dependents.  Both are for loops of *)
(* the main thread, one step here per iteration, in plan order.            *)
(***************************************************************************)
MakeReadyTakes(t) ==   \* mutant: a ready task is no longer pending
  /\ ready' = Append(ready, t)
  /\ pending' = pending \ {t}
  /\ UNCHANGED <<status, reason, events>>

MakeReady(t) ==
  /\ ready' = Append(ready, t)
  /\ UNCHANGED <<pending, status, reason, events>>

SkipTask(t, why) ==
  /\ pending' = pending \ {t}
  /\ Decide(t, "skipped", why)
  /\ Emit(t, "task_skip", "skipped")
  /\ UNCHANGED ready

LeaveAlone == UNCHANGED <<pending, ready, status, reason, events>>

InitialReadyUnordered(t) ==   \* mutant: ready before its deps are decided
  /\ pc = "init" /\ IsFirst(t, visit)
  /\ visit' = visit \ {t}
  /\ pc' = IF visit' = {} THEN "loop" ELSE "init"
  /\ IF t \in pending /\ (Eligible(t) \/ ~Conditional(t)) THEN MakeReady(t) ELSE LeaveAlone
  /\ UNCHANGED <<plan, back, requeued, running, batch, outcome, accounts,
                 cancelled, verdict>>

\* The loop that fills ready before the pool starts.
InitialReady(t) ==
  /\ pc = "init" /\ IsFirst(t, visit)
  /\ visit' = visit \ {t}
  /\ pc' = IF visit' = {} THEN "loop" ELSE "init"
  /\ IF /\ t \in pending /\ plan.deps[t] \subseteq Completed
        /\ Eligible(t) \/ Conditional(t)
       THEN \/ Eligible(t) /\ MakeReady(t)
            \/ ~Eligible(t) /\ SkipTask(t, "condition")
       ELSE LeaveAlone
  /\ UNCHANGED <<plan, back, requeued, running, batch, outcome, accounts,
                 cancelled, verdict>>

HandleDependentEarly(t) ==   \* mutant: one completed dep is enough
  /\ pc = "visit" /\ IsFirst(t, visit)
  /\ visit' = visit \ {t}
  /\ pc' = IF visit' = {} THEN back ELSE "visit"
  /\ IF t \in pending THEN MakeReady(t) ELSE LeaveAlone
  /\ UNCHANGED <<plan, back, requeued, running, batch, outcome, accounts,
                 cancelled, verdict>>

\* One iteration of _handle_dependents.  A dependent that is skipped here
\* becomes completed, but its own dependents are not handled in turn.
HandleDependent(t) ==
  /\ pc = "visit" /\ IsFirst(t, visit)
  /\ visit' = visit \ {t}
  /\ pc' = IF visit' = {} THEN back ELSE "visit"
  /\ IF t \in pending /\ plan.deps[t] \subseteq Completed
       THEN \/ Eligible(t) /\ MakeReady(t)
            \/ ~Eligible(t) /\ SkipTask(t, IF Conditional(t) THEN "condition"
                                                            ELSE "dependency")
       ELSE LeaveAlone
  /\ UNCHANGED <<plan, back, requeued, running, batch, outcome, accounts,
                 cancelled, verdict>>

\* The call of _handle_dependents(t), to return to where.
CallHandleDependents(t, where) ==
  /\ visit' = Dependents(t)
  /\ back' = where
  /\ pc' = IF visit' = {} THEN where ELSE "visit"

(***************************************************************************)
(* _apply_completion_state: budget, fail_fast and circuit breaker.  The    *)
(* answer to a circuit breaker's pause is the operator's.                  *)
(***************************************************************************)
Failure(st) == st \in {"failed", "soft_failed"}

BreakerTripsLate(st) ==   \* mutant: more than max_total_failures
  /\ Failure(st) /\ plan.breaker # "off" /\ failures + 1 > plan.maxFailures

BreakerTrips(st) == /\ Failure(st)
                    /\ plan.breaker # "off"
                    /\ failures + 1 >= plan.maxFailures

ApplyCompletion(st, cost) ==
  /\ spent' = spent + cost
  /\ exceeded' = (exceeded \/ (plan.budgeted /\ spent' > plan.limit))
  /\ \E approved \in IF BreakerTrips(st) /\ plan.breaker = "pause"
                       THEN BOOLEAN ELSE {FALSE} :
       /\ failures' = IF approved THEN 0
                      ELSE IF Failure(st) /\ plan.breaker # "off"
                        THEN failures + 1 ELSE failures
       /\ stop' = IF BreakerTrips(st) /\ ~approved THEN "breaker"
                  ELSE IF st = "failed" /\ plan.failFast THEN "fail_fast"
                  ELSE stop

(***************************************************************************)
(* The main loop                                                           *)
(***************************************************************************)
\* while pending or running, with the check of cancel_event at its top.
LoopTop ==
  /\ pc = "loop"
  /\ pending \cup running # {} => ~cancelled
  /\ pc' = IF pending \cup running = {} THEN "drain" ELSE "dispatch"
  /\ requeued' = 0
  /\ UNCHANGED <<plan, visit, back, pending, ready, running, batch, outcome,
                 status, reason, accounts, cancelled, verdict, events>>

\* Everything pending is skipped; what runs is left to the pool and its
\* results are never collected.
CancelExit ==
  /\ pc = "loop" /\ cancelled /\ pending \cup running # {}
  /\ SkipAll(pending, "cancelled")
  /\ pending' = {} /\ ready' = <<>>
  /\ pc' = "drain"
  /\ UNCHANGED <<plan, visit, back, requeued, running, batch, outcome,
                 accounts, cancelled, verdict>>

DispatchOverBudget ==   \* mutant: the budget is not looked at
  /\ pc = "dispatch" /\ ready # <<>>
  /\ Cardinality(running) < plan.maxParallel
  /\ stop = "none" /\ ~cancelled

DispatchAfterFailure ==   \* mutant: fail_fast_trigger is not looked at
  /\ pc = "dispatch" /\ ready # <<>>
  /\ Cardinality(running) < plan.maxParallel
  /\ ~exceeded /\ ~cancelled

MayDispatch == /\ pc = "dispatch"
               /\ ready # <<>>
               /\ Cardinality(running) < plan.maxParallel
               /\ stop = "none" /\ ~exceeded /\ ~cancelled

\* An exclusive task waits while another exclusive task runs.
SlotTaken(t) == t \in plan.exclusive /\ running \cap plan.exclusive # {}

RequeueDrops ==   \* mutant: popped, and not appended again
  /\ MayDispatch /\ SlotTaken(Head(ready))
  /\ ready' = Tail(ready)
  /\ pc' = "wait"
  /\ UNCHANGED <<plan, visit, back, requeued, pending, running, batch, outcome,
                 status, reason, accounts, cancelled, verdict, events>>

\* The exclusive task goes to the back; after a full round of them, wait.
Requeue ==
  /\ MayDispatch /\ SlotTaken(Head(ready))
  /\ ready' = Append(Tail(ready), Head(ready))
  /\ requeued' = requeued + 1
  /\ pc' = IF requeued' >= Len(ready) THEN "wait" ELSE "dispatch"
  /\ UNCHANGED <<plan, visit, back, pending, running, batch, outcome, status,
                 reason, accounts, cancelled, verdict, events>>

\* The head of ready leaves it for good.
Take(t) ==
  /\ MayDispatch /\ t = Head(ready) /\ ~SlotTaken(t)
  /\ t \in pending
  /\ ready' = Tail(ready)
  /\ pending' = pending \ {t}
  /\ requeued' = 0

\* Found in the cache: no task_start, no approval, no policy.
CacheHit(t) ==
  /\ Take(t)
  /\ t \in plan.cacheable /\ ~plan.dryRun
  /\ \E o \in Outcomes :
       /\ o.status \in {"success", "failed", "soft_failed"}
       /\ Decide(t, o.status, "cache")
       /\ Emit(t, "task_complete", o.status)
       /\ ApplyCompletion(o.status, o.cost)
  /\ CallHandleDependents(t, "dispatch")
  /\ UNCHANGED <<plan, running, batch, outcome, cancelled, verdict>>

\* The operator (or the absence of a terminal) refuses the task.
ApprovalDenied(t) ==
  /\ Take(t)
  /\ t \in plan.approval /\ ~plan.dryRun
  /\ Decide(t, "skipped", "denied")
  /\ Emit(t, "task_start", NoStatus)
  /\ CallHandleDependents(t, "dispatch")
  /\ UNCHANGED <<plan, running, batch, outcome, accounts, cancelled, verdict>>

\* A blocking policy fails the task without _apply_completion_state.
PolicyBlock(t) ==
  /\ Take(t)
  /\ t \in plan.blocked
  /\ Decide(t, "failed", "policy")
  /\ Emit(t, "task_start", NoStatus)
  /\ CallHandleDependents(t, "dispatch")
  /\ UNCHANGED <<plan, running, batch, outcome, accounts, cancelled, verdict>>

Submit(t) ==
  /\ Take(t)
  /\ t \notin plan.blocked
  /\ running' = running \cup {t}
  /\ Emit(t, "task_start", NoStatus)
  /\ UNCHANGED <<plan, pc, visit, back, batch, outcome, status, reason,
                 accounts, cancelled, verdict>>

\* Ctrl+C, or an exception, between the pop and the running dict: in the cache
\* lookup, at the approval prompt, while the context is built.  No set holds
\* the task any more.
AbandonedSubmit(t) ==
  /\ Take(t)
  /\ Emit(t, "task_start", NoStatus) \/ UNCHANGED events
  /\ pc' \in {"interrupted", "crashing"}
  /\ UNCHANGED <<plan, visit, back, running, batch, outcome, status, reason,
                 accounts, cancelled, verdict>>

StopDispatchWaits ==   \* mutant: no break when nothing is running
  /\ pc = "dispatch" /\ ~MayDispatch
  /\ pc' = "wait"
  /\ UNCHANGED <<plan, visit, back, requeued, pending, ready, running, batch,
                 outcome, status, reason, accounts, cancelled, verdict, events>>

\* The inner loop ends; with nothing running the main loop breaks.
StopDispatch ==
  /\ pc = "dispatch" /\ ~MayDispatch
  /\ pc' = IF running = {} THEN "drain" ELSE "wait"
  /\ UNCHANGED <<plan, visit, back, requeued, pending, ready, running, batch,
                 outcome, status, reason, accounts, cancelled, verdict, events>>

(***************************************************************************)
(* Workers, and the collection of their results                            *)
(***************************************************************************)
Working(t) == t \in running /\ outcome[t] = NoOutcome

\* execute_task returns, or lets an exception escape into the future.
WorkerFinish(t) ==
  /\ Working(t)
  /\ \E o \in Outcomes :
       /\ o.status \in IF plan.dryRun THEN DryRunStatus ELSE WorkerStatus \ {"dry_run"}
       /\ outcome' = [outcome EXCEPT ![t] = o]
  /\ UNCHANGED <<plan, main, pending, ready, running, status, reason,
                 accounts, cancelled, events>>

\* wait(FIRST_COMPLETED) returns the futures that are done by now.
WaitReturns ==
  /\ pc = "wait"
  /\ batch' = {t \in running : ~Working(t)}
  /\ batch' # {}
  /\ pc' = "collect"
  /\ UNCHANGED <<plan, visit, back, requeued, pending, ready, running, outcome,
                 status, reason, accounts, cancelled, verdict, events>>

\* The trajectory guard turns the result into a failure after task_complete
\* has been written with the worker's status.
Collect(t) ==
  /\ pc = "collect" /\ t \in batch
  /\ outcome[t].status # "raised"
  /\ running' = running \ {t}
  /\ batch' = batch \ {t}
  /\ \E aborted \in IF t \in plan.guarded THEN BOOLEAN ELSE {FALSE} :
       LET st == IF aborted THEN "failed" ELSE outcome[t].status
       IN  /\ Decide(t, st, "executed")
           /\ ApplyCompletion(st, outcome[t].cost)
  /\ Emit(t, "task_complete", outcome[t].status)
  /\ CallHandleDependents(t, IF batch' = {} THEN "loop" ELSE "collect")
  /\ UNCHANGED <<plan, requeued, pending, ready, outcome, cancelled, verdict>>

\* future.result() re-raises: the run ends without results for what is open.
CollectRaises(t) ==
  /\ pc = "collect" /\ t \in batch
  /\ outcome[t].status = "raised"
  /\ running' = running \ {t}
  /\ batch' = batch \ {t}
  /\ pc' = "crashing"
  /\ UNCHANGED <<plan, visit, back, requeued, pending, ready, outcome, status,
                 reason, accounts, cancelled, verdict, events>>

(***************************************************************************)
(* The end of the run.  Leaving the with block waits for every worker.     *)
(***************************************************************************)
Drain ==
  /\ pc = "drain"
  /\ pc' = "join"
  /\ \/ /\ pending # {} /\ (stop # "none" \/ exceeded)
        /\ SkipAll(pending, IF stop # "none" THEN stop ELSE "budget")
        /\ pending' = {}
     \/ /\ pending = {} \/ (stop = "none" /\ ~exceeded)
        /\ UNCHANGED <<pending, status, reason, events>>
  /\ UNCHANGED <<plan, visit, back, requeued, ready, running, batch, outcome,
                 accounts, cancelled, verdict>>

PoolIdle == \A t \in running : ~Working(t)

\* success: no result outside SuccessLike.  Tasks without one are not asked.
Finish ==
  /\ pc = "summary" \/ (pc = "join" /\ PoolIdle)
  /\ pc' = "done"
  /\ verdict' = IF \A t \in Completed : status[t] \in SuccessLike
                  THEN "success" ELSE "failure"
  /\ UNCHANGED <<plan, visit, back, requeued, batch, pending, ready, running,
                 outcome, status, reason, accounts, cancelled, events>>

\* The exception leaves run_plan: no manifest, no run_complete.
Crash ==
  /\ pc = "crashing" /\ PoolIdle
  /\ pc' = "aborted"
  /\ UNCHANGED <<plan, visit, back, requeued, batch, verdict, pending, ready,
                 running, outcome, status, reason, accounts, cancelled, events>>

\* Ctrl+C reaches the main thread anywhere; in the try block the pool is left,
\* hence joined, before the handler runs, and before it nothing handles it.
Interrupt ==
  /\ Intact
  /\ pc' = IF pc = "init" THEN "crashing" ELSE "interrupted"
  /\ UNCHANGED <<plan, visit, back, requeued, batch, verdict, pending, ready,
                 running, outcome, status, reason, accounts, cancelled, events>>

(***************************************************************************)
(* Ctrl+C, or an event that cannot be written, within a step that decides  *)
(* tasks: a task is taken out of its set, then has its result, then its    *)
(* event.  Between two such steps it is Interrupt's.                       *)
(***************************************************************************)
\* A skip in the walk of the dependents or of the first ready tasks.
CutVisit(t) ==
  /\ pc = "visit" \/ (pc = "init" /\ Conditional(t))
  /\ IsFirst(t, visit) /\ t \in pending
  /\ plan.deps[t] \subseteq Completed /\ ~Eligible(t)
  /\ pending' = pending \ {t}
  /\ \E decided \in SUBSET {t} : \E told \in SUBSET decided :
       DecideSome(decided, told, "task_skip", "skipped",
                  IF Conditional(t) THEN "condition" ELSE "dependency")
  /\ UNCHANGED <<requeued, ready, running, batch, accounts>>

\* A cache hit with its result; without one it is AbandonedSubmit.
CutLookup(t) ==
  /\ Take(t)
  /\ t \in plan.cacheable /\ ~plan.dryRun
  /\ \E o \in Outcomes, told \in SUBSET {t} :
       /\ o.status \in {"success", "failed", "soft_failed"}
       /\ DecideSome({t}, told, "task_complete", o.status, "cache")
       /\ spent' = spent + o.cost
  /\ UNCHANGED <<running, batch, stop, exceeded, failures>>

CutCollect(t) ==
  /\ pc = "collect" /\ t \in batch
  /\ outcome[t].status # "raised"
  /\ running' = running \ {t}
  /\ batch' = batch \ {t}
  /\ \E decided \in SUBSET {t} : \E told \in SUBSET decided :
       /\ DecideSome(decided, told, "task_complete", outcome[t].status, "executed")
       /\ spent' = IF decided = {} THEN spent ELSE spent + outcome[t].cost
  /\ UNCHANGED <<requeued, pending, ready, stop, exceeded, failures>>

AtMostOne(S) == \A t, u \in S : t = u

\* CancelExit empties pending only after the last of its tasks.
CutCancel ==
  /\ pc = "loop" /\ cancelled
  /\ \E decided \in SUBSET pending : \E told \in SUBSET decided :
       /\ AtMostOne(decided \ told)
       /\ DecideSome(decided, told, "task_skip", "skipped", "cancelled")
  /\ UNCHANGED <<requeued, pending, ready, running, batch, accounts>>

CutDrain ==
  /\ pc = "drain" /\ (stop # "none" \/ exceeded)
  /\ \E gone \in SUBSET pending : \E decided \in SUBSET gone : \E told \in SUBSET decided :
       /\ AtMostOne(gone \ told)
       /\ pending' = pending \ gone
       /\ DecideSome(decided, told, "task_skip", "skipped",
                     IF stop # "none" THEN stop ELSE "budget")
  /\ UNCHANGED <<requeued, ready, running, batch, accounts>>

CutShort ==
  /\ \/ \E t \in Task : CutVisit(t) \/ CutLookup(t) \/ CutCollect(t)
     \/ CutCancel \/ CutDrain
  /\ pc' = "crashing" \/ (pc # "init" /\ pc' = "interrupted")
  /\ UNCHANGED <<plan, visit, back, outcome, cancelled, verdict>>

\* What still waits is skipped, what CutCancel has decided a second time.
HandleInterrupt ==
  /\ pc = "interrupted" /\ PoolIdle
  /\ SkipAll(pending, "interrupted")
  /\ pending' = {}
  /\ pc' = "summary"
  /\ UNCHANGED <<plan, visit, back, requeued, ready, running, batch, outcome,
                 accounts, cancelled, verdict>>

CancelRequest ==
  /\ ~cancelled /\ pc \notin {"done", "aborted"}
  /\ cancelled' = TRUE
  /\ UNCHANGED <<plan, main, pending, ready, running, outcome, status, reason,
                 accounts, events>>

Over == pc \in {"done", "aborted"}
Terminating == Over /\ UNCHANGED vars

DispatchTask(t) ==
  CacheHit(t) \/ ApprovalDenied(t) \/ PolicyBlock(t) \/ Submit(t)

MainStep ==
  \/ \E t \in Task : InitialReady(t) \/ HandleDependent(t)
  \/ LoopTop \/ CancelExit \/ Requeue \/ StopDispatch \/ WaitReturns
  \/ \E t \in Task : DispatchTask(t)
  \/ \E t \in Task : Collect(t) \/ CollectRaises(t)
  \/ Drain \/ Finish \/ Crash \/ HandleInterrupt

Next ==
  \/ MainStep
  \/ \E t \in Task : WorkerFinish(t)
  \/ \E t \in Task : AbandonedSubmit(t)
  \/ CutShort \/ Interrupt \/ CancelRequest
  \/ Terminating

\* The main thread keeps going and every submitted command ends; nobody has
\* to cancel or interrupt.
Fairness ==
  /\ WF_vars(MainStep)
  /\ \A t \in Task : WF_vars(WorkerFinish(t))

Spec == Init /\ [][Next]_vars /\ Fairness

-----------------------------------------------------------------------------
(***************************************************************************)
(* Properties                                                              *)
(***************************************************************************)
Phase == {"init", "loop", "dispatch", "visit", "wait", "collect", "drain",
          "join", "crashing", "interrupted", "summary", "done", "aborted"}

\* The values the state of run_plan ranges over.
TypeOK ==
  /\ plan \in Plans
  /\ pc \in Phase
  /\ visit \in SUBSET Task
  /\ back \in {"loop", "dispatch", "collect"}
  /\ requeued \in Nat
  /\ pending \in SUBSET Task
  /\ ready \in Seq(Task)
  /\ running \in SUBSET Task
  /\ batch \in SUBSET Task
  /\ outcome \in [Task -> Outcomes \cup {NoOutcome}]
  /\ status \in [Task -> Status \cup {NoStatus}]
  /\ reason \in [Task -> Reasons]
  /\ spent \in Nat
  /\ stop \in {"none", "fail_fast", "breaker"}
  /\ exceeded \in BOOLEAN
  /\ failures \in Nat
  /\ cancelled \in BOOLEAN
  /\ verdict \in {"none", "success", "failure"}
  /\ events \in [Task -> Seq(Event)]

\* Every task is waiting, with a worker or decided, and in one of these
\* places only: but Ctrl+C may leave tasks that a cancel has decided waiting,
\* for HandleInterrupt.  The run loses at most one task, the one in hand when
\* an exception or Ctrl+C breaks it, and none while it is open.
Lost == Task \ (pending \cup running \cup Completed)
EveryTaskAccountedFor ==
  /\ pending \cap running = {} /\ running \cap Completed = {}
  /\ \A t \in pending \cap Completed :
       ~Intact /\ status[t] = "skipped" /\ reason[t] = "cancelled"
  /\ Intact => Lost = {}
  /\ \A t, u \in Lost : t = u

\* What has started, hit the cache, been denied or been blocked was entitled
\* to its turn, and still is by the results as they stand: all its deps are
\* decided and, without a when expression, none of them failed.
Started(t) == \/ t \in running
              \/ reason[t] \in {"executed", "cache", "denied", "policy"}
DependenciesFirst ==
  \A t \in Task : Started(t) => plan.deps[t] \subseteq Completed /\ Eligible(t)

\* A skip blamed on a dependency or on a when expression names a cause that
\* is in the results.
SkipsJustified ==
  \A t \in Task :
    /\ reason[t] = "dependency" => \E d \in plan.deps[t] : status[d] = "failed"
    /\ reason[t] = "condition"  => Conditional(t) /\ ~WhenHolds(t)

\* A result, once in the results dict, is never replaced: no task is decided
\* twice, whichever of collection, skip, cancel and interrupt comes first; only
\* the message of a cancelled task changes, when Ctrl+C cuts the cancel short.
ResultsFinal ==
  [][\A t \in Task : status[t] # NoStatus
       => /\ status'[t] = status[t]
          /\ reason'[t] = reason[t] \/ (reason[t] = "cancelled" /\ reason'[t] = "interrupted")]_vars

\* The thread pool is never oversubscribed, and tasks that share an MCP
\* server that is not concurrency safe never overlap.
MaxParallel ==
  /\ Cardinality(running) <= plan.maxParallel
  /\ \A t, u \in running \cap plan.exclusive : t = u

\* A failure that was executed or read from the cache stops a fail_fast run:
\* nothing is submitted after it, whatever else is in flight.
FailedFast == /\ plan.failFast
              /\ \E t \in Task : /\ status[t] = "failed"
                                 /\ reason[t] \in {"executed", "cache"}
FailFastStopsDispatch == [][FailedFast => running' \subseteq running]_vars

\* So does the circuit breaker: with action "fail", maxFailures failures
\* (soft ones count) are the last the run ever starts.
Broken == /\ plan.breaker = "fail"
          /\ plan.maxFailures <=
               Cardinality({t \in Task : /\ Failure(status[t])
                                         /\ reason[t] \in {"executed", "cache"}})
BreakerStopsDispatch == [][Broken => running' \subseteq running]_vars

\* Whichever it is, it is noticed with other tasks in flight and on the ready
\* queue, and none of those that wait is started.
StoppedForGood == [][FailedFast \/ Broken => running' \subseteq running]_vars

\* Tasks in flight when the budget runs out complete, and nothing is started
\* after them, so the overshoot is at most one task per worker.
OvershootBounded ==
  plan.budgeted => spent <= plan.limit + plan.maxParallel * MaxCost

\* Nobody interfered with the run, and nothing was lost.
Undisturbed == /\ ~cancelled /\ running = {} /\ Lost = {}
               /\ \A t \in Task : reason[t] # "interrupted"

\* The scheduler keeps what PlanRun promises: every step of it is a step of
\* the abstract run or leaves it alone.
PlaceOf(t) == IF status[t] # NoStatus THEN "decided"
              ELSE IF t \in running THEN "running"
              ELSE IF t \in pending THEN "waiting"
              ELSE "lost"
Open == pc \in {"init", "loop", "dispatch", "visit", "wait", "collect"}
Run == INSTANCE PlanRun WITH
         Graphs <- {p.deps : p \in Plans}, graph <- plan.deps,
         place <- [t \in Task |-> PlaceOf(t)], open <- Open
RunSpec == Run!Spec

\* Every run ends, a resumed one too: the main thread never waits for a
\* worker that is not there.  And a ready task is dispatched, or the run is
\* stopped first: going round the deque for the exclusive slot starves nobody.
IsReady(t) == \E i \in 1 .. Len(ready) : ready[i] = t
RunsProgress ==
  /\ []<>Over
  /\ \A t \in Task : IsReady(t) ~> (t \notin pending \/ cancelled \/ pc = "aborted")

-----------------------------------------------------------------------------
(***************************************************************************)
(* Statements of the documentation and the tests that the code does not    *)
(* keep.                                                                   *)
(***************************************************************************)
\* docs/CLI_REFERENCE.md:13: exit code 0 says that all tasks succeeded.  A
\* task below a skipped one is neither run nor skipped.
SuccessMeansAllDecided ==
  pc = "done" /\ Undisturbed /\ verdict = "success" => pending = {}

=============================================================================
