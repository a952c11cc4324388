---------------------------- MODULE MCScheduler ----------------------------
(***************************************************************************)
(* Instances of Scheduler and RunReplay for TLC: three tasks, and families *)
(* of plans that each turn on one part of the scheduler.                   *)
(***************************************************************************)
EXTENDS Scheduler, RunReplay

MCTask == 1 .. 3
MCMaxCost == 1
MCOutcomes ==
  {[status |-> "success", cost |-> 1], [status |-> "failed", cost |-> 1],
   [status |-> "soft_failed", cost |-> 0], [status |-> "raised", cost |-> 0],
   [status |-> "dry_run", cost |-> 0], [status |-> "skipped", cost |-> 0]}

Always == [op |-> "none", dep |-> 1, value |-> "success"]
When(op, d, st) == [op |-> op, dep |-> d, value |-> st]

Base ==
  [rank |-> [t \in MCTask |-> t], deps |-> [t \in MCTask |-> {}],
   when |-> [t \in MCTask |-> Always], prior |-> [t \in MCTask |-> NoStatus],
   cacheable |-> {}, approval |-> {}, blocked |-> {}, exclusive |-> {},
   guarded |-> {}, maxParallel |-> 2, failFast |-> FALSE, dryRun |-> FALSE,
   budgeted |-> FALSE, limit |-> 0, breaker |-> "off", maxFailures |-> 1]

\* The graphs on three tasks listed in topological order.
Graphs3 == {d \in [MCTask -> SUBSET MCTask] : \A t \in MCTask : d[t] \subseteq 1 .. (t - 1)}
Chain == [t \in MCTask |-> 1 .. (t - 1) \ 1 .. (t - 2)]
Free  == [t \in MCTask |-> {}]
Join  == [t \in MCTask |-> IF t = 3 THEN {1, 2} ELSE {}]
Fork  == [t \in MCTask |-> IF t = 1 THEN {} ELSE {1}]

\* Every graph; the file may list a task before its dependency.
GraphPlans ==
  {[Base EXCEPT !.deps = d, !.rank = [t \in MCTask |-> 4 - t]] : d \in Graphs3}
    \cup {[Base EXCEPT !.deps = d, !.maxParallel = n, !.failFast = f] :
            d \in {Chain, Join}, n \in {1, 3}, f \in BOOLEAN}

\* Conditions, with a dependency that is not selected among them.
WhenPlans ==
  {[Base EXCEPT !.deps = d, !.when[3] = When(op, 1, "failed"), !.when[2] = w] :
     d \in {Fork, Join}, op \in {"==", "!=", "invalid"}, 
     w \in {Always, When("!=", 1, "success")}}

\* Approval, policy, cache and trajectory guard on a fork.
GatePlans ==
  {[Base EXCEPT !.deps = Fork, !.approval = a, !.blocked = b, !.cacheable = c,
                !.guarded = g, !.failFast = f, !.dryRun = dry] :
     a \in {{}, {1, 2}}, b \in {{}, {2}}, c \in {{}, {1, 3}}, g \in {{}, {1}},
     f \in {TRUE}, dry \in BOOLEAN}

\* Budget and circuit breaker, three independent tasks.
LimitPlans ==
  {[Base EXCEPT !.deps = Free, !.budgeted = TRUE, !.limit = l, !.maxParallel = n,
                !.cacheable = {2}] : l \in {0, 1}, n \in {1, 2}}
    \cup {[Base EXCEPT !.deps = Free, !.breaker = b, !.maxFailures = m,
                       !.maxParallel = 3 - m, !.cacheable = {2}] :
            b \in {"fail", "pause"}, m \in {1, 2}}

\* Two or three tasks that share the exclusive MCP slot.
SlotPlans ==
  {[Base EXCEPT !.deps = d, !.exclusive = e, !.maxParallel = 3] :
     d \in {Free, Fork}, e \in {{1, 3}, {1, 2, 3}}}

\* A resumed run, after a prior one that left some tasks undecided.
ResumePlans ==
  {[Base EXCEPT !.deps = d, !.prior[1] = p, !.prior[3] = q, !.when[2] = w] :
     d \in {Chain, Fork}, p \in {"success", "skipped"},
     q \in {NoStatus, "skipped"}, w \in {Always, When("==", 1, "success")}}

MCPlans == GraphPlans \cup WhenPlans \cup GatePlans \cup LimitPlans
             \cup SlotPlans \cup ResumePlans
=============================================================================
