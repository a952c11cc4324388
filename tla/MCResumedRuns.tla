--------------------------- MODULE MCResumedRuns ---------------------------
(***************************************************************************)
(* Runs and the runs that resume them, to their ends: plans whose runs     *)
(* fail, stop or skip on the way, and plans whose dispatch loop goes round *)
(* (the exclusive slot) or may stop early (limits, fail_fast).             *)
(***************************************************************************)
EXTENDS MCScheduler, ResumedRuns

FirstPlans ==
  {[Base EXCEPT !.deps = d, !.failFast = f, !.when[3] = w] :
     d \in {Chain, Join}, f \in BOOLEAN, w \in {Always, When("==", 2, "failed")}}
    \cup {[Base EXCEPT !.deps = Chain, !.approval = {2}, !.cacheable = {2}]}
    \cup {[Base EXCEPT !.deps = Fork, !.exclusive = {1, 3}, !.maxParallel = 2],
          [Base EXCEPT !.deps = Join, !.exclusive = {1, 2, 3}],
          [Base EXCEPT !.deps = Chain, !.failFast = TRUE, !.cacheable = {1}],
          [Base EXCEPT !.deps = Chain, !.failFast = TRUE, !.when[2] = When("==", 1, "failed")],
          [Base EXCEPT !.budgeted = TRUE, !.limit = 1],
          [Base EXCEPT !.breaker = "pause", !.maxFailures = 2]}

SessionPlans ==
  {[p EXCEPT !.prior = prior] : p \in FirstPlans, prior \in [Task -> SuccessLike \cup {NoStatus}]}

SessionOutcomes == {o \in MCOutcomes : o.status # "dry_run"}
=============================================================================
