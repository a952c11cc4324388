----------------------------- MODULE ResumedRuns -----------------------------
(***************************************************************************)
(* A run and the runs that resume it (maestro run --resume): the manifest  *)
(* of a run that ended is read by _load_prior_results of the next one.     *)
(***************************************************************************)
EXTENDS Scheduler

CONSTANT MaxSessions    \* bound on the number of runs of one plan
ASSUME SessionsAssumption == MaxSessions \in Nat \ {0}
\* A plan may be resumed wherever it was left.
ASSUME ResumableAssumption ==
  Plans = {[p EXCEPT !.prior = prior] :
             p \in Plans, prior \in [Task -> SuccessLike \cup {NoStatus}]}

VARIABLES
  session,   \* which run this is
  achieved,  \* tasks a manifest has recorded as succeeded
  starved    \* tasks the last run skipped because of another task's failure

allVars == <<vars, session, achieved, starved>>

LoadPriorStrict(t) ==   \* mutant: only "success" counts
  IF status[t] = "success" THEN "success" ELSE NoStatus

LoadPriorAll(t) ==   \* mutant: skips are never tried again
  IF status[t] \in SuccessLike THEN status[t] ELSE NoStatus

\* A manifest keeps what it says; skips that a failure or fail_fast caused,
\* and failures, are for the next run to try again.
LoadPrior(t) ==
  IF \/ status[t] \notin SuccessLike
     \/ status[t] = "skipped" /\ reason[t] \in {"dependency", "fail_fast"}
    THEN NoStatus ELSE status[t]

ResumedPlan == [plan EXCEPT !.prior = [t \in Task |-> LoadPrior(t)]]

\* Every run that reaches its end writes a manifest, an interrupted or
\* cancelled one too; one that raises does not, and cannot be resumed.
Resume ==
  /\ pc = "done" /\ session < MaxSessions
  /\ session' = session + 1
  /\ achieved' = achieved \cup {t \in Task : status[t] \in {"success", "soft_failed"}}
  /\ starved' = {t \in Task : reason[t] \in {"dependency", "fail_fast"}}
  /\ plan' = ResumedPlan
  /\ pc' = "init" /\ visit' = Task /\ back' = "loop" /\ requeued' = 0
  /\ status' = plan'.prior
  /\ reason' = [t \in Task |-> IF plan'.prior[t] = NoStatus THEN "none" ELSE "resumed"]
  /\ events' = [t \in Task |->
                  IF plan'.prior[t] = NoStatus THEN <<>>
                  ELSE <<[type |-> "task_complete", status |-> plan'.prior[t]]>>]
  /\ pending' = {t \in Task : plan'.prior[t] = NoStatus}
  /\ ready' = <<>> /\ running' = {} /\ batch' = {}
  /\ outcome' = [t \in Task |-> NoOutcome]
  /\ spent' = 0 /\ stop' = "none" /\ exceeded' = FALSE /\ failures' = 0
  /\ cancelled' = FALSE /\ verdict' = "none"

ResumeInit ==
  /\ Init /\ plan.prior = [t \in Task |-> NoStatus]
  /\ session = 1 /\ achieved = {} /\ starved = {}

ResumeNext == \/ Next /\ UNCHANGED <<session, achieved, starved>>
              \/ Resume

ResumeSpec == ResumeInit /\ [][ResumeNext]_allVars /\ Fairness

-----------------------------------------------------------------------------
\* What one run has achieved, every later run keeps: a task that succeeded
\* is never run again, and its success never turns into something else.
AchievementsSurvive ==
  \A t \in achieved : /\ status[t] \in {"success", "soft_failed"}
                      /\ t \notin running \cup pending

\* A skip caused by another task's failure is not the last word: in a later
\* run that is left alone and in which nothing fails, what the failure starved
\* runs, or its own condition or approval keeps it from running.  And no task
\* goes without a result but those behind one whose condition kept it from
\* running: below a task without a result there is always another such one, or
\* a skip by condition, and a plan has no cycles.
SmoothRun == /\ Undisturbed /\ stop = "none" /\ ~exceeded
             /\ \A t \in Task : status[t] # "failed"
ResumeCompletes ==
  pc = "done" /\ session > 1 /\ SmoothRun =>
    /\ \A t \in Task : status[t] = NoStatus =>
         \E d \in plan.deps[t] : status[d] = NoStatus \/ reason[d] = "condition"
    /\ \A t \in starved : status[t] # NoStatus =>
         reason[t] \in {"executed", "cache", "condition", "denied"}
=============================================================================
