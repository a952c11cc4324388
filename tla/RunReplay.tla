------------------------------ MODULE RunReplay ------------------------------
(***************************************************************************)
(* replay_run_state (eventsource.py) over the events a run has written:    *)
(* what a reader of events.jsonl believes, beside what run_plan knows.     *)
(***************************************************************************)
EXTENDS Scheduler

ReplayEventNoSkip(st, e) ==   \* mutant: task_skip falls through
  IF e.type = "task_start" THEN "running"
  ELSE IF e.type = "task_complete" THEN e.status ELSE st

\* One event updates the last known status of its task.
ReplayEvent(st, e) ==
  IF e.type = "task_start" THEN "running"
  ELSE IF e.type = "task_complete" THEN e.status
  ELSE IF e.type = "task_skip" THEN "skipped" ELSE st

ReplayedStatus(t) ==
  LET st[n \in 0 .. Len(events[t])] ==
        IF n = 0 THEN NoStatus ELSE ReplayEvent(st[n - 1], events[t][n]) IN
  st[Len(events[t])]

\* completed_tasks: an event has given the task a terminal status.
ReplayCompleted(t) ==
  \E i \in 1 .. Len(events[t]) :
    \/ events[t][i].type = "task_complete" /\ events[t][i].status \in Status
    \/ events[t][i].type = "task_skip"

-----------------------------------------------------------------------------
\* Tasks that were not denied approval, blocked by a policy or watched by an
\* aborting guard.
Logged == {t \in Task : reason[t] \notin {"denied", "policy"} /\ t \notin plan.guarded}

\* The log lags behind: the task has its result, and not its event.
Unlogged == {t \in Logged \cap Completed : ReplayedStatus(t) \in {"running", NoStatus}}

\* At every moment the log tells the truth about every task of Logged: a result
\* that it gives is the task's, a task with a worker is running and one that
\* waits has no events.  It has every result too, unless Ctrl+C or an exception
\* broke the run between a result and its event, and then it lacks that one.
ReplayFaithful ==
  /\ \A t \in Logged :
       /\ t \in Completed \ Unlogged => ReplayedStatus(t) = status[t] /\ ReplayCompleted(t)
       /\ t \in running => ReplayedStatus(t) = "running"
       /\ t \in pending \ Completed => ReplayedStatus(t) = NoStatus
       /\ t \in Lost => ReplayedStatus(t) \in {"running", NoStatus}
  /\ Intact => Unlogged = {}
  /\ AtMostOne(Unlogged)
=============================================================================
