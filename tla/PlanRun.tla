------------------------------- MODULE PlanRun -------------------------------
(***************************************************************************)
(* What run_plan promises of a run, without queues, threads or accounts:   *)
(* a task starts once, after everything it depends on is decided, and only *)
(* while the run is open; once decided it stays decided; closing a run may *)
(* decide (skip) everything that still waits.  A task is lost only by what *)
(* breaks the run.                                                         *)
(***************************************************************************)
CONSTANTS
  Task,
  Graphs    \* functions from tasks to the sets of tasks they depend on

VARIABLES
  graph,    \* the dependencies of every task
  place,    \* where each task is: waiting, running, decided or lost
  open      \* tasks may still start

vars == <<graph, place, open>>

In(where) == {t \in Task : place[t] = where}

Move(S, to) == place' = [t \in Task |-> IF t \in S THEN to ELSE place[t]]

DepsDecided(t) == \A d \in graph[t] : place[d] = "decided"

\* A resumed run starts with some tasks decided.
Init == /\ graph \in Graphs
        /\ place \in [Task -> {"waiting", "decided"}]
        /\ open = TRUE

\* A worker takes the task.
Start(t) == /\ open /\ place[t] = "waiting" /\ DepsDecided(t)
            /\ Move({t}, "running")
            /\ UNCHANGED <<graph, open>>

\* A step may be the last one before the run is broken off.
MayClose == open' \in BOOLEAN

\* The task is decided without running: cached, denied, blocked or skipped.
Settle(t) == /\ open /\ place[t] = "waiting" /\ DepsDecided(t)
             /\ Move({t}, "decided")
             /\ MayClose /\ UNCHANGED graph

\* The worker's result is recorded.
Finish(t) == /\ open /\ place[t] = "running"
             /\ Move({t}, "decided")
             /\ MayClose /\ UNCHANGED graph

\* What has the task in hand breaks, and with it the run.
Lose(t) == /\ open
           /\ place[t] = "running" \/ (place[t] = "waiting" /\ DepsDecided(t))
           /\ Move({t}, "lost")
           /\ open' = FALSE
           /\ UNCHANGED graph

\* No more tasks start; what waits is skipped now, later or never, and a task is
\* lost when that is broken off.
SkipSome(lost) ==
  /\ open' = FALSE
  /\ \E skipped \in SUBSET In("waiting") :
       place' = [t \in Task |-> IF t \in lost THEN "lost"
                                ELSE IF t \in skipped THEN "decided" ELSE place[t]]
  /\ UNCHANGED graph

Close == SkipSome({})
LoseWaiting == ~open /\ \E t \in In("waiting") : SkipSome({t})

Next == \/ \E t \in Task : Start(t) \/ Settle(t) \/ Finish(t) \/ Lose(t)
        \/ Close \/ LoseWaiting

Spec == Init /\ [][Next]_vars

=============================================================================
