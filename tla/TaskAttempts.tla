---------------------------- MODULE TaskAttempts ----------------------------
(***************************************************************************)
(* What the scheduler may count on when it hands a task to a worker: a     *)
(* command is launched at most Limit times, one launch after the other,    *)
(* and the task then has one outcome for good.                             *)
(***************************************************************************)
EXTENDS Naturals

CONSTANTS
  Limits,     \* how often a task may be launched
  Outcome,    \* what a worker gives back
  NoOutcome   \* it has not given anything back yet

VARIABLES
  limit,      \* the bound of this task
  tries,      \* launches so far
  busy,       \* a launched command is running
  answer      \* the outcome, or NoOutcome

vars == <<limit, tries, busy, answer>>

Init == /\ limit \in Limits /\ tries = 0 /\ busy = FALSE /\ answer = NoOutcome

Launch == /\ ~busy /\ answer = NoOutcome /\ tries < limit
          /\ tries' = tries + 1 /\ busy' = TRUE
          /\ UNCHANGED <<limit, answer>>

Return == /\ busy /\ busy' = FALSE
          /\ UNCHANGED <<limit, tries, answer>>

Answer == /\ ~busy /\ answer = NoOutcome
          /\ answer' \in Outcome
          /\ UNCHANGED <<limit, tries, busy>>

Next == Launch \/ Return \/ Answer

Spec == Init /\ [][Next]_vars
=============================================================================
