------------------------------- MODULE MultiPlan -------------------------------
(***************************************************************************)
(* Several plans in one maestro run (multi.py), one after another or all at *)
(* once, and the ledger of a budget period that their runs share with the   *)
(* runs of other processes (budget.py, read and written by run_plan).       *)
(* Every run that shares the ledger has the same period and limit.          *)
(***************************************************************************)
EXTENDS Integers, FiniteSets, Sequences, Functions

CONSTANTS
  NPlans,        \* number of plans given
  MaxOthers,     \* bound on the runs of other processes under way at once
  MaxRunCost,    \* bound on what one run costs
  MaxDay,        \* bound on the calendar
  Week, Month,   \* days in a week, in a month
  MultiConfigs   \* invocations tried: parallel, the shared cap, periods and limits

ASSUME MultiAssumption ==
  /\ NPlans \in Nat \ {0} /\ MaxRunCost \in Nat \ {0} /\ MaxDay \in Nat /\ MaxOthers \in Nat
  /\ Week \in Nat \ {0} /\ Month \in Nat \ {0}
  /\ \A c \in MultiConfigs : /\ c.cap \in Nat /\ c.limit \in Nat /\ c.parallel \in BOOLEAN
                             /\ c.loads \subseteq 1 .. NPlans

VARIABLES
  mcfg,       \* parallel, cap (0: none), period, limit (0: none), loads
  mpc,        \* "run", "aggregate" or "done"
  run,        \* per plan: "waiting", "running", "ended" and its final states
  paid,       \* per plan: total_cost_usd of its result
  remaining,  \* remaining_budget
  exceeded,   \* budget_exceeded
  others,     \* runs of other processes that have passed check_budget and not ended
  ledger,     \* budget_ledger.jsonl: entries [day, cost]
  day         \* the clock

multiVars == <<mcfg, mpc, run, paid, remaining, exceeded, others, ledger, day>>

Plans == 1 .. NPlans
Final == {"failed", "done", "refused", "skipped"}

-----------------------------------------------------------------------------
(* The ledger.                                                             *)

PeriodStart(period, now) ==
  IF period = "daily" THEN now
  ELSE IF period = "weekly" THEN now - (now % Week) ELSE now - (now % Month)

SpendSince(entries, start) ==
  SumFunctionOnSet([i \in DOMAIN entries |-> entries[i].cost],
                   {i \in DOMAIN entries : entries[i].day >= start})

PeriodSpend(period) == SpendSince(ledger, PeriodStart(period, day))

CheckBudgetLax ==   \* mutant: the limit itself may be spent again
  mcfg.limit = 0 \/ PeriodSpend(mcfg.period) <= mcfg.limit
CheckBudget == mcfg.limit = 0 \/ PeriodSpend(mcfg.period) < mcfg.limit

RecordCost(cost) ==
  ledger' = IF mcfg.limit > 0 /\ cost > 0 THEN Append(ledger, [day |-> day, cost |-> cost])
            ELSE ledger

-----------------------------------------------------------------------------

MultiInit ==
  /\ mcfg \in MultiConfigs /\ mpc = "run"
  /\ run = [p \in Plans |-> IF p \in mcfg.loads THEN "waiting" ELSE "failed"]
  /\ paid = [p \in Plans |-> 0]
  /\ remaining = mcfg.cap /\ exceeded = FALSE
  /\ ledger \in {<<>>, <<[day |-> 0, cost |-> 1]>>} /\ day = 0 /\ others = 0

\* One after another: the next one waits for the one before.
Turn(p) == \/ mcfg.parallel
           \/ \A q \in mcfg.loads : q < p => run[q] \in Final

Exhausted == ~ mcfg.parallel /\ mcfg.cap > 0 /\ remaining <= 0

\* run_plan begins: the period's budget is looked up once, here.
StartPlan(p) ==
  /\ mpc = "run" /\ run[p] = "waiting" /\ Turn(p) /\ ~ Exhausted
  /\ run' = [run EXCEPT ![p] = IF CheckBudget THEN "running" ELSE "refused"]
  /\ UNCHANGED <<mcfg, mpc, paid, remaining, exceeded, others, ledger, day>>

\* run_plan ends: what it cost goes to the ledger.
EndPlan(p) ==
  /\ run[p] = "running"
  /\ \E cost \in 0 .. MaxRunCost :
       /\ paid' = [paid EXCEPT ![p] = cost]
       /\ RecordCost(cost)
  /\ run' = [run EXCEPT ![p] = "ended"]
  /\ UNCHANGED <<mcfg, mpc, remaining, exceeded, others, day>>

\* run_plan raises: what it has cost is in no ledger and in no result.
RaisePlan(p) ==
  /\ run[p] = "running"
  /\ run' = [run EXCEPT ![p] = "failed"]
  /\ UNCHANGED <<mcfg, mpc, paid, remaining, exceeded, others, ledger, day>>

\* The shared cap is charged, in the parallel case under the lock.
Deduct(p) ==
  /\ run[p] = "ended"
  /\ remaining' = remaining - paid[p]
  /\ exceeded' = (exceeded \/ (mcfg.cap > 0 /\ remaining' <= 0))
  /\ run' = [run EXCEPT ![p] = "done"]
  /\ UNCHANGED <<mcfg, mpc, paid, others, ledger, day>>

SkipRest ==
  /\ mpc = "run" /\ Exhausted
  /\ \E p \in mcfg.loads : run[p] = "waiting" /\ Turn(p)
  /\ run' = [p \in Plans |-> IF run[p] = "waiting" THEN "skipped" ELSE run[p]]
  /\ exceeded' = TRUE
  /\ UNCHANGED <<mcfg, mpc, paid, remaining, others, ledger, day>>

Total == SumFunctionOnSet(paid, Plans)

Aggregate ==
  /\ mpc = "run" /\ \A p \in Plans : run[p] \in Final
  /\ mpc' = "done"
  /\ exceeded' = (exceeded \/ (mcfg.cap > 0 /\ Total > mcfg.cap))
  /\ UNCHANGED <<mcfg, run, paid, remaining, others, ledger, day>>

\* Another process's run begins: it reads the same ledger.
OtherStart ==
  /\ mcfg.limit > 0 /\ others < MaxOthers /\ CheckBudget
  /\ others' = others + 1
  /\ UNCHANGED <<mcfg, mpc, run, paid, remaining, exceeded, ledger, day>>

\* It ends, or is killed and records nothing.
OtherEnd ==
  /\ others > 0 /\ others' = others - 1
  /\ \E cost \in 0 .. MaxRunCost : RecordCost(cost)
  /\ UNCHANGED <<mcfg, mpc, run, paid, remaining, exceeded, day>>

Tick == /\ day < MaxDay /\ day' = day + 1
        /\ UNCHANGED <<mcfg, mpc, run, paid, remaining, exceeded, others, ledger>>

PlanStep == \E p \in Plans : StartPlan(p) \/ EndPlan(p) \/ RaisePlan(p) \/ Deduct(p)

MultiNext ==
  \/ PlanStep \/ SkipRest \/ Aggregate
  \/ mpc # "done" /\ (OtherStart \/ OtherEnd \/ Tick)

MultiStep == PlanStep \/ SkipRest \/ Aggregate

MultiSpec == MultiInit /\ [][MultiNext]_multiVars /\ WF_multiVars(MultiStep)

-----------------------------------------------------------------------------
(* Properties.                                                             *)

MultiTypeOK ==
  /\ mcfg \in MultiConfigs /\ mpc \in {"run", "done"}
  /\ run \in [Plans -> {"waiting", "running", "ended"} \cup Final]
  /\ paid \in [Plans -> 0 .. MaxRunCost] /\ exceeded \in BOOLEAN /\ day \in 0 .. MaxDay
  /\ others \in 0 .. MaxOthers

\* The runs that may be under way together, those of other processes included.
AtOnce == (IF mcfg.parallel THEN NPlans ELSE 1) + MaxOthers

\* Since a run looks at the ledger when it begins and writes it when it ends, a
\* period's limit is overrun by what the runs under way at once, in this process
\* and in others, can cost, and by no more, across midnight too; and the shared
\* cap, in the sequential case, by what one plan can cost (check_budget,
\* record_cost; _run_sequential).  A cap that was used up is reported, in
\* whatever order the plans end.
OvershootBounded ==
  /\ mcfg.limit > 0 /\ PeriodSpend(mcfg.period) >= mcfg.limit =>
       PeriodSpend(mcfg.period) < mcfg.limit + AtOnce * MaxRunCost
  /\ ~ mcfg.parallel /\ mcfg.cap > 0 => Total < mcfg.cap + MaxRunCost
  /\ mpc = "done" /\ mcfg.cap > 0 /\ Total >= mcfg.cap => exceeded

\* Every plan gets a result and the run ends.
MultiEnds == <>(mpc = "done")
=============================================================================
