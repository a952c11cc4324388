--------------------------- MODULE SchedulerProofs ---------------------------
(***************************************************************************)
(* Theorems about Scheduler, and about what outlives a run: its event log, *)
(* read back by replay_run_state, and its manifest, read by the runs that  *)
(* resume it; for every set of tasks, every set of plans and every set of  *)
(* outcomes that satisfy the assumptions.                                  *)
(***************************************************************************)
EXTENDS ResumedRuns, RunReplay, FiniteSetTheorems, TLAPS

(***************************************************************************)
(* What the assumption on Plans says of the plan in hand.                  *)
(***************************************************************************)
LEMMA PlanFields ==
  ASSUME NEW p \in Plans
  PROVE  /\ p.deps \in [Task -> SUBSET Task]
         /\ p.when \in [Task -> WhenExpr]
         /\ p.rank \in [Task -> Nat]
         /\ p.prior \in [Task -> SuccessLike \cup {NoStatus}]
         /\ p.maxParallel \in Nat \ {0}
         /\ p.failFast \in BOOLEAN /\ p.budgeted \in BOOLEAN
         /\ p.limit \in Nat /\ p.maxFailures \in Nat \ {0}
BY PlansAssumption DEF PlanSpec

LEMMA StatusSets ==
  /\ SuccessLike \subseteq Status
  /\ NoStatus \notin Status /\ NoStatus # "raised"
  /\ WorkerStatus \ {"raised"} \subseteq Status
  /\ "failed" \in Status /\ "skipped" \in Status
  /\ "none" \in Reasons /\ "resumed" \in Reasons
BY DEF SuccessLike, Status, NoStatus, WorkerStatus, Reasons

LEMMA OutcomeFields ==
  ASSUME NEW o \in Outcomes
  PROVE  o.status \in WorkerStatus /\ o.cost \in Nat /\ o.cost <= MaxCost
BY CostAssumption

LEMMA EventFields ==
  ASSUME NEW type \in EventTypes, NEW st \in Status \cup {NoStatus}
  PROVE  [type |-> type, status |-> st] \in Event
BY DEF Event

-----------------------------------------------------------------------------
(***************************************************************************)
(* Typing                                                                  *)
(***************************************************************************)
LEMMA InitType == Init => TypeOK
<1> SUFFICES ASSUME Init PROVE TypeOK
  OBVIOUS
<1>1. plan.prior \in [Task -> SuccessLike \cup {NoStatus}]
  BY PlanFields DEF Init
<1>2. status \in [Task -> Status \cup {NoStatus}]
  BY <1>1, StatusSets DEF Init
<1>3. reason \in [Task -> Reasons]
  BY StatusSets DEF Init
<1>4. events \in [Task -> Seq(Event)]
  <2>1. ASSUME NEW t \in Task, plan.prior[t] # NoStatus
        PROVE  <<[type |-> "task_complete", status |-> plan.prior[t]]>> \in Seq(Event)
    <3>1. plan.prior[t] \in Status /\ "task_complete" \in EventTypes
      BY <1>1, <2>1, StatusSets DEF EventTypes
    <3> QED BY <3>1, EventFields
  <2> DEFINE First(t) == IF plan.prior[t] = NoStatus THEN <<>>
                         ELSE <<[type |-> "task_complete", status |-> plan.prior[t]]>>
  <2>2. \A t \in Task : First(t) \in Seq(Event)
    BY <2>1
  <2>3. events = [t \in Task |-> First(t)]
    BY Zenon DEF Init
  <2> HIDE DEF First
  <2> QED BY <2>2, <2>3
<1>5. outcome \in [Task -> Outcomes \cup {NoOutcome}]
  BY DEF Init
<1>6. /\ plan \in Plans /\ visit \in SUBSET Task /\ pending \in SUBSET Task
      /\ running \in SUBSET Task /\ batch \in SUBSET Task /\ ready \in Seq(Task)
  <2>1. /\ plan \in Plans /\ visit = Task /\ running = {} /\ batch = {}
        /\ pending = {t \in Task : plan.prior[t] = NoStatus} /\ ready = <<>>
    BY Zenon DEF Init
  <2> QED BY <2>1
<1>7. /\ pc \in Phase /\ back \in {"loop", "dispatch", "collect"}
      /\ stop \in {"none", "fail_fast", "breaker"}
      /\ verdict \in {"none", "success", "failure"}
      /\ exceeded \in BOOLEAN /\ cancelled \in BOOLEAN
      /\ requeued \in Nat /\ spent \in Nat /\ failures \in Nat
  BY DEF Init, Phase
<1> QED BY <1>2, <1>3, <1>4, <1>5, <1>6, <1>7 DEF TypeOK

(***************************************************************************)
(* The pieces that several actions are built from.                         *)
(***************************************************************************)
LEMMA DecideType ==
  ASSUME TypeOK, NEW t \in Task, NEW st \in Status, NEW why \in Reasons,
         Decide(t, st, why)
  PROVE  /\ status' \in [Task -> Status \cup {NoStatus}]
         /\ reason' \in [Task -> Reasons]
BY DEF TypeOK, Decide

LEMMA EmitType ==
  ASSUME TypeOK, NEW t \in Task, NEW type \in EventTypes,
         NEW st \in Status \cup {NoStatus}, Emit(t, type, st)
  PROVE  events' \in [Task -> Seq(Event)]
<1>1. [type |-> type, status |-> st] \in Event
  BY EventFields
<1>2. events \in [Task -> Seq(Event)]
  BY DEF TypeOK
<1>3. Append(events[t], [type |-> type, status |-> st]) \in Seq(Event)
  BY <1>1, <1>2
<1>4. events' = [events EXCEPT ![t] = Append(events[t], [type |-> type, status |-> st])]
  BY Zenon DEF Emit
<1> QED BY <1>2, <1>3, <1>4

LEMMA DecideSomeType ==
  ASSUME TypeOK, NEW decided \in SUBSET Task, NEW told \in SUBSET Task,
         NEW type \in EventTypes, NEW st \in Status, NEW why \in Reasons,
         DecideSome(decided, told, type, st, why)
  PROVE  /\ status' \in [Task -> Status \cup {NoStatus}]
         /\ reason' \in [Task -> Reasons]
         /\ events' \in [Task -> Seq(Event)]
<1> DEFINE e == [type |-> type, status |-> st]
           After(t) == IF t \in told THEN Append(events[t], e) ELSE events[t]
<1>1. e \in Event
  BY EventFields
<1>2. \A t \in Task : After(t) \in Seq(Event)
  <2>1. events \in [Task -> Seq(Event)]
    BY DEF TypeOK
  <2> HIDE DEF e
  <2> QED BY <1>1, <2>1
<1>3. events' = [t \in Task |-> After(t)]
  BY Zenon DEF DecideSome
<1>4. events' \in [Task -> Seq(Event)]
  <2> HIDE DEF After
  <2> QED BY <1>2, <1>3
<1>5. /\ status' = [t \in Task |-> IF t \in decided THEN st ELSE status[t]]
      /\ reason' = [t \in Task |-> IF t \in decided THEN why ELSE reason[t]]
  BY Zenon DEF DecideSome
<1> QED BY <1>4, <1>5 DEF TypeOK

LEMMA SkipAllType ==
  ASSUME TypeOK, NEW S \in SUBSET Task, NEW why \in Reasons, SkipAll(S, why)
  PROVE  /\ status' \in [Task -> Status \cup {NoStatus}]
         /\ reason' \in [Task -> Reasons]
         /\ events' \in [Task -> Seq(Event)]
<1>1. "task_skip" \in EventTypes /\ "skipped" \in Status
  BY DEF EventTypes, Status
<1> QED BY <1>1, DecideSomeType DEF SkipAll

LEMMA CallType ==
  ASSUME NEW t \in Task, NEW where \in {"loop", "dispatch", "collect"},
         CallHandleDependents(t, where)
  PROVE  /\ visit' \in SUBSET Task
         /\ back' \in {"loop", "dispatch", "collect"}
         /\ pc' \in {"loop", "dispatch", "collect", "visit"}
BY DEF CallHandleDependents, Dependents

LEMMA ApplyType ==
  ASSUME TypeOK, NEW st, NEW cost \in Nat, ApplyCompletion(st, cost)
  PROVE  /\ spent' \in Nat
         /\ exceeded' \in BOOLEAN
         /\ failures' \in Nat
         /\ stop' \in {"none", "fail_fast", "breaker"}
<1>1. spent \in Nat /\ exceeded \in BOOLEAN /\ failures \in Nat
      /\ stop \in {"none", "fail_fast", "breaker"}
  BY DEF TypeOK
<1>2. spent' \in Nat
  <2>1. spent' = spent + cost
    BY Zenon DEF ApplyCompletion
  <2> QED BY <1>1, <2>1
<1>3. exceeded' \in BOOLEAN
  BY <1>1, Zenon DEF ApplyCompletion
<1>4. /\ failures' = 0 \/ failures' = failures + 1 \/ failures' = failures
      /\ stop' \in {"breaker", "fail_fast", stop}
  BY Zenon DEF ApplyCompletion
<1> QED BY <1>1, <1>2, <1>3, <1>4

LEMMA TakeType ==
  ASSUME TypeOK, NEW t \in Task, Take(t)
  PROVE  /\ ready' \in Seq(Task)
         /\ pending' \in SUBSET Task
         /\ requeued' \in Nat
         /\ pc = "dispatch"
<1>1. ready \in Seq(Task) /\ pending \in SUBSET Task
  BY DEF TypeOK
<1>2. /\ ready # <<>> /\ pc = "dispatch" /\ ready' = Tail(ready)
      /\ pending' = pending \ {t} /\ requeued' = 0
  BY DEF Take, MayDispatch
<1> QED BY <1>1, <1>2

LEMMA SkipTaskType ==
  ASSUME TypeOK, NEW t \in Task, NEW why \in {"condition", "dependency"},
         MakeReady(t) \/ SkipTask(t, why) \/ LeaveAlone
  PROVE  /\ pending' \in SUBSET Task
         /\ ready' \in Seq(Task)
         /\ status' \in [Task -> Status \cup {NoStatus}]
         /\ reason' \in [Task -> Reasons]
         /\ events' \in [Task -> Seq(Event)]
<1>1. CASE MakeReady(t)
  <2>1. ready \in Seq(Task)
    BY DEF TypeOK
  <2>2. ready' = Append(ready, t)
        /\ UNCHANGED <<pending, status, reason, events>>
    BY <1>1 DEF MakeReady
  <2>3. ready' \in Seq(Task)
    BY <2>1, <2>2
  <2> QED BY <2>2, <2>3 DEF TypeOK
<1>2. CASE SkipTask(t, why)
  <2>1. "task_skip" \in EventTypes /\ why \in Reasons
    BY DEF EventTypes, Reasons
  <2>2. /\ status' \in [Task -> Status \cup {NoStatus}]
        /\ reason' \in [Task -> Reasons]
    BY <1>2, <2>1, DecideType, StatusSets DEF SkipTask
  <2>3. events' \in [Task -> Seq(Event)]
    BY <1>2, <2>1, EmitType, StatusSets DEF SkipTask
  <2> QED BY <1>2, <2>2, <2>3 DEF SkipTask, TypeOK
<1>3. CASE LeaveAlone
  BY <1>3 DEF LeaveAlone, TypeOK
<1> QED BY <1>1, <1>2, <1>3

\* A future that wait() has returned is done, and is still in running.
BatchFinished == \A t \in batch : t \in running /\ outcome[t] # NoOutcome

(***************************************************************************)
(* A step that is cut short gives results to some tasks and writes events  *)
(* of some of these, and then the run is broken off.                       *)
(***************************************************************************)
CutResult(decided, told, type, st, why) ==
  /\ decided \in SUBSET Task /\ told \in SUBSET decided
  /\ type \in {"task_skip", "task_complete"} /\ st \in Status /\ why \in Reasons
  /\ type = "task_skip" => st = "skipped"
  /\ DecideSome(decided, told, type, st, why)

CutEnds == /\ pc \in {"init", "visit", "dispatch", "collect", "loop", "drain"}
           /\ pc' \in {"crashing", "interrupted"}
           /\ UNCHANGED <<plan, visit, back, outcome, cancelled, verdict>>
           /\ UNCHANGED <<stop, exceeded, failures>>
CutKeeps == /\ pending' \in SUBSET pending /\ running' \in SUBSET running
            /\ pending' \in SUBSET Task /\ running' \in SUBSET Task
            /\ batch' \in SUBSET batch /\ batch' \in SUBSET Task
            /\ running \ running' = batch \ batch'
            /\ requeued' \in Nat /\ spent' \in Nat
            /\ ready' \in Seq(Task)

LEMMA BatchOutcome ==
  ASSUME NEW t \in Task, BatchFinished, TypeOK, t \in batch, outcome[t].status # "raised"
  PROVE  /\ t \in running /\ outcome[t] \in Outcomes
         /\ outcome[t].status \in Status /\ outcome[t].cost \in 0 .. MaxCost
<1>1. outcome[t] \in Outcomes /\ t \in running
  BY DEF BatchFinished, TypeOK
<1> QED BY <1>1, CostAssumption, OutcomeFields, StatusSets

LEMMA CutLeaves == TypeOK /\ BatchFinished /\ CutShort => CutEnds /\ CutKeeps
<1> SUFFICES ASSUME TypeOK, BatchFinished, CutShort PROVE CutEnds /\ CutKeeps
  OBVIOUS
<1>0. /\ pc' \in {"crashing", "interrupted"}
      /\ UNCHANGED <<plan, visit, back, outcome, cancelled, verdict>>
  BY DEF CutShort
<1>1. /\ pending \in SUBSET Task /\ running \in SUBSET Task /\ batch \in SUBSET Task
      /\ requeued \in Nat /\ spent \in Nat /\ ready \in Seq(Task) /\ MaxCost \in Nat
  BY CostAssumption DEF TypeOK
<1> DEFINE Goal == /\ pc \in {"init", "visit", "dispatch", "collect", "loop", "drain"}
                   /\ UNCHANGED <<stop, exceeded, failures>> /\ CutKeeps
<1>2. ASSUME NEW t \in Task, CutVisit(t) PROVE Goal
  BY <1>1, <1>2 DEF CutVisit, accounts, CutKeeps
<1>3. ASSUME NEW t \in Task, CutLookup(t) PROVE Goal
  <2>1. /\ ready' \in Seq(Task) /\ pending' = pending \ {t} /\ requeued' \in Nat
        /\ pc = "dispatch"
    BY <1>3, TakeType DEF CutLookup, Take
  <2>2. spent' \in Nat
    <3>1. PICK o \in Outcomes : spent' = spent + o.cost
      BY <1>3 DEF CutLookup
    <3> QED BY <1>1, <3>1, OutcomeFields
  <2>3. UNCHANGED <<running, batch, stop, exceeded, failures>>
    BY <1>3 DEF CutLookup
  <2> QED BY <1>1, <2>1, <2>2, <2>3 DEF CutKeeps
<1>4. ASSUME NEW t \in Task, CutCollect(t) PROVE Goal
  <2>1. t \in running /\ t \in batch /\ outcome[t].cost \in 0 .. MaxCost
    BY <1>4, BatchOutcome DEF CutCollect
  <2>2. spent' = spent \/ spent' = spent + outcome[t].cost
    BY <1>4 DEF CutCollect
  <2>3. /\ running' = running \ {t} /\ batch' = batch \ {t} /\ pc = "collect"
        /\ UNCHANGED <<requeued, pending, ready, stop, exceeded, failures>>
    BY <1>4 DEF CutCollect
  <2> QED BY <1>1, <2>1, <2>2, <2>3 DEF CutKeeps
<1>5. ASSUME CutCancel PROVE Goal
  BY <1>1, <1>5 DEF CutCancel, accounts, CutKeeps
<1>6. ASSUME CutDrain PROVE Goal
  BY <1>1, <1>6 DEF CutDrain, accounts, CutKeeps
<1> QED BY <1>0, <1>2, <1>3, <1>4, <1>5, <1>6 DEF CutShort, CutEnds

LEMMA CutResults ==
  TypeOK /\ BatchFinished /\ CutShort =>
    \E decided, told, type, st, why : CutResult(decided, told, type, st, why)
<1> SUFFICES ASSUME TypeOK, BatchFinished, CutShort
             PROVE  \E decided, told, type, st, why : CutResult(decided, told, type, st, why)
  OBVIOUS
<1> USE DEF CutResult
<1>1. ASSUME NEW t \in Task, CutVisit(t)
      PROVE  \E decided, told, type, st, why : CutResult(decided, told, type, st, why)
  <2>1. PICK decided, told :
          decided \in SUBSET {t} /\ told \in SUBSET decided /\
          DecideSome(decided, told, "task_skip", "skipped",
                     IF Conditional(t) THEN "condition" ELSE "dependency")
    BY <1>1 DEF CutVisit
  <2>2. (IF Conditional(t) THEN "condition" ELSE "dependency") \in Reasons
    BY DEF Reasons
  <2>3. CutResult(decided, told, "task_skip", "skipped",
                  IF Conditional(t) THEN "condition" ELSE "dependency")
    BY <2>1, <2>2, StatusSets
  <2> QED BY <2>3
<1>2. ASSUME NEW t \in Task, CutLookup(t)
      PROVE  \E decided, told, type, st, why : CutResult(decided, told, type, st, why)
  <2>1. PICK o \in Outcomes, told \in SUBSET {t} :
          /\ o.status \in {"success", "failed", "soft_failed"}
          /\ DecideSome({t}, told, "task_complete", o.status, "cache")
    BY <1>2 DEF CutLookup
  <2>2. CutResult({t}, told, "task_complete", o.status, "cache")
    BY <2>1 DEF Status, Reasons
  <2> QED BY <2>2
<1>3. ASSUME NEW t \in Task, CutCollect(t)
      PROVE  \E decided, told, type, st, why : CutResult(decided, told, type, st, why)
  <2>1. PICK decided, told :
          decided \in SUBSET {t} /\ told \in SUBSET decided /\
          DecideSome(decided, told, "task_complete", outcome[t].status, "executed")
    BY <1>3 DEF CutCollect
  <2>2. outcome[t].status \in Status
    BY <1>3, BatchOutcome DEF CutCollect
  <2>3. CutResult(decided, told, "task_complete", outcome[t].status, "executed")
    BY <2>1, <2>2 DEF Reasons
  <2> QED BY <2>3
<1>4. CASE CutCancel
  <2>1. PICK decided, told :
          decided \in SUBSET pending /\ told \in SUBSET decided /\
          DecideSome(decided, told, "task_skip", "skipped", "cancelled")
    BY <1>4 DEF CutCancel
  <2>2. CutResult(decided, told, "task_skip", "skipped", "cancelled")
    BY <2>1, StatusSets DEF TypeOK, Reasons
  <2> QED BY <2>2
<1>5. CASE CutDrain
  <2>1. PICK gone, decided, told :
          gone \in SUBSET pending /\ decided \in SUBSET gone /\ told \in SUBSET decided /\
          DecideSome(decided, told, "task_skip", "skipped", IF stop # "none" THEN stop ELSE "budget")
    BY <1>5 DEF CutDrain
  <2>2. (IF stop # "none" THEN stop ELSE "budget") \in Reasons
    BY DEF TypeOK, Reasons
  <2>3. CutResult(decided, told, "task_skip", "skipped", IF stop # "none" THEN stop ELSE "budget")
    BY <2>1, <2>2, StatusSets DEF TypeOK
  <2> QED BY <2>3
<1> QED BY <1>1, <1>2, <1>3, <1>4, <1>5 DEF CutShort

LEMMA NextType == TypeOK /\ BatchFinished /\ [Next]_vars => TypeOK'
<1> SUFFICES ASSUME TypeOK, BatchFinished, [Next]_vars PROVE TypeOK'
  OBVIOUS
<1>1. ASSUME NEW t \in Task, InitialReady(t) PROVE TypeOK'
  <2>1. MakeReady(t) \/ SkipTask(t, "condition") \/ LeaveAlone
    BY <1>1 DEF InitialReady
  <2>2. visit' \in SUBSET Task /\ pc' \in Phase
    BY <1>1 DEF InitialReady, TypeOK, Phase
  <2> QED BY <1>1, <2>1, <2>2, SkipTaskType DEF InitialReady, TypeOK, accounts
<1>2. ASSUME NEW t \in Task, HandleDependent(t) PROVE TypeOK'
  <2>1. \/ MakeReady(t) \/ SkipTask(t, "condition") \/ SkipTask(t, "dependency")
        \/ LeaveAlone
    BY <1>2 DEF HandleDependent
  <2>2. visit' \in SUBSET Task /\ pc' \in Phase
    BY <1>2 DEF HandleDependent, TypeOK, Phase
  <2> QED BY <1>2, <2>1, <2>2, SkipTaskType DEF HandleDependent, TypeOK, accounts
<1>3. CASE LoopTop
  BY <1>3 DEF LoopTop, TypeOK, Phase, accounts
<1>4. CASE CancelExit
  BY <1>4, SkipAllType DEF CancelExit, TypeOK, Phase, accounts, Reasons
<1>5. CASE Requeue
  <2>1. ready \in Seq(Task) /\ ready # <<>>
    BY <1>5 DEF TypeOK, Requeue, MayDispatch
  <2>2. /\ ready' = Append(Tail(ready), Head(ready))
        /\ requeued' = requeued + 1 /\ pc' \in {"wait", "dispatch"}
    BY <1>5 DEF Requeue
  <2>3. Tail(ready) \in Seq(Task) /\ Head(ready) \in Task
    BY <2>1
  <2>4. ready' \in Seq(Task)
    BY <2>2, <2>3
  <2>5. requeued' \in Nat /\ pc' \in Phase
    BY <2>2 DEF TypeOK, Phase
  <2> QED BY <1>5, <2>4, <2>5 DEF Requeue, TypeOK, accounts
<1>6. CASE StopDispatch
  <2>1. pc' \in Phase
    BY <1>6 DEF StopDispatch, Phase
  <2>2. /\ UNCHANGED <<plan, visit, back, requeued, pending, ready, running, batch>>
        /\ UNCHANGED <<outcome, status, reason, accounts, cancelled, verdict, events>>
    BY <1>6 DEF StopDispatch
  <2> QED BY <2>1, <2>2 DEF TypeOK, accounts
<1>7. CASE WaitReturns
  <2>1. pc' \in Phase /\ batch' \in SUBSET Task
    BY <1>7 DEF WaitReturns, Phase, TypeOK
  <2>2. /\ UNCHANGED <<plan, visit, back, requeued, pending, ready, running, outcome>>
        /\ UNCHANGED <<status, reason, accounts, cancelled, verdict, events>>
    BY <1>7 DEF WaitReturns
  <2> QED BY <2>1, <2>2 DEF TypeOK, accounts
<1>8. ASSUME NEW t \in Task, CacheHit(t) PROVE TypeOK'
  <2>1. PICK o \in Outcomes :
          /\ o.status \in {"success", "failed", "soft_failed"}
          /\ Decide(t, o.status, "cache")
          /\ Emit(t, "task_complete", o.status)
          /\ ApplyCompletion(o.status, o.cost)
    BY <1>8 DEF CacheHit
  <2>2. /\ o.status \in Status /\ o.cost \in Nat
        /\ "cache" \in Reasons /\ "task_complete" \in EventTypes
    BY <2>1, OutcomeFields DEF Status, Reasons, EventTypes
  <2>3. /\ status' \in [Task -> Status \cup {NoStatus}]
        /\ reason' \in [Task -> Reasons]
        /\ events' \in [Task -> Seq(Event)]
    BY <2>1, <2>2, DecideType, EmitType
  <2>4. /\ spent' \in Nat /\ exceeded' \in BOOLEAN /\ failures' \in Nat
        /\ stop' \in {"none", "fail_fast", "breaker"}
    BY <2>1, <2>2, ApplyType
  <2>5. /\ visit' \in SUBSET Task /\ back' \in {"loop", "dispatch", "collect"}
        /\ pc' \in Phase
    BY <1>8, CallType DEF CacheHit, Phase
  <2>6. /\ ready' \in Seq(Task) /\ pending' \in SUBSET Task /\ requeued' \in Nat
    BY <1>8, TakeType DEF CacheHit
  <2> QED BY <1>8, <2>3, <2>4, <2>5, <2>6 DEF CacheHit, TypeOK
<1>9. ASSUME NEW t \in Task, ApprovalDenied(t) \/ PolicyBlock(t) PROVE TypeOK'
  <2>1. /\ {"denied", "policy"} \subseteq Reasons /\ "task_start" \in EventTypes
        /\ {"skipped", "failed"} \subseteq Status
    BY DEF Reasons, EventTypes, Status
  <2>2. /\ status' \in [Task -> Status \cup {NoStatus}]
        /\ reason' \in [Task -> Reasons]
        /\ events' \in [Task -> Seq(Event)]
    BY <1>9, <2>1, DecideType, EmitType DEF ApprovalDenied, PolicyBlock
  <2>3. /\ visit' \in SUBSET Task /\ back' \in {"loop", "dispatch", "collect"}
        /\ pc' \in Phase
    BY <1>9, CallType DEF ApprovalDenied, PolicyBlock, Phase
  <2>4. /\ ready' \in Seq(Task) /\ pending' \in SUBSET Task /\ requeued' \in Nat
    BY <1>9, TakeType DEF ApprovalDenied, PolicyBlock
  <2> QED BY <1>9, <2>2, <2>3, <2>4 DEF ApprovalDenied, PolicyBlock, TypeOK, accounts
<1>10. ASSUME NEW t \in Task, Submit(t) \/ AbandonedSubmit(t) PROVE TypeOK'
  <2>1. events' \in [Task -> Seq(Event)]
    <3>1. Emit(t, "task_start", NoStatus) \/ UNCHANGED events
      BY <1>10 DEF Submit, AbandonedSubmit
    <3>2. "task_start" \in EventTypes
      BY DEF EventTypes
    <3> QED BY <3>1, <3>2, EmitType DEF TypeOK
  <2>2. /\ ready' \in Seq(Task) /\ pending' \in SUBSET Task /\ requeued' \in Nat
    BY <1>10, TakeType DEF Submit, AbandonedSubmit
  <2>3. pc' \in Phase
    BY <1>10 DEF Submit, AbandonedSubmit, TypeOK, Phase
  <2> QED BY <1>10, <2>1, <2>2, <2>3 DEF Submit, AbandonedSubmit, TypeOK, accounts
<1>11. ASSUME NEW t \in Task, WorkerFinish(t) PROVE TypeOK'
  BY <1>11 DEF WorkerFinish, TypeOK, accounts, main
<1>12. ASSUME NEW t \in Task, Collect(t) PROVE TypeOK'
  <2>1. /\ outcome[t].status \in Status /\ outcome[t].cost \in Nat
        /\ "executed" \in Reasons /\ "task_complete" \in EventTypes
    <3>1. outcome[t] \in Outcomes /\ outcome[t].status # "raised"
      BY <1>12 DEF Collect, BatchFinished, TypeOK
    <3> QED BY <3>1, OutcomeFields, StatusSets DEF Reasons, EventTypes
  <2>2. PICK st \in Status : /\ Decide(t, st, "executed")
                             /\ ApplyCompletion(st, outcome[t].cost)
    BY <1>12, <2>1, StatusSets DEF Collect
  <2>3. /\ status' \in [Task -> Status \cup {NoStatus}]
        /\ reason' \in [Task -> Reasons]
        /\ events' \in [Task -> Seq(Event)]
    BY <1>12, <2>1, <2>2, DecideType, EmitType DEF Collect
  <2>4. /\ spent' \in Nat /\ exceeded' \in BOOLEAN /\ failures' \in Nat
        /\ stop' \in {"none", "fail_fast", "breaker"}
    BY <2>1, <2>2, ApplyType
  <2>5. /\ visit' \in SUBSET Task /\ back' \in {"loop", "dispatch", "collect"}
        /\ pc' \in Phase
    BY <1>12, CallType DEF Collect, Phase
  <2> QED BY <1>12, <2>3, <2>4, <2>5 DEF Collect, TypeOK
<1>13. ASSUME NEW t \in Task, CollectRaises(t) PROVE TypeOK'
  BY <1>13 DEF CollectRaises, TypeOK, Phase, accounts
<1>14. CASE Drain
  <2>1. CASE pending # {} /\ (stop # "none" \/ exceeded)
    <3>1. (IF stop # "none" THEN stop ELSE "budget") \in Reasons
      BY DEF TypeOK, Reasons
    <3>2. SkipAll(pending, IF stop # "none" THEN stop ELSE "budget") /\ pending' = {}
      BY <1>14, <2>1 DEF Drain
    <3>3. pending \in SUBSET Task
      BY DEF TypeOK
    <3>4. /\ status' \in [Task -> Status \cup {NoStatus}]
          /\ reason' \in [Task -> Reasons]
          /\ events' \in [Task -> Seq(Event)]
      BY <3>1, <3>2, <3>3, SkipAllType
    <3> QED BY <1>14, <3>2, <3>4 DEF Drain, TypeOK, Phase, accounts
  <2>2. CASE pending = {} \/ (stop = "none" /\ ~exceeded)
    BY <1>14, <2>2 DEF Drain, TypeOK, Phase, accounts
  <2> QED BY <1>14, <2>1, <2>2 DEF Drain
<1>15. CASE Finish
  BY <1>15 DEF Finish, TypeOK, Phase, accounts
<1>16. CASE Crash \/ Interrupt
  BY <1>16 DEF Crash, Interrupt, Intact, TypeOK, Phase, accounts
<1>17. CASE HandleInterrupt
  BY <1>17, SkipAllType DEF HandleInterrupt, TypeOK, Phase, accounts, Reasons
<1>18. CASE CancelRequest
  BY <1>18 DEF CancelRequest, TypeOK, accounts, main
<1>19. CASE Terminating \/ UNCHANGED vars
  BY <1>19 DEF Terminating, vars, TypeOK
<1>20. CASE CutShort
  <2>1. /\ status' \in [Task -> Status \cup {NoStatus}] /\ reason' \in [Task -> Reasons]
        /\ events' \in [Task -> Seq(Event)]
    <3>1. PICK decided, told, type, st, why : CutResult(decided, told, type, st, why)
      BY <1>20, CutResults
    <3>2. type \in EventTypes
      BY <3>1 DEF CutResult, EventTypes
    <3> QED BY <3>1, <3>2, DecideSomeType DEF CutResult
  <2>2. /\ pc' \in Phase /\ pending' \in SUBSET Task /\ running' \in SUBSET Task
        /\ batch' \in SUBSET Task /\ requeued' \in Nat /\ spent' \in Nat
        /\ ready' \in Seq(Task)
    BY <1>20, CutLeaves DEF CutEnds, CutKeeps, Phase
  <2>3. UNCHANGED <<plan, visit, back, outcome, cancelled, verdict, stop, exceeded, failures>>
    BY <1>20, CutLeaves DEF CutEnds
  <2> QED BY <2>1, <2>2, <2>3 DEF TypeOK
<1> QED
  BY <1>1, <1>2, <1>3, <1>4, <1>5, <1>6, <1>7, <1>8, <1>9, <1>10, <1>11, <1>12,
     <1>13, <1>14, <1>15, <1>16, <1>17, <1>18, <1>19, <1>20
  DEF Next, MainStep, DispatchTask

LEMMA NextBatch == TypeOK /\ BatchFinished /\ [Next]_vars => BatchFinished'
<1> SUFFICES ASSUME TypeOK, BatchFinished, [Next]_vars PROVE BatchFinished'
  OBVIOUS
<1> USE DEF BatchFinished
<1>1. ASSUME NEW t \in Task, WorkerFinish(t) PROVE BatchFinished'
  <2>1. PICK o \in Outcomes : outcome' = [outcome EXCEPT ![t] = o]
    BY <1>1 DEF WorkerFinish
  <2>2. o # NoOutcome
    BY <2>1, OutcomeFields DEF NoOutcome, WorkerStatus, Status, NoStatus
  <2> QED BY <1>1, <2>1, <2>2 DEF WorkerFinish, main, TypeOK
<1>2. CASE WaitReturns
  BY <1>2 DEF WaitReturns, Working
<1>3. ASSUME NEW t \in Task, Collect(t) \/ CollectRaises(t) PROVE BatchFinished'
  BY <1>3 DEF Collect, CollectRaises
<1>4. ASSUME NEW t \in Task, DispatchTask(t) \/ AbandonedSubmit(t) PROVE BatchFinished'
  BY <1>4 DEF DispatchTask, CacheHit, ApprovalDenied, PolicyBlock, Submit, AbandonedSubmit
<1>5. ASSUME NEW t \in Task, InitialReady(t) \/ HandleDependent(t) PROVE BatchFinished'
  BY <1>5 DEF InitialReady, HandleDependent
<1>6. CASE LoopTop \/ CancelExit \/ Requeue \/ StopDispatch \/ Drain \/ Finish
  BY <1>6 DEF LoopTop, CancelExit, Requeue, StopDispatch, Drain, Finish
<1>7. CASE Crash \/ HandleInterrupt \/ Interrupt \/ CancelRequest
  BY <1>7 DEF Crash, HandleInterrupt, Interrupt, CancelRequest, main
<1>8. CASE Terminating \/ UNCHANGED vars
  BY <1>8 DEF Terminating, vars
<1>9. CASE CutShort
  BY <1>9, CutLeaves DEF CutEnds, CutKeeps
<1> QED BY <1>1, <1>2, <1>3, <1>4, <1>5, <1>6, <1>7, <1>8, <1>9 DEF Next, MainStep

\* The state of run_plan is well typed in every run of every plan.
THEOREM TypeCorrect == Spec => []TypeOK
<1>1. Init => TypeOK /\ BatchFinished
  BY InitType DEF Init, BatchFinished
<1>2. TypeOK /\ BatchFinished /\ [Next]_vars => (TypeOK /\ BatchFinished)'
  BY NextType, NextBatch
<1> QED BY <1>1, <1>2, PTL DEF Spec

-----------------------------------------------------------------------------
(***************************************************************************)
(* Accounting: who holds a task                                            *)
(***************************************************************************)
Typed == TypeOK /\ BatchFinished

LEMMA TypedInvariant == Spec => []Typed
<1>1. Init => Typed
  BY InitType DEF Init, BatchFinished, Typed
<1>2. Typed /\ [Next]_vars => Typed'
  BY NextType, NextBatch DEF Typed
<1> QED BY <1>1, <1>2, PTL DEF Spec

\* How a step may change the results: the tasks it decides were open, and
\* what it takes out of pending or running it decides, runs or loses.
DecidesOnly(S) ==
  /\ \A t \in Task \ S : status'[t] = status[t] /\ reason'[t] = reason[t]
  /\ \A t \in S : status'[t] \in Status

LEMMA DecideOnly ==
  ASSUME TypeOK, NEW t \in Task, NEW st \in Status, NEW why, Decide(t, st, why)
  PROVE  DecidesOnly({t}) /\ reason'[t] = why
BY DEF Decide, TypeOK, DecidesOnly

LEMMA SkipAllOnly ==
  ASSUME TypeOK, NEW S \in SUBSET Task, NEW why, SkipAll(S, why)
  PROVE  DecidesOnly(S) /\ \A t \in S : reason'[t] = why /\ status'[t] = "skipped"
<1>1. /\ status' = [t \in Task |-> IF t \in S THEN "skipped" ELSE status[t]]
      /\ reason' = [t \in Task |-> IF t \in S THEN why ELSE reason[t]]
  BY Zenon DEF SkipAll, DecideSome
<1> QED BY <1>1 DEF DecidesOnly, Status

LEMMA CutOnly ==
  ASSUME TypeOK, NEW decided, NEW told, NEW type, NEW st, NEW why,
         CutResult(decided, told, type, st, why)
  PROVE  /\ DecidesOnly(decided)
         /\ \A t \in decided : status'[t] = st /\ reason'[t] = why
         /\ \A t \in told : events'[t] = Append(events[t], [type |-> type, status |-> st])
         /\ \A t \in Task \ told : events'[t] = events[t]
<1>1. /\ status' = [t \in Task |-> IF t \in decided THEN st ELSE status[t]]
      /\ reason' = [t \in Task |-> IF t \in decided THEN why ELSE reason[t]]
      /\ events' = [t \in Task |->
           IF t \in told THEN Append(events[t], [type |-> type, status |-> st]) ELSE events[t]]
  BY Zenon DEF CutResult, DecideSome
<1>2. decided \in SUBSET Task /\ told \in SUBSET decided /\ st \in Status
  BY DEF CutResult
<1>3. \A t \in told : events'[t] = Append(events[t], [type |-> type, status |-> st])
  BY <1>1, <1>2
<1>4. \A t \in Task \ told : events'[t] = events[t]
  BY <1>1
<1> QED BY <1>1, <1>2, <1>3, <1>4 DEF DecidesOnly

\* Where a step that is cut short leaves its tasks: some are out of pending, one
\* whose turn it was or what a stopped run still has, and all but one of these have
\* their event; or a worker's task is out of running; or tasks are cancelled and
\* wait still.
ItsTurn(gone) ==
  pc = "drain" \/ \E t \in Task : gone = {t} /\ (IsReady(t) \/ plan.deps[t] \subseteq Completed)
CutOut(gone, decided, told, type, st, why) ==
  /\ gone \in SUBSET pending /\ decided \in SUBSET gone
  /\ pending' = pending \ gone /\ UNCHANGED running
  /\ AtMostOne(gone \ told) /\ ItsTurn(gone)
  /\ CutResult(decided, told, type, st, why)
  /\ why \notin {"cancelled", "executed"}
CutBack(t, decided, told, st) ==
  /\ t \in running /\ pc = "collect" /\ decided \in SUBSET {t}
  /\ running' = running \ {t} /\ UNCHANGED pending
  /\ CutResult(decided, told, "task_complete", st, "executed")
CutOff(decided, told) ==
  /\ decided \in SUBSET pending /\ UNCHANGED <<pending, running>> /\ pc = "loop"
  /\ AtMostOne(decided \ told) /\ cancelled
  /\ CutResult(decided, told, "task_skip", "skipped", "cancelled")
CutCase == \/ \E gone, decided, told, type, st, why : CutOut(gone, decided, told, type, st, why)
           \/ \E t \in Task : \E decided, told, st : CutBack(t, decided, told, st)
           \/ \E decided, told : CutOff(decided, told)

LEMMA CutCases == Typed /\ CutShort => CutCase
<1> SUFFICES ASSUME Typed, CutShort PROVE CutCase
  OBVIOUS
<1>0. TypeOK /\ BatchFinished /\ pending \in SUBSET Task /\ ready \in Seq(Task)
  BY DEF Typed, TypeOK
<1>1. ASSUME NEW t \in Task, CutVisit(t) PROVE CutCase
  <2> DEFINE why == IF Conditional(t) THEN "condition" ELSE "dependency"
  <2>1. PICK decided, told :
          decided \in SUBSET {t} /\ told \in SUBSET decided /\
          DecideSome(decided, told, "task_skip", "skipped", why)
    BY <1>1 DEF CutVisit
  <2>2. CutResult(decided, told, "task_skip", "skipped", why)
    BY <2>1, StatusSets DEF CutResult, Reasons
  <2>3. t \in pending /\ pending' = pending \ {t} /\ UNCHANGED running /\ ItsTurn({t})
    BY <1>1 DEF CutVisit, ItsTurn
  <2>4. why \notin {"cancelled", "executed"} /\ AtMostOne({t} \ told)
    BY DEF AtMostOne
  <2> HIDE DEF why
  <2>5. CutOut({t}, decided, told, "task_skip", "skipped", why)
    BY <2>1, <2>2, <2>3, <2>4 DEF CutOut
  <2> QED BY <2>5 DEF CutCase
<1>2. ASSUME NEW t \in Task, CutLookup(t) PROVE CutCase
  <2>1. PICK o \in Outcomes, told \in SUBSET {t} :
          /\ o.status \in {"success", "failed", "soft_failed"}
          /\ DecideSome({t}, told, "task_complete", o.status, "cache")
    BY <1>2 DEF CutLookup
  <2>2. CutResult({t}, told, "task_complete", o.status, "cache")
    BY <2>1 DEF CutResult, Status, Reasons
  <2>3. t \in pending /\ pending' = pending \ {t} /\ UNCHANGED running
    BY <1>2 DEF CutLookup, Take
  <2>5. ItsTurn({t})
    BY <1>0, <1>2 DEF CutLookup, Take, MayDispatch, IsReady, ItsTurn
  <2>4. CutOut({t}, {t}, told, "task_complete", o.status, "cache")
    BY <2>2, <2>3, <2>5 DEF CutOut, AtMostOne
  <2> QED BY <2>4 DEF CutCase
<1>3. ASSUME NEW t \in Task, CutCollect(t) PROVE CutCase
  <2>1. PICK decided, told :
          decided \in SUBSET {t} /\ told \in SUBSET decided /\
          DecideSome(decided, told, "task_complete", outcome[t].status, "executed")
    BY <1>3 DEF CutCollect
  <2>2. outcome[t].status \in Status /\ t \in running
    BY <1>0, <1>3, BatchOutcome DEF CutCollect
  <2>3. CutResult(decided, told, "task_complete", outcome[t].status, "executed")
    BY <2>1, <2>2 DEF CutResult, Reasons
  <2>4. CutBack(t, decided, told, outcome[t].status)
    BY <1>3, <2>1, <2>2, <2>3 DEF CutBack, CutCollect
  <2> QED BY <2>4 DEF CutCase
<1>4. CASE CutCancel
  <2>1. PICK decided, told :
          /\ decided \in SUBSET pending /\ told \in SUBSET decided /\ AtMostOne(decided \ told)
          /\ DecideSome(decided, told, "task_skip", "skipped", "cancelled")
    BY <1>4 DEF CutCancel
  <2>2. CutResult(decided, told, "task_skip", "skipped", "cancelled")
    BY <1>0, <2>1, StatusSets DEF CutResult, Reasons
  <2>3. CutOff(decided, told)
    BY <1>4, <2>1, <2>2 DEF CutOff, CutCancel
  <2> QED BY <2>3 DEF CutCase
<1>5. CASE CutDrain
  <2> DEFINE why == IF stop # "none" THEN stop ELSE "budget"
  <2>1. PICK gone, decided, told :
          /\ gone \in SUBSET pending /\ decided \in SUBSET gone /\ told \in SUBSET decided /\ AtMostOne(gone \ told)
          /\ pending' = pending \ gone
          /\ DecideSome(decided, told, "task_skip", "skipped", why)
    BY <1>5 DEF CutDrain
  <2>2. why \in {"fail_fast", "breaker", "budget"}
    BY <1>0 DEF TypeOK
  <2>3. UNCHANGED running /\ ItsTurn(gone)
    BY <1>5 DEF CutDrain, ItsTurn
  <2> HIDE DEF why
  <2>4. CutResult(decided, told, "task_skip", "skipped", why)
    BY <1>0, <2>1, <2>2, StatusSets DEF CutResult, Reasons
  <2>5. CutOut(gone, decided, told, "task_skip", "skipped", why)
    BY <2>1, <2>2, <2>3, <2>4 DEF CutOut
  <2> QED BY <2>5 DEF CutCase
<1> QED BY <1>1, <1>2, <1>3, <1>4, <1>5 DEF CutShort

\* One step hands tasks on in one of these ways; the last three end an open run.
Hold == UNCHANGED <<pending, running, status, reason>>
Take1(t) == /\ t \in pending /\ pending' = pending \ {t} /\ Intact
            /\ running' = running \cup {t} /\ UNCHANGED <<status, reason>>
Settle1(t) == /\ t \in pending /\ pending' = pending \ {t} /\ Intact
              /\ UNCHANGED running /\ DecidesOnly({t})
Collect1(t) == /\ t \in running /\ running' = running \ {t}
               /\ UNCHANGED pending /\ DecidesOnly({t})
SkipRest1 == /\ pending' = {} /\ UNCHANGED running /\ DecidesOnly(pending)
             /\ \A t \in pending : status'[t] = "skipped" /\ (Intact \/ reason'[t] = "interrupted")
Lose1(t) == /\ \/ t \in running /\ running' = running \ {t} /\ UNCHANGED pending
               \/ t \in pending /\ pending' = pending \ {t} /\ UNCHANGED running
            /\ Intact /\ ~Intact' /\ UNCHANGED <<status, reason>>
SkipSome1(gone, decided) ==
  /\ gone \in SUBSET pending /\ decided \in SUBSET gone /\ AtMostOne(gone \ decided)
  /\ pending' = pending \ gone /\ UNCHANGED running /\ DecidesOnly(decided)
  /\ ItsTurn(gone) /\ Intact /\ ~Intact'
Cancel1(decided) ==
  /\ decided \in SUBSET pending /\ UNCHANGED <<pending, running>> /\ DecidesOnly(decided)
  /\ \A t \in decided : status'[t] = "skipped" /\ reason'[t] = "cancelled"
  /\ Intact /\ ~Intact'
Handover == \/ Hold \/ SkipRest1
            \/ \E t \in Task : Take1(t) \/ Settle1(t) \/ Collect1(t) \/ Lose1(t)
            \/ \E gone, decided : SkipSome1(gone, decided)
            \/ \E decided : Cancel1(decided)

LEMMA CutBreaks ==
  ASSUME Typed, CutShort
  PROVE  /\ TypeOK /\ Intact /\ ~Intact'
         /\ status \in [Task -> Status \cup {NoStatus}] /\ reason \in [Task -> Reasons]
BY CutLeaves DEF Typed, TypeOK, CutEnds, Intact

LEMMA CutOutHands ==
  ASSUME Typed, CutShort, NEW gone, NEW decided, NEW told, NEW type, NEW st, NEW why,
         CutOut(gone, decided, told, type, st, why)
  PROVE  SkipSome1(gone, decided)
<1>1. DecidesOnly(decided) /\ told \subseteq decided
  BY CutBreaks, CutOnly DEF CutOut, CutResult
<1>2. AtMostOne(gone \ decided)
  BY <1>1 DEF CutOut, AtMostOne
<1> QED BY <1>1, <1>2, CutBreaks DEF CutOut, SkipSome1

LEMMA CutBackHands ==
  ASSUME Typed, CutShort, NEW t \in Task, NEW decided, NEW told, NEW st,
         CutBack(t, decided, told, st)
  PROVE  Collect1(t) \/ Lose1(t)
<1>0. /\ TypeOK /\ Intact /\ ~Intact'
      /\ status \in [Task -> Status \cup {NoStatus}] /\ reason \in [Task -> Reasons]
  BY CutBreaks
<1>1. DecidesOnly(decided)
  BY <1>0, CutOnly DEF CutBack
<1>2. CASE decided = {t}
  BY <1>1, <1>2 DEF CutBack, Collect1
<1>3. CASE decided = {}
  <2>1. CutResult({}, told, "task_complete", st, "executed")
    BY <1>3 DEF CutBack
  <2>2. /\ status' = [u \in Task |-> IF u \in {} THEN st ELSE status[u]]
        /\ reason' = [u \in Task |-> IF u \in {} THEN "executed" ELSE reason[u]]
    BY <2>1, Zenon DEF CutResult, DecideSome
  <2>3. status' = status /\ reason' = reason
    BY <1>0, <2>2
  <2> QED BY <1>0, <2>3 DEF CutBack, Lose1
<1> QED BY <1>2, <1>3 DEF CutBack

LEMMA CutOffHands ==
  ASSUME Typed, CutShort, NEW decided, NEW told, CutOff(decided, told)
  PROVE  Cancel1(decided)
<1>0. TypeOK /\ Intact /\ ~Intact'
  BY CutBreaks
<1>1. CutResult(decided, told, "task_skip", "skipped", "cancelled")
  BY DEF CutOff
<1>2. DecidesOnly(decided)
  BY <1>0, <1>1, CutOnly
<1>3. /\ status' = [t \in Task |-> IF t \in decided THEN "skipped" ELSE status[t]]
      /\ reason' = [t \in Task |-> IF t \in decided THEN "cancelled" ELSE reason[t]]
  BY <1>1, Zenon DEF CutResult, DecideSome
<1>4. decided \in SUBSET Task
  BY <1>1 DEF CutResult
<1>5. \A t \in decided : status'[t] = "skipped" /\ reason'[t] = "cancelled"
  BY <1>3, <1>4
<1> QED BY <1>0, <1>2, <1>5 DEF CutOff, Cancel1

LEMMA CutHandsOver == Typed /\ CutShort => Handover
BY CutCases, CutOutHands, CutBackHands, CutOffHands DEF CutCase, Handover

LEMMA StepHandsOver == Typed /\ [Next]_vars => Handover
<1> SUFFICES ASSUME Typed, [Next]_vars PROVE Handover
  OBVIOUS
<1> USE DEF Typed
<1>1. ASSUME NEW t \in Task, InitialReady(t) \/ HandleDependent(t) PROVE Handover
  <2>1. running' = running /\ Intact
    BY <1>1 DEF InitialReady, HandleDependent, Intact
  <2>2. \/ UNCHANGED <<pending, status, reason>>
        \/ \E why \in Reasons : t \in pending /\ SkipTask(t, why)
    BY <1>1 DEF InitialReady, HandleDependent, MakeReady, LeaveAlone, Reasons
  <2>3. ASSUME NEW why \in Reasons, t \in pending, SkipTask(t, why)
        PROVE  Settle1(t)
    BY <2>1, <2>3, DecideOnly, StatusSets DEF SkipTask, Settle1
  <2> QED BY <2>1, <2>2, <2>3 DEF Hold, Handover
<1>2. ASSUME NEW t \in Task, CacheHit(t) PROVE Handover
  <2>1. PICK o \in Outcomes : /\ o.status \in {"success", "failed", "soft_failed"}
                              /\ Decide(t, o.status, "cache")
    BY <1>2 DEF CacheHit
  <2>2. DecidesOnly({t})
    BY <2>1, DecideOnly DEF Status
  <2> QED BY <1>2, <2>2 DEF CacheHit, Take, MayDispatch, Intact, Settle1, Handover
<1>3. ASSUME NEW t \in Task, ApprovalDenied(t) \/ PolicyBlock(t) PROVE Handover
  <2>1. DecidesOnly({t})
    BY <1>3, DecideOnly, StatusSets DEF ApprovalDenied, PolicyBlock
  <2> QED BY <1>3, <2>1 DEF ApprovalDenied, PolicyBlock, Take, MayDispatch, Intact, Settle1, Handover
<1>4. ASSUME NEW t \in Task, Submit(t) PROVE Handover
  BY <1>4 DEF Submit, Take, MayDispatch, Intact, Take1, Handover
<1>5. ASSUME NEW t \in Task, Collect(t) PROVE Handover
  <2>1. outcome[t] \in Outcomes /\ outcome[t].status # "raised" /\ t \in running
    BY <1>5 DEF Collect, BatchFinished, TypeOK
  <2>2. outcome[t].status \in Status
    BY <2>1, OutcomeFields, StatusSets
  <2>3. PICK st \in Status : Decide(t, st, "executed")
    BY <1>5, <2>2, StatusSets DEF Collect
  <2>4. DecidesOnly({t})
    BY <2>3, DecideOnly
  <2> QED BY <1>5, <2>1, <2>4 DEF Collect, Collect1, Handover
<1>6. ASSUME NEW t \in Task, CollectRaises(t) \/ AbandonedSubmit(t) PROVE Handover
  <2>1. Lose1(t)
    BY <1>6 DEF CollectRaises, AbandonedSubmit, Take, MayDispatch, BatchFinished, Lose1, Intact
  <2> QED BY <2>1 DEF Handover
<1>7. ASSUME NEW why \in Reasons, SkipAll(pending, why), pending' = {}, UNCHANGED running,
             Intact \/ why = "interrupted"
      PROVE  Handover
  <2>1. /\ DecidesOnly(pending)
        /\ \A t \in pending : reason'[t] = why /\ status'[t] = "skipped"
    BY <1>7, SkipAllOnly DEF TypeOK
  <2>2. SkipRest1
    BY <1>7, <2>1 DEF SkipRest1
  <2> QED BY <2>2 DEF Handover
<1>8. CASE CancelExit \/ HandleInterrupt
  BY <1>7, <1>8 DEF CancelExit, HandleInterrupt, Reasons, Intact
<1>9. CASE Drain
  <2>1. (IF stop # "none" THEN stop ELSE "budget") \in Reasons
    BY DEF TypeOK, Reasons
  <2> QED BY <1>7, <1>9, <2>1 DEF Drain, Hold, Handover, Intact
<1>10. ASSUME NEW t \in Task, WorkerFinish(t) PROVE Handover
  BY <1>10 DEF WorkerFinish, Hold, Handover
<1>11. CASE LoopTop \/ Requeue \/ StopDispatch \/ WaitReturns \/ Finish
  BY <1>11 DEF LoopTop, Requeue, StopDispatch, WaitReturns, Finish, Hold, Handover
<1>12. CASE Crash \/ Interrupt \/ CancelRequest
  BY <1>12 DEF Crash, Interrupt, CancelRequest, Hold, Handover
<1>13. CASE Terminating \/ UNCHANGED vars
  BY <1>13 DEF Terminating, vars, Hold, Handover
<1> QED
  BY <1>1, <1>2, <1>3, <1>4, <1>5, <1>6, <1>8, <1>9, <1>10, <1>11, <1>12, <1>13, CutHandsOver
  DEF Next, MainStep, DispatchTask

LEMMA StepPhase ==
  Typed /\ [Next]_vars => plan' = plan /\ (Intact' => Intact)
<1> SUFFICES ASSUME Typed, [Next]_vars PROVE plan' = plan /\ (Intact' => Intact)
  OBVIOUS
<1> USE DEF Intact
<1>1. ASSUME NEW t \in Task, InitialReady(t) \/ HandleDependent(t)
      PROVE  plan' = plan /\ Intact
  BY <1>1 DEF InitialReady, HandleDependent
<1>2. ASSUME NEW t \in Task, DispatchTask(t) \/ AbandonedSubmit(t)
      PROVE  plan' = plan /\ Intact
  BY <1>2 DEF DispatchTask, CacheHit, ApprovalDenied, PolicyBlock, Submit, AbandonedSubmit,
              Take, MayDispatch
<1>3. ASSUME NEW t \in Task, Collect(t) \/ CollectRaises(t)
      PROVE  plan' = plan /\ Intact
  BY <1>3 DEF Collect, CollectRaises
<1>4. ASSUME NEW t \in Task, WorkerFinish(t) PROVE plan' = plan /\ pc' = pc
  BY <1>4 DEF WorkerFinish, main
<1>5. CASE LoopTop \/ CancelExit \/ Requeue \/ StopDispatch \/ WaitReturns \/ Drain
  BY <1>5 DEF LoopTop, CancelExit, Requeue, StopDispatch, WaitReturns, Drain, MayDispatch
<1>6. CASE Finish \/ Crash \/ Interrupt \/ HandleInterrupt
  BY <1>6 DEF Finish, Crash, Interrupt, HandleInterrupt
<1>7. CASE CancelRequest \/ Terminating \/ UNCHANGED vars
  BY <1>7 DEF CancelRequest, main, Terminating, vars
<1>8. CASE CutShort
  BY <1>8, CutLeaves DEF Typed, CutEnds
<1> QED BY <1>1, <1>2, <1>3, <1>4, <1>5, <1>6, <1>7, <1>8 DEF Next, MainStep

LEMMA NextAccounted ==
  Typed /\ EveryTaskAccountedFor /\ [Next]_vars => EveryTaskAccountedFor'
<1> SUFFICES ASSUME Typed, EveryTaskAccountedFor, [Next]_vars
             PROVE  EveryTaskAccountedFor'
  OBVIOUS
<1>1. /\ status \in [Task -> Status \cup {NoStatus}]
      /\ pending \in SUBSET Task /\ running \in SUBSET Task
  BY DEF Typed, TypeOK
<1>2. Handover
  BY StepHandsOver
<1>3. /\ Intact' => Intact
      /\ Intact => Lost = {} /\ pending \cap Completed = {}
      /\ \A t, u \in Lost : t = u
  BY StepPhase DEF EveryTaskAccountedFor
<1> USE DEF EveryTaskAccountedFor, Completed, Lost
<1>4. CASE Hold
  BY <1>3, <1>4 DEF Hold
<1>5. CASE SkipRest1
  BY <1>1, <1>3, <1>5, StatusSets DEF SkipRest1, DecidesOnly
<1>6. ASSUME NEW t \in Task, Take1(t) PROVE EveryTaskAccountedFor'
  BY <1>1, <1>3, <1>6 DEF Take1
<1>7. ASSUME NEW t \in Task, Settle1(t) PROVE EveryTaskAccountedFor'
  BY <1>1, <1>3, <1>7, StatusSets DEF Settle1, DecidesOnly
<1>8. ASSUME NEW t \in Task, Collect1(t) PROVE EveryTaskAccountedFor'
  BY <1>1, <1>3, <1>8, StatusSets DEF Collect1, DecidesOnly
<1>9. ASSUME NEW t \in Task, Lose1(t) PROVE EveryTaskAccountedFor'
  BY <1>1, <1>3, <1>9 DEF Lose1
<1>10. ASSUME NEW gone, NEW decided, SkipSome1(gone, decided) PROVE EveryTaskAccountedFor'
  BY <1>1, <1>3, <1>10, StatusSets DEF SkipSome1, DecidesOnly, AtMostOne
<1>11. ASSUME NEW decided, Cancel1(decided) PROVE EveryTaskAccountedFor'
  BY <1>1, <1>3, <1>11, StatusSets DEF Cancel1, DecidesOnly
<1> QED BY <1>2, <1>4, <1>5, <1>6, <1>7, <1>8, <1>9, <1>10, <1>11 DEF Handover

\* In every run every task is waiting, with a worker or decided, and in one
\* of these places only, but for what a cancel that Ctrl+C cut short has decided;
\* what breaks a run loses at most one task.
THEOREM Accounted == Spec => []EveryTaskAccountedFor
<1>1. Init => EveryTaskAccountedFor
  <2> SUFFICES ASSUME Init PROVE EveryTaskAccountedFor
    OBVIOUS
  <2>1. /\ status = plan.prior /\ running = {}
        /\ pending = {t \in Task : plan.prior[t] = NoStatus}
    BY Zenon DEF Init
  <2> QED BY <2>1 DEF EveryTaskAccountedFor, Completed, Lost
<1>2. Typed /\ EveryTaskAccountedFor /\ [Next]_vars => EveryTaskAccountedFor'
  BY NextAccounted
<1> QED BY <1>1, <1>2, TypedInvariant, PTL DEF Spec

\* What a step decides was open before it, or cancelled.
LEMMA DecidedStays ==
  Typed /\ EveryTaskAccountedFor /\ [Next]_vars =>
    \A t \in Task : status[t] # NoStatus
      => /\ status'[t] = status[t]
         /\ reason'[t] = reason[t] \/ (reason[t] = "cancelled" /\ reason'[t] = "interrupted")
<1> SUFFICES ASSUME Typed, EveryTaskAccountedFor, [Next]_vars, NEW t \in Task,
                    status[t] # NoStatus
             PROVE  /\ status'[t] = status[t]
                    /\ \/ reason'[t] = reason[t]
                       \/ reason[t] = "cancelled" /\ reason'[t] = "interrupted"
  OBVIOUS
<1>1. /\ t \notin running
      /\ t \in pending => ~Intact /\ status[t] = "skipped" /\ reason[t] = "cancelled"
  BY DEF EveryTaskAccountedFor, Completed
<1>2. Handover
  BY StepHandsOver
<1>3. CASE SkipRest1
  BY <1>1, <1>3 DEF SkipRest1, DecidesOnly
<1>4. ASSUME NEW u \in Task, Take1(u) \/ Settle1(u) \/ Collect1(u) \/ Lose1(u)
      PROVE  status'[t] = status[t] /\ reason'[t] = reason[t]
  BY <1>1, <1>4 DEF Take1, Settle1, Collect1, Lose1, DecidesOnly
<1>5. ASSUME NEW gone, NEW decided, SkipSome1(gone, decided)
      PROVE  status'[t] = status[t] /\ reason'[t] = reason[t]
  BY <1>1, <1>5 DEF SkipSome1, DecidesOnly
<1>6. ASSUME NEW decided, Cancel1(decided)
      PROVE  status'[t] = status[t] /\ reason'[t] = reason[t]
  BY <1>1, <1>6 DEF Cancel1, DecidesOnly
<1> QED BY <1>2, <1>3, <1>4, <1>5, <1>6 DEF Handover, Hold

\* No result is ever replaced by another; Ctrl+C in the middle of a cancel changes
\* the message of tasks already skipped.
THEOREM DecidedForGood == Spec => ResultsFinal
<1>1. Typed /\ EveryTaskAccountedFor /\ [Next]_vars =>
        [\A t \in Task : status[t] # NoStatus
           => /\ status'[t] = status[t]
              /\ reason'[t] = reason[t]
                 \/ (reason[t] = "cancelled" /\ reason'[t] = "interrupted")]_vars
  BY DecidedStays
<1> QED BY <1>1, TypedInvariant, Accounted, PTL DEF Spec, ResultsFinal

-----------------------------------------------------------------------------
(***************************************************************************)
(* Order: nothing starts before what it depends on                         *)
(***************************************************************************)
Entitled(t) == plan.deps[t] \subseteq Completed /\ Eligible(t)
ReadyEntitled == \A t \in Task : IsReady(t) => Entitled(t)

Sound == Typed /\ EveryTaskAccountedFor

LEMMA SoundInvariant == Spec => []Sound
BY TypedInvariant, Accounted, PTL DEF Sound

LEMMA NextSound == Sound /\ [Next]_vars => Sound'
BY NextType, NextBatch, NextAccounted DEF Sound, Typed

LEMMA WhenStays ==
  ASSUME Sound, [Next]_vars, NEW t \in Task, plan.deps[t] \subseteq Completed
  PROVE  /\ plan' = plan
         /\ plan.deps[t] \subseteq Completed'
         /\ \A d \in plan.deps[t] : status'[d] = status[d]
         /\ WhenHolds(t)' <=> WhenHolds(t)
<1>1. plan' = plan
  BY StepPhase DEF Sound
<1>2. plan.deps[t] \in SUBSET Task
  BY PlanFields DEF Sound, Typed, TypeOK
<1>3. \A d \in plan.deps[t] : status'[d] = status[d]
  BY <1>2, DecidedStays DEF Sound, Completed
<1>4. plan.deps[t] \subseteq Completed'
  BY <1>2, <1>3 DEF Completed
<1>5. WhenHolds(t)' <=> WhenHolds(t)
  BY <1>1, <1>3 DEF WhenHolds
<1> QED BY <1>1, <1>3, <1>4, <1>5

LEMMA EntitledStays ==
  ASSUME Sound, [Next]_vars, NEW t \in Task, Entitled(t)
  PROVE  Entitled(t)'
<1>1. /\ plan' = plan
      /\ plan.deps[t] \subseteq Completed'
      /\ \A d \in plan.deps[t] : status'[d] = status[d]
      /\ WhenHolds(t)' <=> WhenHolds(t)
  BY WhenStays DEF Entitled
<1>2. Eligible(t)'
  BY <1>1 DEF Entitled, Eligible, Conditional
<1> QED BY <1>1, <1>2 DEF Entitled

\* What a step adds to the ready queue is entitled to be there.
LEMMA ReadyGrows ==
  ASSUME Sound, [Next]_vars, NEW u \in Task, IsReady(u)'
  PROVE  IsReady(u) \/ Entitled(u)
<1>0. ready \in Seq(Task)
  BY DEF Sound, Typed, TypeOK
<1>1. CASE UNCHANGED ready
  BY <1>1 DEF IsReady
<1>2. ASSUME NEW t \in Task, InitialReady(t) \/ HandleDependent(t), ready' # ready
      PROVE  IsReady(u) \/ Entitled(u)
  <2>1. MakeReady(t) /\ Entitled(t)
    BY <1>2 DEF InitialReady, HandleDependent, SkipTask, LeaveAlone, Entitled
  <2>2. ready' = Append(ready, t)
    BY <2>1 DEF MakeReady
  <2>3. IsReady(u) \/ u = t
    BY <1>0, <2>2 DEF IsReady
  <2> QED BY <2>1, <2>3
<1>3. CASE Requeue
  <2>1. ready # <<>> /\ ready' = Append(Tail(ready), Head(ready))
    BY <1>3 DEF Requeue, MayDispatch
  <2> QED BY <1>0, <2>1 DEF IsReady
<1>4. ASSUME NEW t \in Task, Take(t) PROVE IsReady(u)
  <2>1. ready # <<>> /\ ready' = Tail(ready)
    BY <1>4 DEF Take, MayDispatch
  <2> QED BY <1>0, <2>1 DEF IsReady
<1>5. CASE CancelExit
  BY <1>5 DEF CancelExit, IsReady
<1>6. CASE LoopTop \/ StopDispatch \/ WaitReturns \/ Drain \/ Finish \/ Crash
  BY <1>1, <1>6 DEF LoopTop, StopDispatch, WaitReturns, Drain, Finish, Crash
<1>7. CASE HandleInterrupt \/ Interrupt \/ CancelRequest \/ Terminating \/ UNCHANGED vars
  BY <1>1, <1>7 DEF HandleInterrupt, Interrupt, CancelRequest, Terminating, vars
<1>8. ASSUME NEW t \in Task, Collect(t) \/ CollectRaises(t) \/ WorkerFinish(t)
      PROVE  UNCHANGED ready
  BY <1>8 DEF Collect, CollectRaises, WorkerFinish
<1>9. ASSUME NEW t \in Task, DispatchTask(t) \/ AbandonedSubmit(t) PROVE Take(t)
  BY <1>9 DEF DispatchTask, CacheHit, ApprovalDenied, PolicyBlock, Submit, AbandonedSubmit
<1>10. CASE CutShort
  <2>1. UNCHANGED ready \/ \E t \in Task : Take(t)
    BY <1>10 DEF CutShort, CutVisit, CutLookup, CutCollect, CutCancel, CutDrain
  <2> QED BY <1>1, <1>4, <2>1
<1> QED BY <1>1, <1>2, <1>3, <1>4, <1>5, <1>6, <1>7, <1>8, <1>9, <1>10 DEF Next, MainStep

\* What reason a step that is cut short may give.
LEMMA CutReason ==
  ASSUME TypeOK, NEW decided \in SUBSET Task, NEW told, NEW type, NEW st, NEW why, NEW u \in Task,
         DecideSome(decided, told, type, st, why)
  PROVE  \/ status'[u] = status[u] /\ reason'[u] = reason[u]
         \/ u \in decided /\ status'[u] = st /\ reason'[u] = why
<1>1. /\ status' = [t \in Task |-> IF t \in decided THEN st ELSE status[t]]
      /\ reason' = [t \in Task |-> IF t \in decided THEN why ELSE reason[t]]
  BY Zenon DEF DecideSome
<1> QED BY <1>1

LEMMA CutReasons ==
  ASSUME TypeOK, BatchFinished, CutShort, NEW u \in Task
  PROVE  \/ status'[u] = status[u] /\ reason'[u] = reason[u]
         \/ /\ CutVisit(u) /\ status'[u] = "skipped"
            /\ reason'[u] = IF Conditional(u) THEN "condition" ELSE "dependency"
         \/ CutLookup(u) /\ reason'[u] = "cache"
         \/ CutCollect(u) /\ reason'[u] = "executed"
         \/ cancelled /\ status'[u] = "skipped" /\ reason'[u] = "cancelled"
         \/ CutDrain /\ status'[u] = "skipped" /\ reason'[u] = IF stop # "none" THEN stop ELSE "budget"
<1> DEFINE Same == status'[u] = status[u] /\ reason'[u] = reason[u]
<1>0. pending \in SUBSET Task
  BY DEF TypeOK
<1>1. ASSUME NEW t \in Task, CutVisit(t)
      PROVE  \/ Same
             \/ /\ CutVisit(u) /\ status'[u] = "skipped"
                /\ reason'[u] = IF Conditional(u) THEN "condition" ELSE "dependency"
  <2> DEFINE why == IF Conditional(t) THEN "condition" ELSE "dependency"
  <2>1. PICK decided, told :
          decided \in SUBSET {t} /\ DecideSome(decided, told, "task_skip", "skipped", why)
    BY <1>1 DEF CutVisit
  <2>2. Same \/ (u \in decided /\ status'[u] = "skipped" /\ reason'[u] = why)
    BY <2>1, CutReason
  <2> QED BY <1>1, <2>1, <2>2
<1>2. ASSUME NEW t \in Task, CutLookup(t) PROVE Same \/ (CutLookup(u) /\ reason'[u] = "cache")
  <2>1. PICK st, told : DecideSome({t}, told, "task_complete", st, "cache")
    BY <1>2 DEF CutLookup
  <2>2. Same \/ (u \in {t} /\ reason'[u] = "cache")
    BY <2>1, CutReason
  <2> QED BY <1>2, <2>2
<1>3. ASSUME NEW t \in Task, CutCollect(t) PROVE Same \/ (CutCollect(u) /\ reason'[u] = "executed")
  <2>1. PICK decided, told, st :
          decided \in SUBSET {t} /\ DecideSome(decided, told, "task_complete", st, "executed")
    BY <1>3 DEF CutCollect
  <2>2. Same \/ (u \in decided /\ reason'[u] = "executed")
    BY <2>1, CutReason
  <2> QED BY <1>3, <2>1, <2>2
<1>4. CASE CutCancel
  <2>1. PICK decided, told :
          decided \in SUBSET pending /\ DecideSome(decided, told, "task_skip", "skipped", "cancelled")
    BY <1>4 DEF CutCancel
  <2>2. Same \/ (status'[u] = "skipped" /\ reason'[u] = "cancelled")
    BY <1>0, <2>1, CutReason
  <2> QED BY <1>4, <2>2 DEF CutCancel
<1>5. CASE CutDrain
  <2> DEFINE why == IF stop # "none" THEN stop ELSE "budget"
  <2>1. PICK decided, told :
          decided \in SUBSET pending /\ DecideSome(decided, told, "task_skip", "skipped", why)
    BY <1>5 DEF CutDrain
  <2>2. Same \/ (status'[u] = "skipped" /\ reason'[u] = why)
    BY <1>0, <2>1, CutReason
  <2> QED BY <1>5, <2>2
<1> QED BY <1>1, <1>2, <1>3, <1>4, <1>5 DEF CutShort

LEMMA CutStarted ==
  ASSUME Sound, CutShort, NEW u \in Task, reason'[u] \in {"executed", "cache", "denied", "policy"}
  PROVE  Started(u) \/ IsReady(u)
<1>0. TypeOK /\ BatchFinished /\ ready \in Seq(Task) /\ stop \in {"none", "fail_fast", "breaker"}
  BY DEF Sound, Typed, TypeOK
<1>1. CASE reason'[u] = reason[u]
  BY <1>1 DEF Started
<1>2. CASE CutLookup(u)
  <2>1. ready # <<>> /\ u = Head(ready)
    BY <1>2 DEF CutLookup, Take, MayDispatch
  <2> QED BY <1>0, <2>1 DEF IsReady
<1>3. CASE CutCollect(u)
  BY <1>0, <1>3 DEF CutCollect, BatchFinished, Started
<1> QED BY <1>0, <1>1, <1>2, <1>3, CutReasons

\* Who starts in a step was at the head of the queue; who is decided as
\* executed was already with a worker.
LEMMA StartedGrows ==
  ASSUME Sound, [Next]_vars, NEW u \in Task, Started(u)'
  PROVE  Started(u) \/ IsReady(u)
<1>0. ready \in Seq(Task) /\ reason \in [Task -> Reasons] /\ status \in [Task -> Status \cup {NoStatus}]
  BY DEF Sound, Typed, TypeOK
<1> DEFINE Marks == {"executed", "cache", "denied", "policy"}
<1>1. ASSUME UNCHANGED <<running, reason>> PROVE Started(u)
  BY <1>1 DEF Started
<1>2. ASSUME NEW t \in Task, InitialReady(t) \/ HandleDependent(t) PROVE Started(u)
  <2>1. running' = running /\ (u # t \/ reason' = reason \/ reason'[u] \in {"condition", "dependency"})
    BY <1>0, <1>2 DEF InitialReady, HandleDependent, MakeReady, LeaveAlone, SkipTask, Decide
  <2>2. reason'[u] \in Marks => reason'[u] = reason[u]
    BY <1>0, <1>2, <2>1 DEF InitialReady, HandleDependent, MakeReady, LeaveAlone, SkipTask, Decide
  <2> QED BY <2>1, <2>2 DEF Started
<1>3. ASSUME NEW t \in Task, DispatchTask(t) PROVE Started(u) \/ IsReady(u)
  <2>1. Take(t)
    BY <1>3 DEF DispatchTask, CacheHit, ApprovalDenied, PolicyBlock, Submit
  <2>2. IsReady(t)
    BY <1>0, <2>1 DEF Take, MayDispatch, IsReady
  <2>3. u # t => (u \in running' <=> u \in running) /\ reason'[u] = reason[u]
    BY <1>0, <1>3 DEF DispatchTask, CacheHit, ApprovalDenied, PolicyBlock, Submit, Decide
  <2> QED BY <2>2, <2>3 DEF Started
<1>4. ASSUME NEW t \in Task, Collect(t) PROVE Started(u)
  <2>1. t \in running /\ running' = running \ {t}
    BY <1>4 DEF Collect, Sound, Typed, BatchFinished
  <2>2. u # t => reason'[u] = reason[u]
    BY <1>0, <1>4 DEF Collect, Decide
  <2> QED BY <2>1, <2>2 DEF Started
<1>5. ASSUME NEW t \in Task, CollectRaises(t) \/ AbandonedSubmit(t) PROVE Started(u)
  BY <1>5 DEF CollectRaises, AbandonedSubmit, Started
<1>6. ASSUME NEW why \in Reasons \ Marks, SkipAll(pending, why), UNCHANGED running
      PROVE  Started(u)
  <2>0. pending \in SUBSET Task /\ TypeOK
    BY DEF Sound, Typed, TypeOK
  <2>1. DecidesOnly(pending) /\ \A t \in pending : reason'[t] = why
    BY <1>6, <2>0, SkipAllOnly
  <2>2. u \in pending => reason'[u] \notin Marks
    BY <1>6, <2>1
  <2>3. u \notin pending => reason'[u] = reason[u]
    BY <2>1 DEF DecidesOnly
  <2> QED BY <1>6, <2>2, <2>3 DEF Started
<1>7. CASE CancelExit \/ HandleInterrupt
  BY <1>6, <1>7 DEF CancelExit, HandleInterrupt, Reasons
<1>8. CASE Drain
  <2>1. (IF stop # "none" THEN stop ELSE "budget") \in Reasons \ Marks
    BY DEF Sound, Typed, TypeOK, Reasons
  <2> QED BY <1>1, <1>6, <1>8, <2>1 DEF Drain
<1>9. CASE LoopTop \/ Requeue \/ StopDispatch \/ WaitReturns \/ Finish \/ Crash
  BY <1>1, <1>9 DEF LoopTop, Requeue, StopDispatch, WaitReturns, Finish, Crash
<1>10. CASE Interrupt \/ CancelRequest \/ Terminating \/ UNCHANGED vars
  BY <1>1, <1>10 DEF Interrupt, CancelRequest, Terminating, vars
<1>11. ASSUME NEW t \in Task, WorkerFinish(t) PROVE Started(u)
  <2>1. UNCHANGED <<running, reason>>
    BY <1>11 DEF WorkerFinish
  <2> QED BY <1>1, <2>1
<1>12. CASE CutShort
  BY <1>12, CutStarted, CutLeaves DEF Sound, Typed, CutKeeps, Started
<1> QED
  BY <1>2, <1>3, <1>4, <1>5, <1>7, <1>8, <1>9, <1>10, <1>11, <1>12 DEF Next, MainStep

\* In every run, what has started was entitled to, and still is.
THEOREM OrderKept == Spec => []DependenciesFirst
<1> DEFINE Ordered == ReadyEntitled /\ DependenciesFirst
<1>1. Init => Ordered
  <2> SUFFICES ASSUME Init PROVE Ordered
    OBVIOUS
  <2>1. /\ ready = <<>> /\ running = {}
        /\ reason = [t \in Task |-> IF plan.prior[t] = NoStatus THEN "none" ELSE "resumed"]
    BY Zenon DEF Init
  <2> QED BY <2>1 DEF ReadyEntitled, IsReady, DependenciesFirst, Started
<1>2. Sound /\ Ordered /\ [Next]_vars => Ordered'
  <2> SUFFICES ASSUME Sound, Ordered, [Next]_vars PROVE Ordered'
    OBVIOUS
  <2>1. ReadyEntitled'
    BY ReadyGrows, EntitledStays DEF ReadyEntitled
  <2>2. DependenciesFirst'
    <3> SUFFICES ASSUME NEW t \in Task, Started(t)' PROVE Entitled(t)'
      BY DEF DependenciesFirst, Entitled
    <3>1. Entitled(t)
      BY StartedGrows DEF DependenciesFirst, ReadyEntitled, Entitled
    <3> QED BY <3>1, EntitledStays
  <2> QED BY <2>1, <2>2
<1>3. Ordered => DependenciesFirst
  OBVIOUS
<1> QED BY <1>1, <1>2, <1>3, SoundInvariant, PTL DEF Spec

-----------------------------------------------------------------------------
(***************************************************************************)
(* Every skip has its cause in the results                                 *)
(***************************************************************************)
Blamed == {"dependency", "condition"}
CauseKnown(t) == /\ plan.deps[t] \subseteq Completed
                 /\ reason[t] = "dependency" =>
                      \E d \in plan.deps[t] : status[d] = "failed"
                 /\ reason[t] = "condition" => Conditional(t) /\ ~WhenHolds(t)
SkipsExplained == \A t \in Task : reason[t] \in Blamed => CauseKnown(t)

LEMMA BlameGrows ==
  ASSUME Sound, [Next]_vars, NEW u \in Task, reason'[u] \in Blamed
  PROVE  \/ reason'[u] = reason[u]
         \/ /\ plan.deps[u] \subseteq Completed /\ ~Eligible(u)
            /\ (reason'[u] = "condition") <=> Conditional(u)
<1>0. /\ reason \in [Task -> Reasons] /\ status \in [Task -> Status \cup {NoStatus}]
      /\ pending \in SUBSET Task /\ TypeOK
  BY DEF Sound, Typed, TypeOK
<1> USE DEF Blamed
<1>1. CASE UNCHANGED reason
  BY <1>1
<1>2. ASSUME NEW t \in Task, InitialReady(t) \/ HandleDependent(t), reason' # reason,
             reason'[u] # reason[u]
      PROVE  /\ plan.deps[u] \subseteq Completed /\ ~Eligible(u)
             /\ (reason'[u] = "condition") <=> Conditional(u)
  <2>1. PICK why \in Blamed : SkipTask(t, why) /\ plan.deps[t] \subseteq Completed
                              /\ ~Eligible(t) /\ ((why = "condition") <=> Conditional(t))
    BY <1>2 DEF InitialReady, HandleDependent, MakeReady, LeaveAlone
  <2>2. u = t /\ reason'[u] = why
    BY <1>0, <1>2, <2>1 DEF SkipTask, Decide
  <2> QED BY <2>1, <2>2
<1>3. ASSUME NEW t \in Task, DispatchTask(t) PROVE reason'[u] = reason[u]
  BY <1>0, <1>3 DEF DispatchTask, CacheHit, ApprovalDenied, PolicyBlock, Submit, Decide
<1>4. ASSUME NEW t \in Task, Collect(t) PROVE reason'[u] = reason[u]
  BY <1>0, <1>4 DEF Collect, Decide
<1>5. ASSUME NEW why \in Reasons \ Blamed, SkipAll(pending, why)
      PROVE  reason'[u] = reason[u]
  <2>1. DecidesOnly(pending) /\ \A t \in pending : reason'[t] = why
    BY <1>0, <1>5, SkipAllOnly
  <2> QED BY <1>5, <2>1 DEF DecidesOnly
<1>6. CASE CancelExit \/ HandleInterrupt
  BY <1>5, <1>6 DEF CancelExit, HandleInterrupt, Reasons
<1>7. CASE Drain
  <2>1. (IF stop # "none" THEN stop ELSE "budget") \in Reasons \ Blamed
    BY DEF Sound, Typed, TypeOK, Reasons
  <2> QED BY <1>1, <1>5, <1>7, <2>1 DEF Drain
<1>8. ASSUME NEW t \in Task, CollectRaises(t) \/ AbandonedSubmit(t) \/ WorkerFinish(t)
      PROVE  UNCHANGED reason
  BY <1>8 DEF CollectRaises, AbandonedSubmit, WorkerFinish
<1>9. CASE LoopTop \/ Requeue \/ StopDispatch \/ WaitReturns \/ Finish \/ Crash
  BY <1>1, <1>9 DEF LoopTop, Requeue, StopDispatch, WaitReturns, Finish, Crash
<1>10. CASE Interrupt \/ CancelRequest \/ Terminating \/ UNCHANGED vars
  BY <1>1, <1>10 DEF Interrupt, CancelRequest, Terminating, vars
<1>11. CASE CutShort
  <2>1. stop \in {"none", "fail_fast", "breaker"} /\ BatchFinished
    BY DEF Sound, Typed, TypeOK
  <2> QED BY <1>0, <1>11, <2>1, CutReasons DEF CutVisit
<1> QED
  BY <1>1, <1>2, <1>3, <1>4, <1>6, <1>7, <1>8, <1>9, <1>10, <1>11 DEF Next, MainStep

LEMMA NextSkips == Sound /\ SkipsExplained /\ [Next]_vars => SkipsExplained'
<1> SUFFICES ASSUME Sound, SkipsExplained, [Next]_vars, NEW t \in Task,
                    reason'[t] \in Blamed
             PROVE  CauseKnown(t)'
  BY DEF SkipsExplained
<1>0. plan.deps[t] \in SUBSET Task /\ status \in [Task -> Status \cup {NoStatus}]
  BY PlanFields DEF Sound, Typed, TypeOK
<1>1. plan.deps[t] \subseteq Completed
  BY BlameGrows DEF SkipsExplained, CauseKnown
<1>2. /\ plan' = plan /\ plan.deps[t] \subseteq Completed'
      /\ \A d \in plan.deps[t] : status'[d] = status[d]
      /\ WhenHolds(t)' <=> WhenHolds(t)
  BY <1>1, WhenStays
<1>3. CASE reason'[t] = reason[t]
  BY <1>2, <1>3 DEF SkipsExplained, CauseKnown, Conditional
<1>4. CASE ~Eligible(t) /\ ((reason'[t] = "condition") <=> Conditional(t))
  <2>1. CASE Conditional(t)
    BY <1>2, <1>4, <2>1 DEF CauseKnown, Conditional, Eligible
  <2>2. CASE ~Conditional(t)
    <3>1. PICK d \in plan.deps[t] : status[d] \notin SuccessLike
      BY <1>4, <2>2 DEF Eligible
    <3>2. status[d] = "failed"
      BY <1>0, <1>1, <3>1 DEF Completed, Status, SuccessLike
    <3> QED BY <1>2, <1>4, <2>2, <3>2 DEF CauseKnown
  <2> QED BY <2>1, <2>2
<1> QED BY <1>3, <1>4, BlameGrows

\* In every run, a task skipped for a failed dependency has one among the
\* results, and one skipped by its condition has a condition that is false.
THEOREM SkipsHaveCauses == Spec => []SkipsJustified
<1>1. Init => SkipsExplained
  <2> SUFFICES ASSUME Init PROVE SkipsExplained
    OBVIOUS
  <2>1. reason = [t \in Task |-> IF plan.prior[t] = NoStatus THEN "none" ELSE "resumed"]
    BY Zenon DEF Init
  <2> QED BY <2>1 DEF SkipsExplained, Blamed
<1>2. Sound /\ SkipsExplained /\ [Next]_vars => SkipsExplained'
  BY NextSkips
<1>3. SkipsExplained => SkipsJustified
  BY DEF SkipsExplained, SkipsJustified, CauseKnown, Blamed
<1> QED BY <1>1, <1>2, <1>3, SoundInvariant, PTL DEF Spec

-----------------------------------------------------------------------------
(***************************************************************************)
(* Stopping and limits                                                     *)
(***************************************************************************)
LEMMA ApplyStop ==
  ASSUME NEW st, NEW cost, ApplyCompletion(st, cost)
  PROVE  /\ stop # "none" => stop' # "none"
         /\ st = "failed" /\ plan.failFast => stop' # "none"
BY Zenon DEF ApplyCompletion

\* Ctrl+C may fall between a failure and the flag, but then the run is over.
FailFastNoted == Intact /\ FailedFast => stop # "none"

LEMMA NextNoted == Sound /\ FailFastNoted /\ [Next]_vars => FailFastNoted'
<1> SUFFICES ASSUME Sound, FailFastNoted, [Next]_vars, Intact', FailedFast' PROVE stop' # "none"
  BY DEF FailFastNoted
<1> DEFINE Hit == {"executed", "cache"}
<1>0. /\ reason \in [Task -> Reasons] /\ status \in [Task -> Status \cup {NoStatus}]
      /\ pending \in SUBSET Task /\ TypeOK /\ plan' = plan /\ Intact
  BY StepPhase DEF Sound, Typed, TypeOK
<1>1. plan.failFast
  BY <1>0 DEF FailedFast
<1>2. PICK u \in Task : status'[u] = "failed" /\ reason'[u] \in Hit
  BY DEF FailedFast
<1>3. CASE status'[u] = status[u] /\ reason'[u] = reason[u] /\ stop' = stop
  BY <1>0, <1>1, <1>2, <1>3 DEF FailFastNoted, FailedFast
<1>4. ASSUME NEW t \in Task, NEW st \in Status, NEW why \in Reasons, NEW cost,
             Decide(t, st, why), ApplyCompletion(st, cost)
      PROVE  stop' # "none"
  <2>1. CASE u = t
    <3>1. st = "failed"
      BY <1>0, <1>2, <1>4, <2>1 DEF Decide
    <3> QED BY <1>1, <1>4, <3>1, ApplyStop
  <2>2. CASE u # t
    <3>1. status'[u] = status[u] /\ reason'[u] = reason[u]
      BY <1>0, <1>4, <2>2 DEF Decide
    <3> QED BY <1>0, <1>1, <1>2, <1>4, <3>1, ApplyStop DEF FailFastNoted, FailedFast
  <2> QED BY <2>1, <2>2
<1>5. ASSUME NEW t \in Task, CacheHit(t) PROVE stop' # "none"
  BY <1>4, <1>5 DEF CacheHit, Status, Reasons
<1>6. ASSUME NEW t \in Task, Collect(t) PROVE stop' # "none"
  <2>1. outcome[t] \in Outcomes /\ outcome[t].status # "raised"
    BY <1>6 DEF Collect, Sound, Typed, BatchFinished, TypeOK
  <2>2. outcome[t].status \in Status
    BY <2>1, OutcomeFields, StatusSets
  <2>3. PICK st \in Status : Decide(t, st, "executed") /\ ApplyCompletion(st, outcome[t].cost)
    BY <1>6, <2>2, StatusSets DEF Collect
  <2> QED BY <1>4, <2>3 DEF Reasons
<1>7. ASSUME NEW t \in Task, NEW st, NEW why \in Reasons \ Hit, Decide(t, st, why),
             UNCHANGED stop
      PROVE  stop' # "none"
  <2>1. u # t
    BY <1>0, <1>2, <1>7 DEF Decide
  <2> QED BY <1>0, <1>3, <1>7, <2>1 DEF Decide
<1>8. ASSUME NEW t \in Task, InitialReady(t) \/ HandleDependent(t) PROVE stop' # "none"
  <2>1. UNCHANGED stop
    BY <1>8 DEF InitialReady, HandleDependent, accounts
  <2>2. UNCHANGED <<status, reason>> \/ \E why \in Reasons \ Hit : Decide(t, "skipped", why)
    BY <1>8 DEF InitialReady, HandleDependent, MakeReady, LeaveAlone, SkipTask, Reasons
  <2> QED BY <1>3, <1>7, <2>1, <2>2
<1>9. ASSUME NEW t \in Task, ApprovalDenied(t) \/ PolicyBlock(t) PROVE stop' # "none"
  BY <1>7, <1>9 DEF ApprovalDenied, PolicyBlock, accounts, Reasons
<1>10. ASSUME NEW t \in Task,
              Submit(t) \/ AbandonedSubmit(t) \/ CollectRaises(t) \/ WorkerFinish(t)
       PROVE  stop' # "none"
  BY <1>3, <1>10 DEF Submit, AbandonedSubmit, CollectRaises, WorkerFinish, accounts
<1>11. ASSUME NEW why \in Reasons \ Hit, SkipAll(pending, why), UNCHANGED stop
       PROVE  stop' # "none"
  <2>1. DecidesOnly(pending) /\ \A t \in pending : reason'[t] = why
    BY <1>0, <1>11, SkipAllOnly
  <2>2. u \notin pending
    BY <1>2, <1>11, <2>1
  <2> QED BY <1>3, <1>11, <2>1, <2>2 DEF DecidesOnly
<1>12. CASE CancelExit \/ HandleInterrupt
  BY <1>11, <1>12 DEF CancelExit, HandleInterrupt, Reasons, accounts
<1>13. CASE Drain
  <2>1. (IF stop # "none" THEN stop ELSE "budget") \in Reasons \ Hit
    BY <1>0 DEF TypeOK, Reasons
  <2> QED BY <1>3, <1>11, <1>13, <2>1 DEF Drain, accounts
<1>14. CASE LoopTop \/ Requeue \/ StopDispatch \/ WaitReturns \/ Finish \/ Crash
  BY <1>3, <1>14 DEF LoopTop, Requeue, StopDispatch, WaitReturns, Finish, Crash, accounts
<1>15. CASE Interrupt \/ CancelRequest \/ Terminating \/ UNCHANGED vars
  BY <1>3, <1>15 DEF Interrupt, CancelRequest, Terminating, vars, accounts
<1>16. CASE CutShort
  BY <1>16, CutLeaves DEF Sound, Typed, CutEnds, Intact
<1> QED
  BY <1>5, <1>6, <1>8, <1>9, <1>10, <1>12, <1>13, <1>14, <1>15, <1>16
  DEF Next, MainStep, DispatchTask

\* Only Submit gives a worker a task, and only while dispatch is open.
LEMMA RunningGrows ==
  ASSUME Sound, [Next]_vars, ~(running' \subseteq running)
  PROVE  /\ stop = "none" /\ ~exceeded /\ Intact
         /\ Cardinality(running) < plan.maxParallel
         /\ \E t \in Task : Submit(t)
<1>1. \E t \in Task : Submit(t)
  <2>1. \A t \in Task : ~InitialReady(t) /\ ~HandleDependent(t) /\ ~CacheHit(t)
                        /\ ~ApprovalDenied(t) /\ ~PolicyBlock(t)
    BY DEF InitialReady, HandleDependent, CacheHit, ApprovalDenied, PolicyBlock
  <2>2. \A t \in Task : ~Collect(t) /\ ~CollectRaises(t) /\ ~AbandonedSubmit(t)
                        /\ ~WorkerFinish(t)
    BY DEF Collect, CollectRaises, AbandonedSubmit, WorkerFinish
  <2>3. ~LoopTop /\ ~CancelExit /\ ~Requeue /\ ~StopDispatch /\ ~WaitReturns /\ ~Drain
    BY DEF LoopTop, CancelExit, Requeue, StopDispatch, WaitReturns, Drain
  <2>4. ~Finish /\ ~Crash /\ ~HandleInterrupt /\ ~Interrupt /\ ~CancelRequest /\ ~UNCHANGED vars
    BY DEF Finish, Crash, HandleInterrupt, Interrupt, CancelRequest, vars
  <2>5. ~CutShort
    BY CutLeaves DEF Sound, Typed, CutKeeps
  <2> QED BY <2>1, <2>2, <2>3, <2>4, <2>5 DEF Next, MainStep, DispatchTask, Terminating
<1> QED BY <1>1 DEF Submit, Take, MayDispatch, Intact

\* In a fail_fast run nothing is submitted after an executed or cached
\* failure is among the results.
THEOREM FailFastHolds == Spec => FailFastStopsDispatch
<1>1. Init => FailFastNoted
  <2> SUFFICES ASSUME Init PROVE ~FailedFast
    BY DEF FailFastNoted
  <2>1. reason = [t \in Task |-> IF plan.prior[t] = NoStatus THEN "none" ELSE "resumed"]
    BY Zenon DEF Init
  <2> QED BY <2>1 DEF FailedFast
<1>2. Sound /\ FailFastNoted /\ [Next]_vars => FailFastNoted'
  BY NextNoted
<1>3. Sound /\ FailFastNoted /\ [Next]_vars => [FailedFast => running' \subseteq running]_vars
  BY RunningGrows DEF FailFastNoted
<1> QED BY <1>1, <1>2, <1>3, SoundInvariant, PTL DEF Spec, FailFastStopsDispatch

(***************************************************************************)
(* The circuit breaker: with action "fail" the counter never falls behind  *)
(* the failures among the results, and it trips when it reaches the limit. *)
(***************************************************************************)
Failures == {t \in Task : /\ Failure(status[t])
                          /\ reason[t] \in {"executed", "cache"}}
BreakerCounts ==
  Intact /\ plan.breaker = "fail" =>
    /\ Cardinality(Failures) <= failures
    /\ plan.maxFailures <= failures => stop # "none"

LEMMA FailuresType ==
  Sound => IsFiniteSet(Failures) /\ Cardinality(Failures) \in Nat
BY TaskAssumption, FS_Subset, FS_CardinalityType DEF Failures

\* What one result does to the failures and to the counter.
Counted(t, st, cost) == /\ ApplyCompletion(st, cost)
                        /\ Failures' = IF Failure(st) THEN Failures \cup {t} ELSE Failures
BreakerStep ==
  \/ Failures' = Failures /\ UNCHANGED <<failures, stop>>
  \/ \E t \in Task, st \in Status, cost \in Nat : Counted(t, st, cost)

LEMMA StepOfBreaker == Sound /\ [Next]_vars /\ Intact' => BreakerStep
<1> SUFFICES ASSUME Sound, [Next]_vars, Intact' PROVE BreakerStep
  OBVIOUS
<1> DEFINE Hit == {"executed", "cache"}
<1>0. /\ reason \in [Task -> Reasons] /\ status \in [Task -> Status \cup {NoStatus}]
      /\ pending \in SUBSET Task /\ TypeOK /\ ~Failure(NoStatus)
  BY DEF Sound, Typed, TypeOK, Failure, NoStatus
<1>1. \A t \in pending \cup running : t \notin Failures
  BY <1>0, StepPhase DEF Sound, EveryTaskAccountedFor, Completed, Failures
<1>2. CASE UNCHANGED <<status, reason, failures, stop>>
  BY <1>2 DEF BreakerStep, Failures
<1>3. ASSUME NEW t \in pending \cup running, t \in Task, NEW st \in Status, NEW why \in Hit,
             NEW cost \in Nat, Decide(t, st, why), ApplyCompletion(st, cost)
      PROVE  BreakerStep
  <2>1. Failures' = IF Failure(st) THEN Failures \cup {t} ELSE Failures
    BY <1>0, <1>1, <1>3 DEF Decide, Failures
  <2>2. Counted(t, st, cost)
    BY <1>3, <2>1, Zenon DEF Counted
  <2> QED BY <1>3, <2>2, Zenon DEF BreakerStep
<1>4. ASSUME NEW t \in Task, CacheHit(t) PROVE BreakerStep
  <2>1. PICK o \in Outcomes : /\ o.status \in {"success", "failed", "soft_failed"}
                              /\ Decide(t, o.status, "cache")
                              /\ ApplyCompletion(o.status, o.cost)
    BY <1>4 DEF CacheHit
  <2>2. o.status \in Status /\ o.cost \in Nat /\ t \in pending
    BY <1>4, <2>1, OutcomeFields DEF Status, CacheHit, Take
  <2> QED BY <1>3, <2>1, <2>2
<1>5. ASSUME NEW t \in Task, Collect(t) PROVE BreakerStep
  <2>1. outcome[t] \in Outcomes /\ outcome[t].status # "raised" /\ t \in running
    BY <1>5 DEF Collect, Sound, Typed, BatchFinished, TypeOK
  <2>2. outcome[t].status \in Status /\ outcome[t].cost \in Nat
    BY <2>1, OutcomeFields, StatusSets
  <2>3. PICK st \in Status : Decide(t, st, "executed") /\ ApplyCompletion(st, outcome[t].cost)
    BY <1>5, <2>2, StatusSets DEF Collect
  <2> QED BY <1>3, <2>1, <2>2, <2>3
<1>6. ASSUME NEW t \in pending, t \in Task, NEW st, NEW why \in Reasons \ Hit,
             Decide(t, st, why), UNCHANGED <<failures, stop>>
      PROVE  BreakerStep
  <2>1. Failures' = Failures
    BY <1>0, <1>1, <1>6 DEF Decide, Failures
  <2> QED BY <1>6, <2>1 DEF BreakerStep
<1>7. ASSUME NEW t \in Task, InitialReady(t) \/ HandleDependent(t) PROVE BreakerStep
  <2>1. UNCHANGED <<failures, stop>>
    BY <1>7 DEF InitialReady, HandleDependent, accounts
  <2>2. \/ UNCHANGED <<status, reason>>
        \/ t \in pending /\ \E why \in Reasons \ Hit : Decide(t, "skipped", why)
    BY <1>7 DEF InitialReady, HandleDependent, MakeReady, LeaveAlone, SkipTask, Reasons
  <2> QED BY <1>2, <1>6, <2>1, <2>2
<1>8. ASSUME NEW t \in Task, ApprovalDenied(t) \/ PolicyBlock(t) PROVE BreakerStep
  BY <1>6, <1>8 DEF ApprovalDenied, PolicyBlock, Take, accounts, Reasons
<1>9. ASSUME NEW t \in Task,
             Submit(t) \/ AbandonedSubmit(t) \/ CollectRaises(t) \/ WorkerFinish(t)
      PROVE  BreakerStep
  BY <1>2, <1>9 DEF Submit, AbandonedSubmit, CollectRaises, WorkerFinish, accounts
<1>10. ASSUME NEW why \in Reasons \ Hit, SkipAll(pending, why), UNCHANGED <<failures, stop>>
       PROVE  BreakerStep
  <2>1. DecidesOnly(pending) /\ \A t \in pending : reason'[t] = why
    BY <1>0, <1>10, SkipAllOnly
  <2>2. Failures' = Failures
    BY <1>1, <1>10, <2>1 DEF DecidesOnly, Failures
  <2> QED BY <1>10, <2>2 DEF BreakerStep
<1>11. CASE CancelExit \/ HandleInterrupt
  BY <1>10, <1>11 DEF CancelExit, HandleInterrupt, Reasons, accounts
<1>12. CASE Drain
  <2>1. (IF stop # "none" THEN stop ELSE "budget") \in Reasons \ Hit
    BY <1>0 DEF TypeOK, Reasons
  <2> QED BY <1>2, <1>10, <1>12, <2>1 DEF Drain, accounts
<1>13. CASE LoopTop \/ Requeue \/ StopDispatch \/ WaitReturns \/ Finish \/ Crash
  BY <1>2, <1>13 DEF LoopTop, Requeue, StopDispatch, WaitReturns, Finish, Crash, accounts
<1>14. CASE Interrupt \/ CancelRequest \/ Terminating \/ UNCHANGED vars
  BY <1>2, <1>14 DEF Interrupt, CancelRequest, Terminating, vars, accounts
<1>15. CASE CutShort
  BY <1>15, CutLeaves DEF Sound, Typed, CutEnds, Intact
<1> QED
  BY <1>4, <1>5, <1>7, <1>8, <1>9, <1>11, <1>12, <1>13, <1>14, <1>15
  DEF Next, MainStep, DispatchTask

LEMMA AddAtMostOne ==
  ASSUME NEW S, IsFiniteSet(S), NEW x
  PROVE  /\ Cardinality(S \cup {x}) \in Nat
         /\ Cardinality(S \cup {x}) <= Cardinality(S) + 1
<1>1. Cardinality(S) \in Nat
  BY FS_CardinalityType
<1>2. Cardinality(S \cup {x}) = IF x \in S THEN Cardinality(S) ELSE Cardinality(S) + 1
  BY FS_AddElement
<1> QED BY <1>1, <1>2

LEMMA NextBreaker == Sound /\ BreakerCounts /\ [Next]_vars => BreakerCounts'
<1> SUFFICES ASSUME Sound, BreakerCounts, [Next]_vars, Intact, Intact', plan.breaker = "fail"
             PROVE  /\ Cardinality(Failures') <= failures'
                    /\ plan.maxFailures <= failures' => stop' # "none"
  BY StepPhase DEF BreakerCounts, Sound
<1>0. /\ Cardinality(Failures) \in Nat /\ IsFiniteSet(Failures) /\ failures \in Nat
      /\ plan.maxFailures \in Nat /\ Cardinality(Failures) <= failures
      /\ plan.maxFailures <= failures => stop # "none"
  BY FailuresType, PlanFields DEF BreakerCounts, Sound, Typed, TypeOK
<1>1. ASSUME NEW t \in Task, NEW st \in Status, NEW cost \in Nat, Counted(t, st, cost)
      PROVE  /\ Cardinality(Failures') <= failures'
             /\ plan.maxFailures <= failures' => stop' # "none"
  <2>1. /\ failures' = IF Failure(st) THEN failures + 1 ELSE failures
        /\ BreakerTrips(st) => stop' = "breaker"
        /\ stop # "none" => stop' # "none"
    BY <1>1, Zenon DEF Counted, ApplyCompletion, BreakerTrips
  <2>2. CASE Failure(st)
    <3>1. Failures' = Failures \cup {t}
      BY <1>1, <2>2 DEF Counted
    <3>2. /\ Cardinality(Failures \cup {t}) <= Cardinality(Failures) + 1
          /\ Cardinality(Failures \cup {t}) \in Nat
      BY <1>0, AddAtMostOne
    <3>3. /\ Cardinality(Failures') <= Cardinality(Failures) + 1
          /\ Cardinality(Failures') \in Nat
      BY <3>1, <3>2
    <3>4. plan.maxFailures <= failures + 1 => BreakerTrips(st)
      BY <1>0, <2>2 DEF BreakerTrips
    <3> QED BY <1>0, <2>1, <2>2, <3>2, <3>3, <3>4
  <2>3. CASE ~Failure(st)
    BY <1>0, <1>1, <2>1, <2>3 DEF Counted
  <2> QED BY <2>2, <2>3
<1>2. CASE Failures' = Failures /\ UNCHANGED <<failures, stop>>
  BY <1>0, <1>2
<1> QED BY <1>1, <1>2, StepOfBreaker DEF BreakerStep

\* After max_total_failures failures a plan whose breaker fails the run
\* starts no task.
THEOREM BreakerHolds == Spec => BreakerStopsDispatch
<1>1. Init => BreakerCounts
  <2> SUFFICES ASSUME Init PROVE BreakerCounts
    OBVIOUS
  <2>1. /\ reason = [t \in Task |-> IF plan.prior[t] = NoStatus THEN "none" ELSE "resumed"]
        /\ failures = 0 /\ plan \in Plans
    BY Zenon DEF Init
  <2>2. Failures = {} /\ plan.maxFailures \in Nat \ {0}
    BY <2>1, PlanFields DEF Failures
  <2> QED BY <2>1, <2>2, FS_EmptySet DEF BreakerCounts
<1>2. Sound /\ BreakerCounts /\ [Next]_vars => BreakerCounts'
  BY NextBreaker
<1>3. Sound /\ BreakerCounts /\ [Next]_vars => [Broken => running' \subseteq running]_vars
  <2> SUFFICES ASSUME Sound, BreakerCounts, [Next]_vars, Broken, Intact
               PROVE  running' \subseteq running
    BY RunningGrows
  <2>1. /\ Cardinality(Failures) \in Nat /\ failures \in Nat /\ plan.maxFailures \in Nat
        /\ Cardinality(Failures) <= failures /\ plan.maxFailures <= Cardinality(Failures)
        /\ plan.maxFailures <= failures => stop # "none"
    BY FailuresType, PlanFields DEF BreakerCounts, Broken, Failures, Sound, Typed, TypeOK
  <2>2. stop # "none"
    BY <2>1
  <2> QED BY <2>2, RunningGrows
<1> QED BY <1>1, <1>2, <1>3, SoundInvariant, PTL DEF Spec, BreakerStopsDispatch

\* Either of them stops the dispatch for good.
THEOREM StopsHold == Spec => StoppedForGood
<1>1. [FailedFast => running' \subseteq running]_vars /\ [Broken => running' \subseteq running]_vars
        => [FailedFast \/ Broken => running' \subseteq running]_vars
  OBVIOUS
<1> QED BY <1>1, FailFastHolds, BreakerHolds, PTL DEF FailFastStopsDispatch, BreakerStopsDispatch, StoppedForGood

-----------------------------------------------------------------------------
(***************************************************************************)
(* The pool and the budget                                                 *)
(***************************************************************************)
Width == Cardinality(running)

PoolBounded ==
  /\ Width <= plan.maxParallel
  /\ \A t, u \in running \cap plan.exclusive : t = u
BudgetKept ==
  plan.budgeted =>
    /\ Intact /\ ~exceeded => spent <= plan.limit
    /\ spent + Width * MaxCost <= plan.limit + plan.maxParallel * MaxCost

LEMMA Products ==
  ASSUME NEW m \in Nat, NEW n \in Nat, NEW c \in Nat
  PROVE  /\ n * c \in Nat
         /\ (n + 1) * c = n * c + c
         /\ n <= m => n * c <= m * c
OBVIOUS

LEMMA WidthType == Sound => IsFiniteSet(running) /\ Width \in Nat
<1> SUFFICES ASSUME Sound PROVE IsFiniteSet(running) /\ Width \in Nat
  OBVIOUS
<1>1. running \in SUBSET Task
  BY DEF Sound, Typed, TypeOK
<1> QED BY <1>1, TaskAssumption, FS_Subset, FS_CardinalityType DEF Width

\* What a step does to the pool and to the accounts: nothing, a task more,
\* a task less, or a cost booked, from the cache or for a task that leaves.
Booked(cost) == /\ cost \in 0 .. MaxCost
                /\ spent' = spent + cost
                /\ Intact' => exceeded' = (exceeded \/ (plan.budgeted /\ spent' > plan.limit))
Leaves(t) == t \in running /\ running' = running \ {t}
PoolStep ==
  \/ UNCHANGED <<running, spent, exceeded>>
  \/ /\ Intact /\ ~exceeded /\ Width < plan.maxParallel
     /\ UNCHANGED <<spent, exceeded>>
     /\ \E t \in Task \ running :
          /\ running' = running \cup {t}
          /\ ~(t \in plan.exclusive /\ running \cap plan.exclusive # {})
  \/ /\ Intact /\ ~exceeded /\ Width < plan.maxParallel
     /\ UNCHANGED running
     /\ \E cost \in 0 .. MaxCost : Booked(cost)
  \/ \E t \in Task : Leaves(t) /\ (UNCHANGED <<spent, exceeded>>
                                   \/ \E cost \in 0 .. MaxCost : Booked(cost))

LEMMA StepOfPool == Sound /\ [Next]_vars => PoolStep
<1> SUFFICES ASSUME Sound, [Next]_vars PROVE PoolStep
  OBVIOUS
<1>1. ASSUME NEW t \in Task, InitialReady(t) \/ HandleDependent(t) PROVE PoolStep
  BY <1>1 DEF InitialReady, HandleDependent, accounts, PoolStep
<1>2. ASSUME NEW t \in Task, CacheHit(t) PROVE PoolStep
  <2>1. PICK o \in Outcomes : ApplyCompletion(o.status, o.cost)
    BY <1>2 DEF CacheHit
  <2>2. o.cost \in 0 .. MaxCost
    BY CostAssumption
  <2>3. Booked(o.cost)
    BY <2>1, <2>2, Zenon DEF ApplyCompletion, Booked
  <2>4. Intact /\ ~exceeded /\ Width < plan.maxParallel /\ UNCHANGED running
    BY <1>2 DEF CacheHit, Take, MayDispatch, Width, Intact
  <2> QED BY <2>2, <2>3, <2>4, Zenon DEF PoolStep
<1>3. ASSUME NEW t \in Task, ApprovalDenied(t) \/ PolicyBlock(t) \/ AbandonedSubmit(t)
      PROVE  PoolStep
  BY <1>3 DEF ApprovalDenied, PolicyBlock, AbandonedSubmit, accounts, PoolStep
<1>4. ASSUME NEW t \in Task, Submit(t) PROVE PoolStep
  <2>1. t \in Task \ running
    BY <1>4 DEF Submit, Take, Sound, EveryTaskAccountedFor
  <2>2. Intact /\ ~exceeded /\ Width < plan.maxParallel /\ UNCHANGED <<spent, exceeded>>
    BY <1>4 DEF Submit, Take, MayDispatch, accounts, Width, Intact
  <2>3. running' = running \cup {t} /\ ~(t \in plan.exclusive /\ running \cap plan.exclusive # {})
    BY <1>4 DEF Submit, Take, SlotTaken
  <2> QED BY <2>1, <2>2, <2>3, Zenon DEF PoolStep
<1>5. ASSUME NEW t \in Task, Collect(t) PROVE PoolStep
  <2>1. outcome[t] \in Outcomes /\ Leaves(t)
    BY <1>5 DEF Collect, Sound, Typed, BatchFinished, TypeOK, Leaves
  <2>2. outcome[t].cost \in 0 .. MaxCost
    BY <2>1, CostAssumption
  <2>3. PICK st : ApplyCompletion(st, outcome[t].cost)
    BY <1>5 DEF Collect
  <2>4. Booked(outcome[t].cost)
    BY <2>2, <2>3, Zenon DEF ApplyCompletion, Booked
  <2> QED BY <2>1, <2>2, <2>4, Zenon DEF PoolStep
<1>6. ASSUME NEW t \in Task, CollectRaises(t) PROVE PoolStep
  BY <1>6 DEF CollectRaises, accounts, Sound, Typed, BatchFinished, Leaves, PoolStep
<1>7. ASSUME NEW t \in Task, WorkerFinish(t) PROVE PoolStep
  BY <1>7 DEF WorkerFinish, accounts, PoolStep
<1>8. CASE LoopTop \/ CancelExit \/ Requeue \/ StopDispatch \/ WaitReturns \/ Drain
  BY <1>8 DEF LoopTop, CancelExit, Requeue, StopDispatch, WaitReturns, Drain, accounts, PoolStep
<1>9. CASE Finish \/ Crash \/ HandleInterrupt \/ Interrupt
  BY <1>9 DEF Finish, Crash, HandleInterrupt, Interrupt, accounts, PoolStep
<1>10. CASE CancelRequest \/ Terminating \/ UNCHANGED vars
  BY <1>10 DEF CancelRequest, Terminating, vars, accounts, PoolStep
<1>11. CASE CutShort
  <2>0. ~Intact' /\ UNCHANGED exceeded
    BY <1>11, CutLeaves DEF Sound, Typed, CutEnds, Intact
  <2>1. ASSUME NEW t \in Task, CutVisit(t) PROVE PoolStep
    BY <2>0, <2>1 DEF CutVisit, accounts, PoolStep
  <2>2. ASSUME NEW t \in Task, CutLookup(t) PROVE PoolStep
    <3>1. PICK o \in Outcomes : spent' = spent + o.cost
      BY <2>2 DEF CutLookup
    <3>2. o.cost \in 0 .. MaxCost
      BY CostAssumption
    <3>3. Booked(o.cost)
      BY <2>0, <3>1, <3>2 DEF Booked
    <3>4. Intact /\ ~exceeded /\ Width < plan.maxParallel /\ UNCHANGED running
      BY <2>2 DEF CutLookup, Take, MayDispatch, Width, Intact
    <3> QED BY <3>2, <3>3, <3>4, Zenon DEF PoolStep
  <2>3. ASSUME NEW t \in Task, CutCollect(t) PROVE PoolStep
    <3>1. outcome[t].cost \in 0 .. MaxCost /\ Leaves(t)
      BY <2>3, BatchOutcome DEF CutCollect, Sound, Typed, Leaves
    <3>2. spent' = spent \/ spent' = spent + outcome[t].cost
      BY <2>3 DEF CutCollect
    <3>3. UNCHANGED <<spent, exceeded>> \/ Booked(outcome[t].cost)
      BY <2>0, <3>1, <3>2 DEF Booked
    <3> QED BY <3>1, <3>3, Zenon DEF PoolStep
  <2>4. CASE CutCancel \/ CutDrain
    BY <2>0, <2>4 DEF CutCancel, CutDrain, accounts, PoolStep
  <2> QED BY <1>11, <2>1, <2>2, <2>3, <2>4 DEF CutShort
<1> QED
  BY <1>1, <1>2, <1>3, <1>4, <1>5, <1>6, <1>7, <1>8, <1>9, <1>10, <1>11 DEF Next, MainStep, DispatchTask

LEMMA NextPool ==
  Sound /\ PoolBounded /\ BudgetKept /\ [Next]_vars => (PoolBounded /\ BudgetKept)'
<1> SUFFICES ASSUME Sound, PoolBounded, BudgetKept, [Next]_vars
             PROVE  PoolBounded' /\ BudgetKept'
  OBVIOUS
<1>1. /\ plan' = plan /\ plan.maxParallel \in Nat /\ plan.limit \in Nat
      /\ plan.budgeted \in BOOLEAN /\ MaxCost \in Nat /\ spent \in Nat
      /\ exceeded \in BOOLEAN /\ (Intact' => Intact)
  BY StepPhase, PlanFields, CostAssumption DEF Sound, Typed, TypeOK
<1>2. IsFiniteSet(running) /\ Width \in Nat
  BY WidthType
<1>3. PoolStep
  BY StepOfPool
<1>4. CASE UNCHANGED <<running, spent, exceeded>>
  BY <1>1, <1>4 DEF PoolBounded, BudgetKept, Width
<1>5. ASSUME NEW t \in Task \ running, running' = running \cup {t},
             ~(t \in plan.exclusive /\ running \cap plan.exclusive # {}),
             Intact, ~exceeded, Width < plan.maxParallel, UNCHANGED <<spent, exceeded>>
      PROVE  PoolBounded' /\ BudgetKept'
  <2>1. Width' = Width + 1
    BY <1>2, <1>5, FS_AddElement DEF Width
  <2>2. \A u, v \in running' \cap plan.exclusive : u = v
    BY <1>5 DEF PoolBounded
  <2>3. (Width + 1) * MaxCost <= plan.maxParallel * MaxCost /\ (Width + 1) * MaxCost \in Nat
    BY <1>1, <1>2, <1>5, Products
  <2>4. PoolBounded'
    BY <1>1, <1>2, <1>5, <2>1, <2>2 DEF PoolBounded
  <2>5. BudgetKept'
    <3> DEFINE one == Width * MaxCost
               two == (Width + 1) * MaxCost
               most == plan.maxParallel * MaxCost
    <3>1. one \in Nat /\ two \in Nat /\ most \in Nat /\ two = one + MaxCost /\ two <= most
      BY <1>1, <1>2, <2>3, Products
    <3>2. plan.budgeted => spent <= plan.limit
      BY <1>1, <1>5 DEF BudgetKept
    <3> QED BY <1>1, <1>5, <2>1, <3>1, <3>2 DEF BudgetKept
  <2> QED BY <2>4, <2>5
<1>6. ASSUME NEW cost \in 0 .. MaxCost, Booked(cost), UNCHANGED running,
             Intact, ~exceeded, Width < plan.maxParallel
      PROVE  PoolBounded' /\ BudgetKept'
  <2>1. Width' = Width
    BY <1>6 DEF Width
  <2>2. /\ (Width + 1) * MaxCost = Width * MaxCost + MaxCost
        /\ (Width + 1) * MaxCost <= plan.maxParallel * MaxCost
        /\ Width * MaxCost \in Nat /\ plan.maxParallel * MaxCost \in Nat
    BY <1>1, <1>2, <1>6, Products
  <2>3. PoolBounded'
    BY <1>1, <1>6, <2>1 DEF PoolBounded
  <2>4. plan.budgeted => spent <= plan.limit
    BY <1>6 DEF BudgetKept
  <2>5. spent' = spent + cost /\ (Intact' /\ ~exceeded' => ~(plan.budgeted /\ spent' > plan.limit))
    BY <1>6, Zenon DEF Booked
  <2> QED BY <1>1, <1>2, <2>1, <2>2, <2>3, <2>4, <2>5 DEF BudgetKept
<1>7. ASSUME NEW t \in Task, Leaves(t) PROVE PoolBounded' /\ Width = Width' + 1 /\ Width' \in Nat
  <2>1. Width' = Width - 1 /\ IsFiniteSet(running')
    BY <1>2, <1>7, FS_RemoveElement DEF Width, Leaves
  <2>2. Width' \in Nat
    BY <2>1, FS_CardinalityType DEF Width
  <2> QED BY <1>1, <1>2, <1>7, <2>1, <2>2 DEF PoolBounded, Leaves
<1>8. ASSUME NEW t \in Task, Leaves(t), UNCHANGED <<spent, exceeded>> PROVE BudgetKept'
  <2>1. Width * MaxCost = Width' * MaxCost + MaxCost /\ Width' * MaxCost \in Nat
    BY <1>1, <1>7, <1>8, Products
  <2> QED BY <1>1, <1>8, <2>1, Products DEF BudgetKept
<1>9. ASSUME NEW t \in Task, Leaves(t), NEW cost \in 0 .. MaxCost, Booked(cost)
      PROVE  BudgetKept'
  <2>1. Width * MaxCost = Width' * MaxCost + MaxCost /\ Width' * MaxCost \in Nat
    BY <1>1, <1>7, <1>9, Products
  <2>2. spent' = spent + cost /\ (Intact' /\ ~exceeded' => ~(plan.budgeted /\ spent' > plan.limit))
    BY <1>9, Zenon DEF Booked
  <2> QED BY <1>1, <2>1, <2>2, Products DEF BudgetKept
<1> QED BY <1>3, <1>4, <1>5, <1>6, <1>7, <1>8, <1>9 DEF PoolStep

LEMMA PoolInvariant == Spec => [](Sound /\ PoolBounded /\ BudgetKept)
<1>1. Init => PoolBounded /\ BudgetKept
  <2> SUFFICES ASSUME Init PROVE PoolBounded /\ BudgetKept
    OBVIOUS
  <2>1. plan \in Plans /\ running = {} /\ spent = 0 /\ exceeded = FALSE
    BY Zenon DEF Init
  <2>2. Width = 0
    BY <2>1, FS_EmptySet DEF Width
  <2>3. plan.maxParallel \in Nat /\ plan.limit \in Nat /\ MaxCost \in Nat
    BY <2>1, PlanFields, CostAssumption
  <2>4. 0 * MaxCost = 0 /\ plan.maxParallel * MaxCost \in Nat
    BY <2>3, Products
  <2> QED BY <2>1, <2>2, <2>3, <2>4 DEF PoolBounded, BudgetKept
<1>2. Sound /\ PoolBounded /\ BudgetKept /\ [Next]_vars => (PoolBounded /\ BudgetKept)'
  BY NextPool
<1> QED BY <1>1, <1>2, SoundInvariant, PTL DEF Spec

\* The pool never holds more than max_parallel tasks, nor two tasks of the
\* exclusive MCP slot.
THEOREM PoolHolds == Spec => []MaxParallel
<1>1. PoolBounded => MaxParallel
  BY DEF PoolBounded, MaxParallel, Width
<1> QED BY <1>1, PoolInvariant, PTL

\* However costs fall, a run overshoots its budget by at most one task per
\* worker.
THEOREM OvershootHolds == Spec => []OvershootBounded
<1>1. Sound /\ PoolBounded /\ BudgetKept => OvershootBounded
  <2> SUFFICES ASSUME Sound, PoolBounded, BudgetKept, plan.budgeted
               PROVE  spent <= plan.limit + plan.maxParallel * MaxCost
    BY DEF OvershootBounded
  <2>1. /\ plan.maxParallel \in Nat /\ plan.limit \in Nat /\ MaxCost \in Nat
        /\ spent \in Nat /\ Width \in Nat
    BY PlanFields, CostAssumption, WidthType DEF Sound, Typed, TypeOK
  <2>2. Width * MaxCost \in Nat /\ plan.maxParallel * MaxCost \in Nat
    BY <2>1, Products
  <2> QED BY <2>1, <2>2 DEF BudgetKept
<1> QED BY <1>1, PoolInvariant, PTL

-----------------------------------------------------------------------------
(***************************************************************************)
(* The scheduler implements PlanRun                                        *)
(***************************************************************************)
Places == [t \in Task |-> PlaceOf(t)]
Moved(S, to) == Places' = [t \in Task |-> IF t \in S THEN to ELSE Places[t]]

LEMMA PlaceMoves ==
  ASSUME Sound, NEW t \in Task
  PROVE  /\ Hold => Places' = Places
         /\ Take1(t) => Places[t] = "waiting" /\ Moved({t}, "running")
         /\ Settle1(t) => Places[t] = "waiting" /\ Moved({t}, "decided")
         /\ Collect1(t) => Places[t] = "running" /\ Moved({t}, "decided")
         /\ Lose1(t) => Places[t] \in {"running", "waiting"} /\ Moved({t}, "lost")
<1>1. /\ status \in [Task -> Status \cup {NoStatus}]
      /\ pending \in SUBSET Task /\ running \in SUBSET Task
      /\ pending \cap running = {} /\ running \cap Completed = {}
      /\ Intact => pending \cap Completed = {}
  BY DEF Sound, Typed, TypeOK, EveryTaskAccountedFor
<1> USE DEF Places, PlaceOf, Moved, Completed
<1>2. Hold => Places' = Places
  BY DEF Hold
<1>3. Take1(t) => Places[t] = "waiting" /\ Moved({t}, "running")
  BY <1>1 DEF Take1
<1>4. Settle1(t) => Places[t] = "waiting" /\ Moved({t}, "decided")
  BY <1>1, StatusSets DEF Settle1, DecidesOnly
<1>5. Collect1(t) => Places[t] = "running" /\ Moved({t}, "decided")
  BY <1>1, StatusSets DEF Collect1, DecidesOnly
<1>6. Lose1(t) => Places[t] \in {"running", "waiting"} /\ Moved({t}, "lost")
  BY <1>1 DEF Lose1
<1> QED BY <1>2, <1>3, <1>4, <1>5, <1>6

\* Some of the waiting tasks are decided, and some lost.
Waiting == {u \in Task : Places[u] = "waiting"}
Closed(lost, skipped) ==
  /\ skipped \in SUBSET Waiting
  /\ Places' = [t \in Task |-> IF t \in lost THEN "lost"
                               ELSE IF t \in skipped THEN "decided" ELSE Places[t]]

LEMMA PlacesClose ==
  ASSUME Sound
  PROVE  /\ SkipRest1 => Closed({}, Waiting)
         /\ \A gone, decided : SkipSome1(gone, decided) =>
              /\ Closed(gone \ decided, decided)
              /\ gone \in SUBSET Waiting
         /\ \A decided : Cancel1(decided) => Closed({}, decided)
<1>1. /\ status \in [Task -> Status \cup {NoStatus}]
      /\ pending \in SUBSET Task /\ running \in SUBSET Task
      /\ pending \cap running = {} /\ running \cap Completed = {}
      /\ Intact => pending \cap Completed = {}
  BY DEF Sound, Typed, TypeOK, EveryTaskAccountedFor
<1> USE DEF Places, PlaceOf, Waiting, Closed, Completed
<1>2. SkipRest1 => Closed({}, Waiting)
  BY <1>1, StatusSets DEF SkipRest1, DecidesOnly
<1>3. ASSUME NEW gone, NEW decided, SkipSome1(gone, decided)
      PROVE  Closed(gone \ decided, decided) /\ gone \in SUBSET Waiting
  BY <1>1, <1>3, StatusSets DEF SkipSome1, DecidesOnly
<1>4. ASSUME NEW decided, Cancel1(decided) PROVE Closed({}, decided)
  BY <1>1, <1>4, StatusSets DEF Cancel1, DecidesOnly
<1> QED BY <1>2, <1>3, <1>4

LEMMA ClosedIs ==
  ASSUME Sound, [Next]_vars, ~Open', NEW lost, NEW skipped, Closed(lost, skipped)
  PROVE  Run!SkipSome(lost)
<1>1. skipped \in SUBSET Run!In("waiting")
  BY DEF Closed, Waiting, Run!In, Places
<1>2. plan' = plan
  BY StepPhase DEF Sound
<1> QED BY <1>1, <1>2 DEF Closed, Run!SkipSome, Places

LEMMA InitImplements == Init => Run!Init
<1> SUFFICES ASSUME Init PROVE Run!Init
  OBVIOUS
<1>1. /\ plan \in Plans /\ status = plan.prior /\ running = {} /\ pc = "init"
      /\ pending = {t \in Task : plan.prior[t] = NoStatus}
  BY Zenon DEF Init
<1> QED BY <1>1 DEF Run!Init, PlaceOf, Open

\* A step of the scheduler takes one task on, or closes the run, or moves
\* nothing; this is each of them seen from PlanRun.
LEMMA NextImplements ==
  Sound /\ ReadyEntitled /\ [Next]_vars => [Run!Next]_(Run!vars)
<1> SUFFICES ASSUME Sound, ReadyEntitled, [Next]_vars PROVE [Run!Next]_(Run!vars)
  OBVIOUS
<1>0. /\ plan' = plan /\ status \in [Task -> Status \cup {NoStatus}] /\ TypeOK
      /\ ready \in Seq(Task) /\ pending \in SUBSET Task /\ Typed
  BY StepPhase DEF Sound, Typed, TypeOK
<1>1. ASSUME Places' = Places, Open' => Open PROVE [Run!Next]_(Run!vars)
  <2>1. CASE Open' <=> Open
    BY <1>0, <1>1, <2>1 DEF Run!vars, Places, Open
  <2>2. CASE Open /\ ~Open'
    <3>1. Closed({}, {})
      BY <1>1 DEF Closed, Places
    <3> QED BY <2>2, <3>1, ClosedIs DEF Run!Next, Run!Close
  <2> QED BY <1>1, <2>1, <2>2
<1>2. ASSUME NEW t \in Task, Entitled(t)
      PROVE  Run!DepsDecided(t)
  <2>1. plan.deps[t] \in SUBSET Task
    BY <1>0, PlanFields DEF TypeOK
  <2> QED BY <1>2, <2>1 DEF Entitled, Completed, Run!DepsDecided, PlaceOf
<1>3. ASSUME NEW t \in Task, Settle1(t), Entitled(t) \/ plan.deps[t] \subseteq Completed,
             Open
      PROVE  Run!Settle(t)
  <2>1. Places[t] = "waiting" /\ Moved({t}, "decided")
    BY <1>3, PlaceMoves
  <2>2. Run!DepsDecided(t)
    <3>1. plan.deps[t] \in SUBSET Task
      BY <1>0, PlanFields DEF TypeOK
    <3> QED BY <1>3, <3>1 DEF Entitled, Completed, Run!DepsDecided, PlaceOf
  <2> QED BY <1>0, <1>3, <2>1, <2>2 DEF Run!Settle, Run!MayClose, Run!Move, Moved, Places, Open
<1>4. ASSUME NEW t \in Task, InitialReady(t) \/ HandleDependent(t)
      PROVE  [Run!Next]_(Run!vars)
  <2>1. Open /\ Open' /\ running' = running /\ Intact
    BY <1>0, <1>4 DEF InitialReady, HandleDependent, Open, TypeOK, Intact
  <2>2. \/ UNCHANGED <<pending, status, reason>>
        \/ \E why \in Reasons : /\ t \in pending /\ plan.deps[t] \subseteq Completed
                                /\ SkipTask(t, why)
    BY <1>4 DEF InitialReady, HandleDependent, MakeReady, LeaveAlone, Reasons
  <2>3. CASE UNCHANGED <<pending, status, reason>>
    BY <1>1, <2>1, <2>3, PlaceMoves DEF Hold
  <2>4. ASSUME NEW why \in Reasons, t \in pending, plan.deps[t] \subseteq Completed,
               SkipTask(t, why)
        PROVE  [Run!Next]_(Run!vars)
    <3>1. Settle1(t)
      BY <1>0, <2>1, <2>4, DecideOnly, StatusSets DEF SkipTask, Settle1
    <3> QED BY <1>3, <2>1, <2>4, <3>1 DEF Run!Next
  <2> QED BY <2>2, <2>3, <2>4
<1>5. ASSUME NEW t \in Task, Take(t) PROVE Entitled(t) /\ Open
  <2>1. IsReady(t) /\ Open
    BY <1>0, <1>5 DEF Take, MayDispatch, IsReady, Open
  <2> QED BY <2>1 DEF ReadyEntitled
<1>6. ASSUME NEW t \in Task, CacheHit(t) \/ ApprovalDenied(t) \/ PolicyBlock(t)
      PROVE  [Run!Next]_(Run!vars)
  <2>1. PICK st \in Status, why \in Reasons : Decide(t, st, why)
    BY <1>6 DEF CacheHit, ApprovalDenied, PolicyBlock, Status, Reasons
  <2>2. Settle1(t)
    BY <1>0, <1>6, <2>1, DecideOnly
    DEF CacheHit, ApprovalDenied, PolicyBlock, Take, MayDispatch, Intact, Settle1
  <2>3. Take(t) /\ Open'
    BY <1>6 DEF CacheHit, ApprovalDenied, PolicyBlock, CallHandleDependents, Open
  <2> QED BY <1>3, <1>5, <2>2, <2>3 DEF Run!Next
<1>7. ASSUME NEW t \in Task, Submit(t) PROVE [Run!Next]_(Run!vars)
  <2>1. Take1(t) /\ Take(t) /\ pc' = pc
    BY <1>7 DEF Submit, Take, MayDispatch, Intact, Take1
  <2>2. Places[t] = "waiting" /\ Moved({t}, "running")
    BY <2>1, PlaceMoves
  <2>3. Entitled(t) /\ Open /\ (Open' <=> Open)
    BY <1>5, <2>1 DEF Open
  <2>4. Run!Start(t)
    BY <1>0, <1>2, <2>2, <2>3 DEF Run!Start, Run!Move, Moved, Places, Open
  <2> QED BY <2>4 DEF Run!Next
<1>8. ASSUME NEW t \in Task, Collect(t) PROVE [Run!Next]_(Run!vars)
  <2>1. outcome[t] \in Outcomes /\ outcome[t].status # "raised" /\ t \in running
    BY <1>0, <1>8 DEF Collect, Typed, BatchFinished, TypeOK
  <2>2. PICK st \in Status : Decide(t, st, "executed")
    BY <1>8, <2>1, OutcomeFields, StatusSets DEF Collect
  <2>3. Collect1(t) /\ Open /\ Open'
    BY <1>0, <1>8, <2>1, <2>2, DecideOnly DEF Collect, Collect1, CallHandleDependents, Open
  <2>4. Places[t] = "running" /\ Moved({t}, "decided")
    BY <2>3, PlaceMoves
  <2>5. Run!Finish(t)
    BY <1>0, <2>3, <2>4 DEF Run!Finish, Run!MayClose, Run!Move, Moved, Places, Open
  <2> QED BY <2>5 DEF Run!Next
<1>9. ASSUME NEW t \in Task, CollectRaises(t) \/ AbandonedSubmit(t)
      PROVE  [Run!Next]_(Run!vars)
  <2>1. Lose1(t) /\ Open /\ ~Open'
    BY <1>0, <1>9
    DEF CollectRaises, AbandonedSubmit, Take, MayDispatch, Typed, BatchFinished, Lose1, Open,
        Intact
  <2>2. /\ Places[t] = "running" \/ (Places[t] = "waiting" /\ Run!DepsDecided(t))
        /\ Moved({t}, "lost")
    <3>1. Places[t] \in {"running", "waiting"} /\ Moved({t}, "lost")
      BY <2>1, PlaceMoves
    <3>2. CASE CollectRaises(t)
      <4>1. t \in running
        BY <1>0, <3>2 DEF CollectRaises, Typed, BatchFinished
      <4>2. Places[t] # "waiting"
        BY <4>1 DEF Places, PlaceOf
      <4> QED BY <3>1, <4>2
    <3>3. CASE AbandonedSubmit(t)
      <4>1. Run!DepsDecided(t)
        BY <1>2, <1>5, <3>3 DEF AbandonedSubmit
      <4> QED BY <3>1, <4>1
    <3> QED BY <1>9, <3>1, <3>2, <3>3
  <2>3. Run!Lose(t)
    BY <1>0, <2>1, <2>2 DEF Run!Lose, Run!Move, Moved, Places, Open
  <2> QED BY <2>3 DEF Run!Next
<1>10. ASSUME NEW why \in Reasons, SkipAll(pending, why), pending' = {}, UNCHANGED running,
              Intact \/ why = "interrupted", ~Open'
       PROVE  [Run!Next]_(Run!vars)
  <2>1. /\ DecidesOnly(pending)
        /\ \A t \in pending : reason'[t] = why /\ status'[t] = "skipped"
    BY <1>0, <1>10, SkipAllOnly
  <2>2. SkipRest1
    BY <1>10, <2>1 DEF SkipRest1
  <2> QED BY <1>10, <2>2, PlacesClose, ClosedIs DEF Run!Next, Run!Close
<1>11. CASE CancelExit \/ HandleInterrupt
  BY <1>10, <1>11 DEF CancelExit, HandleInterrupt, Reasons, Open, Intact
<1>12. ASSUME Hold PROVE Places' = Places
  BY <1>12 DEF Hold, Places, PlaceOf
<1>13. CASE Drain
  <2>1. (IF stop # "none" THEN stop ELSE "budget") \in Reasons
    BY <1>0 DEF TypeOK, Reasons
  <2>2. ~Open' /\ UNCHANGED running /\ Intact
    BY <1>13 DEF Drain, Open, Intact
  <2> QED BY <1>1, <1>10, <1>12, <1>13, <2>1, <2>2 DEF Drain, Hold
<1>14. CASE LoopTop \/ Requeue \/ StopDispatch \/ WaitReturns \/ Finish \/ Crash
  <2>1. Hold /\ (Open' => Open)
    BY <1>14
    DEF LoopTop, Requeue, StopDispatch, WaitReturns, Finish, Crash, MayDispatch, Hold, Open
  <2> QED BY <1>1, <1>12, <2>1
<1>15. CASE Interrupt \/ CancelRequest \/ Terminating \/ UNCHANGED vars
  <2>1. Hold /\ (Open' => Open)
    BY <1>15 DEF Interrupt, CancelRequest, Terminating, vars, main, Hold, Open
  <2> QED BY <1>1, <1>12, <2>1
<1>16. ASSUME NEW t \in Task, WorkerFinish(t) PROVE [Run!Next]_(Run!vars)
  <2>1. Hold /\ (Open' => Open)
    BY <1>16 DEF WorkerFinish, main, Hold, Open
  <2> QED BY <1>1, <1>12, <2>1
<1>17. CASE CutShort
  <2>0. ~Open' /\ (pc # "drain" => Open)
    BY <1>0, <1>17, CutLeaves DEF CutEnds, Open, Typed
  <2>1. ASSUME NEW gone, NEW decided, SkipSome1(gone, decided)
        PROVE  [Run!Next]_(Run!vars)
    <3>1. Run!SkipSome(gone \ decided) /\ gone \in SUBSET Waiting
      BY <2>0, <2>1, PlacesClose, ClosedIs
    <3>2. CASE gone \ decided = {}
      BY <3>1, <3>2 DEF Run!Next, Run!Close
    <3>3. CASE gone \ decided # {} /\ ~Open
      <4>1. PICK u \in gone \ decided : TRUE
        BY <3>3
      <4>2. gone \ decided = {u}
        BY <2>1, <4>1 DEF SkipSome1, AtMostOne
      <4>3. u \in Run!In("waiting")
        BY <3>1, <4>1 DEF Run!In, Waiting, Places
      <4>4. Run!LoseWaiting
        BY <3>1, <3>3, <4>2, <4>3 DEF Run!LoseWaiting
      <4> QED BY <4>4 DEF Run!Next
    <3>4. CASE gone \ decided # {} /\ Open
      <4>1. PICK u \in Task : gone = {u} /\ (IsReady(u) \/ plan.deps[u] \subseteq Completed)
        BY <2>1, <3>4 DEF SkipSome1, ItsTurn, Open
      <4>2. decided = {} /\ Places[u] = "waiting"
        BY <2>1, <3>1, <3>4, <4>1 DEF SkipSome1, Waiting
      <4>3. Moved({u}, "lost")
        <5>1. Closed({u} \ {}, {})
          BY <2>1, <4>1, <4>2, PlacesClose
        <5> QED BY <5>1 DEF Closed, Moved
      <4>4. Run!DepsDecided(u)
        <5>1. plan.deps[u] \in SUBSET Task /\ plan.deps[u] \subseteq Completed
          BY <1>0, <4>1, PlanFields DEF TypeOK, ReadyEntitled, Entitled
        <5> QED BY <5>1 DEF Completed, Run!DepsDecided, PlaceOf
      <4>5. Run!Lose(u)
        BY <1>0, <2>0, <3>4, <4>2, <4>3, <4>4 DEF Run!Lose, Run!Move, Moved, Places, Open
      <4> QED BY <4>5 DEF Run!Next
    <3> QED BY <3>2, <3>3, <3>4
  <2>2. ASSUME NEW t \in Task, t \in running, Collect1(t) \/ Lose1(t), Open
        PROVE  [Run!Next]_(Run!vars)
    <3>1. Places[t] = "running" /\ (Moved({t}, "decided") \/ Moved({t}, "lost"))
      <4>1. Places[t] # "waiting"
        BY <2>2 DEF Places, PlaceOf
      <4> QED BY <2>2, <4>1, PlaceMoves
    <3>2. Run!Finish(t) \/ Run!Lose(t)
      BY <1>0, <2>0, <2>2, <3>1
      DEF Run!Finish, Run!Lose, Run!MayClose, Run!Move, Moved, Places, Open
    <3> QED BY <3>2 DEF Run!Next
  <2>3. ASSUME NEW decided, Cancel1(decided) PROVE [Run!Next]_(Run!vars)
    BY <2>0, <2>3, PlacesClose, ClosedIs DEF Run!Next, Run!Close
  <2>4. ASSUME NEW t \in Task, NEW decided, NEW told, NEW st, CutBack(t, decided, told, st)
        PROVE  [Run!Next]_(Run!vars)
    <3>1. t \in running /\ Open
      BY <2>0, <2>4 DEF CutBack
    <3> QED BY <1>0, <1>17, <2>2, <2>4, <3>1, CutBackHands
  <2> QED
    BY <1>0, <1>17, <2>1, <2>3, <2>4, CutCases, CutOutHands, CutOffHands DEF CutCase
<1> QED
  BY <1>4, <1>6, <1>7, <1>8, <1>9, <1>11, <1>13, <1>14, <1>15, <1>16, <1>17
  DEF Next, MainStep, DispatchTask

LEMMA ReadyInvariant == Spec => [](Sound /\ ReadyEntitled)
<1>1. Init => ReadyEntitled
  <2>1. Init => ready = <<>>
    BY Zenon DEF Init
  <2> QED BY <2>1 DEF ReadyEntitled, IsReady
<1>2. Sound /\ ReadyEntitled /\ [Next]_vars => ReadyEntitled'
  BY ReadyGrows, EntitledStays DEF ReadyEntitled
<1> QED BY <1>1, <1>2, SoundInvariant, PTL DEF Spec

\* Every run of the scheduler is a run of PlanRun.
THEOREM Implements == Spec => RunSpec
<1>1. Spec => Run!Init
  BY InitImplements DEF Spec
<1>2. Sound /\ ReadyEntitled /\ [Next]_vars => [Run!Next]_(Run!vars)
  BY NextImplements
<1>3. Spec => [][Run!Next]_(Run!vars)
  BY <1>2, ReadyInvariant, PTL DEF Spec
<1> QED BY <1>1, <1>3, PTL DEF Run!Spec, RunSpec

-----------------------------------------------------------------------------
(***************************************************************************)
(* The event log                                                           *)
(***************************************************************************)
\* Every type of event the scheduler writes sets the status of its task, so
\* only the last event of a task counts.
Told(e) == ReplayEvent(NoStatus, e)

LEMMA LastEventCounts ==
  ASSUME NEW st, NEW e \in Event
  PROVE  ReplayEvent(st, e) = Told(e)
BY DEF ReplayEvent, Told, Event, EventTypes

LEMMA ReplayedLast ==
  ASSUME NEW t \in Task, events[t] \in Seq(Event)
  PROVE  /\ events[t] = <<>> => ReplayedStatus(t) = NoStatus
         /\ events[t] # <<>> => ReplayedStatus(t) = Told(events[t][Len(events[t])])
<1> DEFINE log == events[t]
           L == Len(log)
           st[n \in 0 .. Len(events[t])] ==
             IF n = 0 THEN NoStatus ELSE ReplayEvent(st[n - 1], events[t][n])
           sol == [n \in 0 .. L |-> IF n = 0 THEN NoStatus ELSE Told(log[n])]
<1>1. L \in Nat /\ \A n \in 1 .. L : log[n] \in Event
  <2>1. L \in Nat
    OBVIOUS
  <2>2. \A n \in 1 .. L : log[n] \in Event
    OBVIOUS
  <2> QED
    BY <2>1, <2>2
<1>2. sol = [n \in 0 .. L |-> IF n = 0 THEN NoStatus ELSE ReplayEvent(sol[n - 1], log[n])]
  <2>1. \A n \in 0 .. L : n # 0 => ReplayEvent(sol[n - 1], log[n]) = Told(log[n])
    <3> SUFFICES ASSUME NEW n \in 0 .. L, n # 0
                 PROVE  ReplayEvent(sol[n - 1], log[n]) = Told(log[n])
      OBVIOUS
    <3>1. log[n] \in Event
      BY <1>1
    <3> HIDE DEF sol, log, L
    <3> QED
      BY <3>1, LastEventCounts
  <2> DEFINE a(n) == IF n = 0 THEN NoStatus ELSE Told(log[n])
             b(n) == IF n = 0 THEN NoStatus ELSE ReplayEvent(sol[n - 1], log[n])
  <2>2. \A n \in 0 .. L : a(n) = b(n)
    BY <2>1
  <2>3. sol = [n \in 0 .. L |-> a(n)]
    OBVIOUS
  <2> HIDE DEF a, b, sol
  <2>4. sol = [n \in 0 .. L |-> b(n)]
    BY <2>2, <2>3
  <2> QED
    BY <2>4 DEF b
<1>3. st = [n \in 0 .. L |-> IF n = 0 THEN NoStatus ELSE ReplayEvent(st[n - 1], log[n])]
  <2> HIDE DEF sol
  <2> QED
    BY <1>2
<1>4. ReplayedStatus(t) = st[L]
  BY DEF ReplayedStatus
<1> HIDE DEF st
<1>5. st[L] = IF L = 0 THEN NoStatus ELSE ReplayEvent(st[L - 1], log[L])
  <2>1. L \in 0 .. L
    BY <1>1
  <2> HIDE DEF L, log
  <2> QED
    BY <1>3, <2>1
<1>6. events[t] = <<>> => L = 0
  OBVIOUS
<1>7. events[t] # <<>> => L \in 1 .. L
  OBVIOUS
<1>8. events[t] # <<>> => ReplayEvent(st[L - 1], log[L]) = Told(log[L])
  BY <1>1, <1>7, LastEventCounts
<1> QED
  BY <1>1, <1>4, <1>5, <1>6, <1>7, <1>8

\* A log whose last event gives the task this status.
EndsWith(log, st) ==
  /\ log # <<>>
  /\ \/ log[Len(log)].type = "task_complete" /\ log[Len(log)].status = st
     \/ log[Len(log)].type = "task_skip" /\ st = "skipped"

\* A log that says nothing of how the task ended.
Unended(log) == log = <<>> \/ log[Len(log)].type = "task_start"

\* What the log says of a task goes with where the task is; one result may lack
\* its event once the run is broken off.
Silent(t) == reason[t] \in {"denied", "policy"} \/ t \in plan.guarded
Hanging == {t \in Completed : ~Silent(t) /\ Unended(events[t])}
LogTrue ==
  /\ \A t \in Task :
       /\ t \in pending \ Completed => events[t] = <<>>
       /\ t \in running => /\ events[t] # <<>>
                           /\ events[t][Len(events[t])].type = "task_start"
       /\ t \in Lost => Unended(events[t])
       /\ t \in Completed /\ ~Silent(t) /\ t \notin Hanging => EndsWith(events[t], status[t])
  /\ Intact => Hanging = {}
  /\ AtMostOne(Hanging)

\* What a step writes about a task: nothing, that it starts, or its end; or the
\* task gets a result, and the run is broken off before its event is written.
Says(t, type, st) ==
  events'[t] = Append(events[t], [type |-> type, status |-> st])
Quiet(t) == /\ events'[t] = events[t]
            /\ t \in pending' => t \in pending
            /\ t \in running' => t \in running
            /\ status'[t] = status[t] /\ reason'[t] = reason[t]
Begins(t) == /\ t \in pending /\ t \notin pending' /\ Intact
             /\ Says(t, "task_start", NoStatus)
             /\ \/ status'[t] = status[t] /\ t \notin Completed
                \/ t \notin running' /\ reason'[t] \in {"denied", "policy"} /\ status'[t] \in Status
Ends(t) == /\ t \in pending \cup running /\ t \notin running'
           /\ \/ Says(t, "task_skip", "skipped") /\ status'[t] = "skipped"
              \/ \E st \in Status : /\ Says(t, "task_complete", st) /\ status'[t] \in Status
                                    /\ st = status'[t] \/ t \in plan.guarded
Hangs(t) == /\ t \in pending \cup running /\ t \notin running'
            /\ Intact /\ ~Intact'
            /\ events'[t] = events[t] /\ status'[t] \in Status
LogStep == /\ \A t \in Task : Quiet(t) \/ Begins(t) \/ Ends(t) \/ Hangs(t)
           /\ \A t, u \in Task : Hangs(t) /\ Hangs(u) => t = u

\* The tasks a step does not touch.
LEMMA OthersQuiet ==
  ASSUME Sound, NEW t \in Task,
         pending' \in {pending, pending \ {t}},
         running' \in {running, running \ {t}, running \cup {t}},
         \/ UNCHANGED <<status, reason>>
         \/ \E st, why : Decide(t, st, why),
         UNCHANGED events \/ \E type, st : Emit(t, type, st)
  PROVE  \A u \in Task \ {t} : Quiet(u)
<1>1. /\ status \in [Task -> Status \cup {NoStatus}] /\ reason \in [Task -> Reasons]
      /\ events \in [Task -> Seq(Event)]
  BY DEF Sound, Typed, TypeOK
<1> SUFFICES ASSUME NEW u \in Task, u # t PROVE Quiet(u)
  OBVIOUS
<1>2. events'[u] = events[u]
  BY <1>1 DEF Emit
<1>3. status'[u] = status[u] /\ reason'[u] = reason[u]
  BY <1>1 DEF Decide
<1> QED
  BY <1>2, <1>3 DEF Quiet

LEMMA EmitSays ==
  ASSUME Sound, NEW t \in Task, NEW type, NEW st, Emit(t, type, st)
  PROVE  Says(t, type, st)
<1>1. events \in [Task -> Seq(Event)]
  BY DEF Sound, Typed, TypeOK
<1> QED
  BY <1>1 DEF Emit, Says

LEMMA DecideSays ==
  ASSUME Sound, NEW t \in Task, NEW st, NEW why, Decide(t, st, why)
  PROVE  status'[t] = st /\ reason'[t] = why
<1>1. status \in [Task -> Status \cup {NoStatus}] /\ reason \in [Task -> Reasons]
  BY DEF Sound, Typed, TypeOK
<1> QED
  BY <1>1 DEF Decide

\* Only a step that is cut short leaves a result without its event.
LEMMA HangsCut ==
  ASSUME Sound, [Next]_vars, ~CutShort, NEW u \in Task, Hangs(u)
  PROVE  FALSE
<1>0. Intact /\ ~Intact' /\ status'[u] # status[u]
  BY StatusSets DEF Hangs, Sound, EveryTaskAccountedFor, Completed
<1> USE DEF Intact
<1>1. ASSUME NEW t \in Task, InitialReady(t) \/ HandleDependent(t) PROVE Intact'
  <2>1. back \in {"loop", "dispatch", "collect"}
    BY DEF Sound, Typed, TypeOK
  <2> QED BY <1>1, <2>1 DEF InitialReady, HandleDependent
<1>2. ASSUME NEW t \in Task, CacheHit(t) \/ ApprovalDenied(t) \/ PolicyBlock(t) \/ Collect(t)
      PROVE  Intact'
  BY <1>2 DEF CacheHit, ApprovalDenied, PolicyBlock, Collect, CallHandleDependents
<1>3. ASSUME NEW t \in Task,
             Submit(t) \/ AbandonedSubmit(t) \/ CollectRaises(t) \/ WorkerFinish(t)
      PROVE  UNCHANGED status
  BY <1>3 DEF Submit, AbandonedSubmit, CollectRaises, WorkerFinish
<1>4. CASE CancelExit \/ Drain
  BY <1>0, <1>4 DEF CancelExit, Drain
<1>5. CASE HandleInterrupt
  BY <1>0, <1>5 DEF HandleInterrupt
<1>6. CASE LoopTop \/ Requeue \/ StopDispatch \/ WaitReturns \/ Finish \/ Crash
  BY <1>0, <1>6 DEF LoopTop, Requeue, StopDispatch, WaitReturns, Finish, Crash
<1>7. CASE Interrupt \/ CancelRequest \/ Terminating \/ UNCHANGED vars
  BY <1>0, <1>7 DEF Interrupt, CancelRequest, Terminating, vars
<1> QED
  BY <1>0, <1>1, <1>2, <1>3, <1>4, <1>5, <1>6, <1>7 DEF Next, MainStep, DispatchTask

LEMMA CutLog == Sound /\ CutShort => LogStep
<1> SUFFICES ASSUME Sound, CutShort PROVE LogStep
  OBVIOUS
<1>0. /\ TypeOK /\ Intact /\ ~Intact' /\ Typed
      /\ status \in [Task -> Status \cup {NoStatus}] /\ reason \in [Task -> Reasons]
      /\ pending \in SUBSET Task /\ running \in SUBSET Task
      /\ pending \cap running = {} /\ running \cap Completed = {} /\ pending \cap Completed = {}
  BY CutBreaks DEF Sound, Typed, TypeOK, EveryTaskAccountedFor
<1>1. ASSUME NEW decided, NEW told, NEW type, NEW st, NEW why,
             CutResult(decided, told, type, st, why),
             decided \subseteq pending \cup running, AtMostOne(decided \ told),
             running' \subseteq running, decided \cap running' = {}, pending' \subseteq pending
      PROVE  LogStep
  <2>1. /\ DecidesOnly(decided)
        /\ \A t \in decided : status'[t] = st
        /\ \A t \in told : events'[t] = Append(events[t], [type |-> type, status |-> st])
        /\ \A t \in Task \ told : events'[t] = events[t]
        /\ told \subseteq decided /\ decided \subseteq Task /\ st \in Status
        /\ type \in {"task_skip", "task_complete"} /\ (type = "task_skip" => st = "skipped")
    <3>1. /\ DecidesOnly(decided)
          /\ \A t \in decided : status'[t] = st /\ reason'[t] = why
          /\ \A t \in told : events'[t] = Append(events[t], [type |-> type, status |-> st])
          /\ \A t \in Task \ told : events'[t] = events[t]
      BY <1>0, <1>1, CutOnly
    <3>2. /\ told \subseteq decided /\ decided \subseteq Task /\ st \in Status
          /\ type \in {"task_skip", "task_complete"} /\ (type = "task_skip" => st = "skipped")
      BY <1>1 DEF CutResult
    <3> QED BY <3>1, <3>2
  <2>2. ASSUME NEW t \in told PROVE Ends(t)
    <3>1. t \in pending \cup running /\ t \notin running' /\ status'[t] = st
      BY <1>1, <2>1
    <3>2. Says(t, type, st)
      BY <2>1 DEF Says
    <3> QED BY <2>1, <3>1, <3>2 DEF Ends
  <2>3. ASSUME NEW t \in decided \ told PROVE Hangs(t)
    BY <1>0, <1>1, <2>1 DEF Hangs
  <2>4. ASSUME NEW t \in Task \ decided PROVE Quiet(t) /\ ~Hangs(t)
    <3>1. Quiet(t)
      BY <1>1, <2>1 DEF Quiet, DecidesOnly
    <3>2. t \in pending \cup running => status'[t] = NoStatus
      BY <1>0, <2>1 DEF DecidesOnly, Completed
    <3> QED BY <3>1, <3>2, StatusSets DEF Hangs
  <2>5. ASSUME NEW t \in told PROVE ~Hangs(t)
    <3>1. events[t] \in Seq(Event) /\ events'[t] = Append(events[t], [type |-> type, status |-> st])
      BY <2>1 DEF Sound, Typed, TypeOK
    <3>2. events'[t] # events[t]
      <4> DEFINE e == [type |-> type, status |-> st]
      <4> HIDE DEF e
      <4>1. Len(Append(events[t], e)) # Len(events[t])
        BY <3>1
      <4> QED BY <3>1, <4>1 DEF e
    <3> QED BY <3>2 DEF Hangs
  <2>6. \A t, u \in Task : Hangs(t) /\ Hangs(u) => t = u
    BY <1>1, <2>4, <2>5 DEF AtMostOne
  <2> QED BY <2>2, <2>3, <2>4, <2>6 DEF LogStep
<1>2. ASSUME NEW gone, NEW decided, NEW told, NEW type, NEW st, NEW why,
             CutOut(gone, decided, told, type, st, why)
      PROVE  LogStep
  <2>1. decided \cap running' = {} /\ AtMostOne(decided \ told)
    BY <1>0, <1>2 DEF CutOut, AtMostOne
  <2> QED BY <1>1, <1>2, <2>1 DEF CutOut
<1>3. ASSUME NEW t \in Task, NEW decided, NEW told, NEW st, CutBack(t, decided, told, st)
      PROVE  LogStep
  <2>1. AtMostOne(decided \ told) /\ decided \cap running' = {} /\ decided \subseteq running
    BY <1>3 DEF CutBack, AtMostOne
  <2> QED BY <1>1, <1>3, <2>1 DEF CutBack
<1>4. ASSUME NEW decided, NEW told, CutOff(decided, told) PROVE LogStep
  <2>1. decided \cap running' = {}
    BY <1>0, <1>4 DEF CutOff
  <2> QED BY <1>1, <1>4, <2>1 DEF CutOff
<1> QED BY <1>0, <1>2, <1>3, <1>4, CutCases DEF CutCase

LEMMA StepOfLog == Sound /\ [Next]_vars => LogStep
<1> SUFFICES ASSUME Sound, [Next]_vars, ~CutShort PROVE LogStep
  BY CutLog
<1>0. /\ status \in [Task -> Status \cup {NoStatus}] /\ reason \in [Task -> Reasons]
      /\ events \in [Task -> Seq(Event)] /\ pending \in SUBSET Task /\ TypeOK /\ Typed
      /\ EveryTaskAccountedFor /\ plan' = plan
  BY StepPhase DEF Sound, Typed, TypeOK
<1>1. ASSUME NEW t \in Task, Begins(t) \/ Ends(t) \/ Quiet(t),
             \A u \in Task \ {t} : Quiet(u)
      PROVE  LogStep
  BY <1>1, HangsCut DEF LogStep
<1>2. ASSUME UNCHANGED <<pending, status, reason, events>>, running' \subseteq running
      PROVE  LogStep
  BY <1>2, HangsCut DEF LogStep, Quiet
<1>3. ASSUME NEW t \in Task, t \in pending, t \notin running',
             Says(t, "task_skip", "skipped"), status'[t] = "skipped"
      PROVE  Ends(t)
  BY <1>3 DEF Ends
<1>4. ASSUME NEW t \in Task, InitialReady(t) \/ HandleDependent(t) PROVE LogStep
  <2>1. running' = running
    BY <1>4 DEF InitialReady, HandleDependent
  <2>2. \/ UNCHANGED <<pending, status, reason, events>>
        \/ t \in pending /\ \E why : SkipTask(t, why)
    BY <1>4 DEF InitialReady, HandleDependent, MakeReady, LeaveAlone
  <2>3. ASSUME t \in pending, NEW why, SkipTask(t, why) PROVE LogStep
    <3>1. /\ pending' = pending \ {t} /\ Decide(t, "skipped", why)
          /\ Emit(t, "task_skip", "skipped")
      BY <2>3 DEF SkipTask
    <3>2. status'[t] = "skipped" /\ Says(t, "task_skip", "skipped")
      BY <3>1, DecideSays, EmitSays
    <3>3. t \notin running
      BY <1>0, <2>3 DEF EveryTaskAccountedFor
    <3>4. Ends(t)
      BY <1>3, <2>1, <2>3, <3>1, <3>2, <3>3
    <3>5. \A u \in Task \ {t} : Quiet(u)
      BY <2>1, <3>1, OthersQuiet
    <3> QED BY <1>1, <3>4, <3>5
  <2> QED BY <1>2, <2>1, <2>2, <2>3
<1>5. ASSUME NEW t \in Task, Take(t) PROVE t \in pending /\ t \notin running /\ t \notin Completed
                                           /\ pending' = pending \ {t} /\ Intact
  BY <1>0, <1>5 DEF Take, MayDispatch, Intact, EveryTaskAccountedFor
<1>6. ASSUME NEW t \in Task, CacheHit(t) PROVE LogStep
  <2>1. PICK o \in Outcomes : /\ o.status \in {"success", "failed", "soft_failed"}
                              /\ Decide(t, o.status, "cache")
                              /\ Emit(t, "task_complete", o.status)
    BY <1>6 DEF CacheHit
  <2>2. Take(t) /\ running' = running
    BY <1>6 DEF CacheHit
  <2>3. o.status \in Status /\ status'[t] = o.status /\ Says(t, "task_complete", o.status)
    BY <2>1, DecideSays, EmitSays DEF Status
  <2>4. Ends(t)
    BY <1>5, <2>2, <2>3 DEF Ends
  <2>5. \A u \in Task \ {t} : Quiet(u)
    BY <1>5, <2>1, <2>2, OthersQuiet
  <2> QED BY <1>1, <2>4, <2>5
<1>7. ASSUME NEW t \in Task, ApprovalDenied(t) \/ PolicyBlock(t) PROVE LogStep
  <2>1. PICK st \in Status, why \in {"denied", "policy"} :
          Decide(t, st, why) /\ Emit(t, "task_start", NoStatus)
    BY <1>7 DEF ApprovalDenied, PolicyBlock, Status
  <2>2. Take(t) /\ running' = running
    BY <1>7 DEF ApprovalDenied, PolicyBlock
  <2>3. reason'[t] = why /\ status'[t] = st /\ Says(t, "task_start", NoStatus)
    BY <2>1, DecideSays, EmitSays
  <2>4. Begins(t)
    BY <1>5, <2>2, <2>3 DEF Begins
  <2>5. \A u \in Task \ {t} : Quiet(u)
    BY <1>5, <2>1, <2>2, OthersQuiet
  <2> QED BY <1>1, <2>4, <2>5
<1>8. ASSUME NEW t \in Task, Submit(t) \/ AbandonedSubmit(t) PROVE LogStep
  <2>1. /\ Take(t) /\ UNCHANGED <<status, reason>>
        /\ \/ Emit(t, "task_start", NoStatus) /\ running' \in {running, running \cup {t}}
           \/ UNCHANGED events /\ UNCHANGED running
    BY <1>8 DEF Submit, AbandonedSubmit
  <2>2. Begins(t) \/ Quiet(t)
    <3>1. CASE Emit(t, "task_start", NoStatus) /\ running' \in {running, running \cup {t}}
      BY <1>5, <2>1, <3>1, EmitSays DEF Begins
    <3>2. CASE UNCHANGED events /\ UNCHANGED running
      BY <1>5, <2>1, <3>2 DEF Quiet
    <3> QED BY <2>1, <3>1, <3>2
  <2>3. \A u \in Task \ {t} : Quiet(u)
    BY <1>5, <2>1, OthersQuiet
  <2> QED BY <1>1, <2>2, <2>3
<1>9. ASSUME NEW t \in Task, Collect(t) PROVE LogStep
  <2>1. outcome[t] \in Outcomes /\ outcome[t].status # "raised" /\ t \in running
    BY <1>0, <1>9 DEF Collect, Typed, BatchFinished, TypeOK
  <2>2. outcome[t].status \in Status
    BY <2>1, OutcomeFields, StatusSets
  <2>3. PICK st \in Status : /\ Decide(t, st, "executed")
                             /\ st = outcome[t].status \/ t \in plan.guarded
    BY <1>9, <2>2, StatusSets DEF Collect
  <2>4. /\ Emit(t, "task_complete", outcome[t].status)
        /\ running' = running \ {t} /\ pending' = pending /\ t \notin pending
    BY <1>0, <1>9, <2>1 DEF Collect, EveryTaskAccountedFor
  <2>5. status'[t] = st /\ Says(t, "task_complete", outcome[t].status)
    BY <2>3, <2>4, DecideSays, EmitSays
  <2>6. Ends(t)
    BY <2>1, <2>2, <2>3, <2>4, <2>5 DEF Ends
  <2>7. \A u \in Task \ {t} : Quiet(u)
    BY <2>3, <2>4, OthersQuiet
  <2> QED BY <1>1, <2>6, <2>7
<1>10. ASSUME NEW why \in Reasons, SkipAll(pending, why), pending' = {}, UNCHANGED running
       PROVE  LogStep
  <2> SUFFICES ASSUME NEW t \in Task PROVE Quiet(t) \/ Ends(t)
    BY HangsCut DEF LogStep
  <2>1. /\ status' = [u \in Task |-> IF u \in pending THEN "skipped" ELSE status[u]]
        /\ reason' = [u \in Task |-> IF u \in pending THEN why ELSE reason[u]]
        /\ events' = [u \in Task |->
              IF u \in pending
                THEN Append(events[u], [type |-> "task_skip", status |-> "skipped"])
                ELSE events[u]]
    BY <1>10, Zenon DEF SkipAll, DecideSome
  <2>2. CASE t \in pending
    <3>1. status'[t] = "skipped" /\ Says(t, "task_skip", "skipped")
      BY <2>1, <2>2 DEF Says
    <3>2. t \notin running
      BY <1>0, <2>2 DEF EveryTaskAccountedFor
    <3> QED BY <1>3, <1>10, <2>2, <3>1, <3>2
  <2>3. CASE t \notin pending
    BY <1>10, <2>1, <2>3 DEF Quiet
  <2> QED BY <2>2, <2>3
<1>11. CASE CancelExit \/ HandleInterrupt
  BY <1>10, <1>11 DEF CancelExit, HandleInterrupt, Reasons
<1>12. CASE Drain
  <2>1. (IF stop # "none" THEN stop ELSE "budget") \in Reasons
    BY <1>0 DEF TypeOK, Reasons
  <2> QED BY <1>2, <1>10, <1>12, <2>1 DEF Drain
<1>13. ASSUME NEW t \in Task, CollectRaises(t) \/ WorkerFinish(t) PROVE LogStep
  BY <1>2, <1>13 DEF CollectRaises, WorkerFinish
<1>14. CASE LoopTop \/ Requeue \/ StopDispatch \/ WaitReturns \/ Finish
  BY <1>2, <1>14 DEF LoopTop, Requeue, StopDispatch, WaitReturns, Finish
<1>15. CASE Crash \/ Interrupt \/ CancelRequest
  BY <1>2, <1>15 DEF Crash, Interrupt, CancelRequest
<1>16. CASE Terminating \/ UNCHANGED vars
  BY <1>2, <1>16 DEF Terminating, vars
<1> QED
  BY <1>4, <1>6, <1>7, <1>8, <1>9, <1>11, <1>12, <1>13, <1>14, <1>15, <1>16
  DEF Next, MainStep, DispatchTask

LEMMA AppendEnds ==
  ASSUME NEW log \in Seq(Event), NEW e
  PROVE  /\ Append(log, e) # <<>>
         /\ Append(log, e)[Len(Append(log, e))] = e
OBVIOUS

LEMMA NextLog == Sound /\ LogTrue /\ [Next]_vars => LogTrue'
<1> SUFFICES ASSUME Sound, LogTrue, [Next]_vars PROVE LogTrue'
  OBVIOUS
<1> USE DEF Unended
<1>0. /\ events \in [Task -> Seq(Event)] /\ plan' = plan /\ (Intact' => Intact)
      /\ status \in [Task -> Status \cup {NoStatus}]
      /\ LogStep /\ EveryTaskAccountedFor
      /\ EveryTaskAccountedFor' /\ pending' \in SUBSET Task /\ running' \in SUBSET Task
      /\ pending \in SUBSET Task /\ running \in SUBSET Task
  BY StepPhase, StepOfLog, NextSound DEF Sound, Typed, TypeOK
<1> DEFINE log == events
           Last(t) == events'[t][Len(events'[t])]
           TaskLog(t) ==
             /\ t \in pending' \ Completed' => events'[t] = <<>>
             /\ t \in running' => events'[t] # <<>> /\ Last(t).type = "task_start"
             /\ t \in Lost' => Unended(events'[t])
             /\ t \in Completed' /\ ~Silent(t)' /\ t \notin Hanging' => EndsWith(events'[t], status'[t])
             /\ t \in Hanging' => t \in Hanging \/ Hangs(t)
<1>1. ASSUME NEW t \in Task, Quiet(t) PROVE TaskLog(t)
  <2>1. /\ t \in Completed' <=> t \in Completed
        /\ Silent(t)' <=> Silent(t)
        /\ t \in Hanging' <=> t \in Hanging
    BY <1>0, <1>1 DEF Quiet, Completed, Silent, Hanging
  <2>2. t \in pending' \ Completed' => t \in pending \ Completed
    BY <1>1, <2>1 DEF Quiet
  <2>3. ASSUME t \in Lost' PROVE Unended(events[t])
    <3>1. t \notin Completed
      BY <2>1, <2>3 DEF Lost
    <3>2. t \in pending \/ t \in running \/ t \in Lost
      BY <3>1 DEF Lost
    <3> QED BY <3>1, <3>2 DEF LogTrue
  <2> QED BY <1>1, <2>1, <2>2, <2>3 DEF Quiet, LogTrue
<1>2. ASSUME NEW t \in Task, NEW e, Begins(t) \/ Ends(t),
             events'[t] = Append(events[t], e)
      PROVE  events'[t] # <<>> /\ Last(t) = e
  BY <1>0, <1>2, AppendEnds
<1>3. ASSUME NEW t \in Task, Begins(t) PROVE TaskLog(t)
  <2> DEFINE e == [type |-> "task_start", status |-> NoStatus]
  <2>1. events'[t] # <<>> /\ Last(t) = e
    <3>1. events'[t] = Append(events[t], e)
      BY <1>3 DEF Begins, Says
    <3> HIDE DEF e
    <3> QED BY <1>2, <1>3, <3>1
  <2>2. t \notin pending' /\ Unended(events'[t])
    BY <1>3, <2>1 DEF Begins
  <2>3. t \in Completed' => Silent(t)'
    BY <1>3 DEF Begins, Completed, Silent
  <2>4. t \in Hanging' => FALSE
    BY <2>3 DEF Hanging
  <2> QED BY <2>1, <2>2, <2>3, <2>4
<1>4. ASSUME NEW t \in Task, Ends(t) PROVE TaskLog(t)
  <2>0. status'[t] \in Status /\ t \notin running' /\ t \in Completed'
    BY <1>4, StatusSets DEF Ends, Completed
  <2>1. CASE Says(t, "task_skip", "skipped") /\ status'[t] = "skipped"
    <3> DEFINE e == [type |-> "task_skip", status |-> "skipped"]
    <3>1. events'[t] # <<>> /\ Last(t) = e
      <4>1. events'[t] = Append(events[t], e)
        BY <2>1 DEF Says
      <4> HIDE DEF e
      <4> QED BY <1>2, <1>4, <4>1
    <3>2. ~Unended(events'[t]) /\ EndsWith(events'[t], status'[t])
      BY <2>1, <3>1 DEF EndsWith
    <3> QED BY <2>0, <3>2 DEF Hanging, Lost
  <2>2. ASSUME NEW st \in Status, Says(t, "task_complete", st),
               st = status'[t] \/ t \in plan.guarded
        PROVE  TaskLog(t)
    <3> DEFINE e == [type |-> "task_complete", status |-> st]
    <3>1. events'[t] # <<>> /\ Last(t) = e
      <4>1. events'[t] = Append(events[t], e)
        BY <2>2 DEF Says
      <4> HIDE DEF e
      <4> QED BY <1>2, <1>4, <4>1
    <3>2. ~Unended(events'[t]) /\ (~Silent(t)' => EndsWith(events'[t], status'[t]))
      BY <1>0, <2>2, <3>1 DEF EndsWith, Silent
    <3> QED BY <2>0, <3>2 DEF Hanging, Lost
  <2> QED BY <1>4, <2>1, <2>2 DEF Ends
<1>5. ASSUME NEW t \in Task, Hangs(t) PROVE TaskLog(t)
  <2>1. status'[t] \in Status /\ t \notin running' /\ t \in Completed'
    BY <1>5, StatusSets DEF Hangs, Completed
  <2>2. Unended(events'[t])
    <3>1. t \notin Completed
      BY <1>0, <1>5 DEF Hangs, EveryTaskAccountedFor
    <3> QED BY <1>5, <3>1 DEF Hangs, LogTrue
  <2> QED BY <1>5, <2>1, <2>2 DEF Hanging, Lost
<1>6. \A t \in Task : TaskLog(t)
  BY <1>0, <1>1, <1>3, <1>4, <1>5 DEF LogStep
<1>7. \A t \in Hanging' : t \in Task /\ (t \in Hanging \/ Hangs(t))
  BY <1>6 DEF Hanging, Completed
<1>8. Intact' => Hanging' = {}
  BY <1>0, <1>7 DEF LogTrue, Hangs
<1>9. AtMostOne(Hanging)'
  <2>1. CASE Intact
    BY <1>0, <1>7, <2>1 DEF LogTrue, LogStep, AtMostOne
  <2>2. CASE ~Intact
    BY <1>7, <2>2 DEF LogTrue, Hangs, AtMostOne
  <2> QED BY <2>1, <2>2
<1> QED BY <1>6, <1>8, <1>9 DEF LogTrue

LEMMA InitLog == Init => LogTrue
<1> SUFFICES ASSUME Init PROVE LogTrue
  OBVIOUS
<1> DEFINE First(u) == IF plan.prior[u] = NoStatus THEN <<>>
                       ELSE <<[type |-> "task_complete", status |-> plan.prior[u]]>>
<1>1. /\ status = plan.prior /\ running = {} /\ plan \in Plans
      /\ pending = {u \in Task : plan.prior[u] = NoStatus}
      /\ events = [u \in Task |-> First(u)]
  BY Zenon DEF Init
<1>2. \A t \in Task : events[t] = First(t)
  <2> HIDE DEF First
  <2> QED BY <1>1
<1>3. ASSUME NEW t \in Task, t \in Completed
      PROVE  EndsWith(events[t], status[t]) /\ ~Unended(events[t])
  <2>1. events[t] = <<[type |-> "task_complete", status |-> plan.prior[t]]>>
    BY <1>1, <1>2, <1>3 DEF Completed
  <2>2. status[t] = plan.prior[t]
    BY <1>1
  <2> QED BY <2>1, <2>2 DEF EndsWith, Unended
<1>4. ASSUME NEW t \in Task, t \in pending PROVE events[t] = <<>> /\ t \notin Completed
  BY <1>1, <1>2, <1>4 DEF Completed
<1>5. Hanging = {} /\ Lost = {}
  BY <1>1, <1>3 DEF Hanging, Lost, Completed
<1> QED BY <1>1, <1>3, <1>4, <1>5 DEF LogTrue, AtMostOne

\* At every moment of every run, replay_run_state over the events written so
\* far gives each task that was not denied, blocked or guarded the status that
\* run_plan has for it; a run that is broken off between a result and its event
\* lacks that one event, and no other.
THEOREM LogReplays == Spec => []ReplayFaithful
<1>1. Sound /\ LogTrue => ReplayFaithful
  <2> SUFFICES ASSUME Sound, LogTrue PROVE ReplayFaithful
    OBVIOUS
  <2>0. \A t \in Task : events[t] \in Seq(Event) /\ status[t] \in Status \cup {NoStatus}
    BY DEF Sound, Typed, TypeOK
  <2>1. \A t \in Logged : t \in Task /\ ~Silent(t)
    BY DEF Logged, Silent
  <2> DEFINE Last(t) == events[t][Len(events[t])]
  <2>2. ASSUME NEW t \in Task
        PROVE  /\ events[t] = <<>> => ReplayedStatus(t) = NoStatus
               /\ events[t] # <<>> => /\ ReplayedStatus(t) = Told(Last(t))
                                      /\ Len(events[t]) \in 1 .. Len(events[t])
    BY <2>0, ReplayedLast
  <2>3. ASSUME NEW t \in Task, Unended(events[t])
        PROVE  ReplayedStatus(t) \in {"running", NoStatus}
    BY <2>2, <2>3 DEF Unended, Told, ReplayEvent
  <2>4. ASSUME NEW t \in Logged, t \in Completed, t \notin Hanging
        PROVE  /\ ReplayedStatus(t) = status[t] /\ ReplayCompleted(t)
               /\ ReplayedStatus(t) \notin {"running", NoStatus}
    <3>1. EndsWith(events[t], status[t])
      BY <2>1, <2>4 DEF LogTrue
    <3>2. status[t] \in Status
      BY <2>0, <2>1, <2>4 DEF Completed
    <3>3. Told(Last(t)) = status[t]
      BY <3>1 DEF EndsWith, Told, ReplayEvent
    <3>4. ReplayCompleted(t)
      BY <2>1, <2>2, <3>1, <3>2 DEF EndsWith, ReplayCompleted
    <3>5. ReplayedStatus(t) = status[t]
      BY <2>1, <2>2, <3>1, <3>3 DEF EndsWith
    <3> QED BY <3>2, <3>4, <3>5 DEF Status, NoStatus
  <2>5. Unlogged = Hanging
    <3>1. \A t \in Hanging : t \in Logged /\ t \in Completed /\ t \in Unlogged
      BY <2>3 DEF Hanging, Silent, Logged, Completed, Unlogged
    <3>2. \A t \in Unlogged : t \in Hanging
      BY <2>4 DEF Unlogged
    <3> QED BY <3>1, <3>2
  <2>6. ASSUME NEW t \in Logged, t \in running PROVE ReplayedStatus(t) = "running"
    <3>1. events[t] # <<>> /\ Last(t).type = "task_start"
      BY <2>1, <2>6 DEF LogTrue
    <3> QED BY <2>1, <2>2, <3>1 DEF Told, ReplayEvent
  <2>7. ASSUME NEW t \in Logged, t \in pending \ Completed PROVE ReplayedStatus(t) = NoStatus
    BY <2>1, <2>2, <2>7 DEF LogTrue
  <2>8. ASSUME NEW t \in Logged, t \in Lost PROVE ReplayedStatus(t) \in {"running", NoStatus}
    BY <2>1, <2>3, <2>8 DEF LogTrue
  <2>9. (Intact => Unlogged = {}) /\ AtMostOne(Unlogged)
    BY <2>5 DEF LogTrue
  <2> QED BY <2>4, <2>5, <2>6, <2>7, <2>8, <2>9 DEF ReplayFaithful
<1>2. Init => LogTrue
  BY InitLog
<1>3. Sound /\ LogTrue /\ [Next]_vars => LogTrue'
  BY NextLog
<1> QED BY <1>1, <1>2, <1>3, SoundInvariant, PTL DEF Spec

-----------------------------------------------------------------------------
(***************************************************************************)
(* Runs and the runs that resume them.  A resumed run starts as any run    *)
(* does, so what holds of every run holds of it.                           *)
(***************************************************************************)
\* What a manifest says of a task can be told from the reason.
Explained ==
  \A t \in Task :
    /\ reason[t] = "none" => status[t] = NoStatus
    /\ reason[t] = "resumed" => plan.prior[t] # NoStatus
    /\ reason[t] = "policy" => status[t] = "failed"
    /\ reason[t] \in {"dependency", "condition", "fail_fast"} => status[t] = "skipped"
    /\ reason[t] \in {"fail_fast", "breaker"} => stop # "none"
    /\ reason[t] = "budget" => exceeded
    /\ reason[t] = "cancelled" => cancelled

\* So far nothing has failed, stopped or cancelled the run.
Calm == /\ ~cancelled /\ stop = "none" /\ ~exceeded
        /\ \A t \in Task : status[t] # "failed"

\* In an open calm run a waiting task whose deps are decided is on the queue
\* or about to be looked at, or one of its deps was skipped by its condition.
HeldBack(t) == \E d \in plan.deps[t] : reason[d] = "condition"
Tracked ==
  Intact /\ Calm =>
    \A t \in pending : plan.deps[t] \subseteq Completed =>
      \/ IsReady(t)
      \/ pc \in {"init", "visit"} /\ t \in visit
      \/ HeldBack(t)

\* Once the loop is left, what still waits is behind something.
Behind(t) == \E d \in plan.deps[t] : status[d] = NoStatus \/ reason[d] = "condition"
LeftBehind ==
  pc \in {"drain", "join", "summary", "done"} /\ Calm => \A t \in pending : Behind(t)

\* What the manifests have recorded, and what the last one leaves to do.
Kept == \A t \in achieved : t \in Task /\ status[t] \in {"success", "soft_failed"}
ToDo == \A t \in starved : t \in Task /\ plan.prior[t] = NoStatus

SessionInv == /\ Sound /\ SkipsExplained /\ Explained /\ Tracked /\ LeftBehind
              /\ Kept /\ ToDo

LEMMA ApplyFlags ==
  ASSUME NEW st, NEW cost, ApplyCompletion(st, cost)
  PROVE  /\ stop # "none" => stop' # "none"
         /\ exceeded => exceeded'
<1>1. exceeded => exceeded'
  BY Zenon DEF ApplyCompletion
<1> QED BY <1>1, ApplyStop

FlagsKept == /\ stop # "none" => stop' # "none"
             /\ exceeded => exceeded'
             /\ cancelled => cancelled'

LEMMA FlagsStay == Sound /\ [Next]_vars => FlagsKept
<1> SUFFICES ASSUME Sound, [Next]_vars PROVE FlagsKept
  OBVIOUS
<1> USE DEF FlagsKept, accounts, main
<1>1. ASSUME NEW t \in Task, CacheHit(t) PROVE FlagsKept
  <2>1. PICK st, cost : ApplyCompletion(st, cost)
    BY <1>1 DEF CacheHit
  <2> QED BY <1>1, <2>1, ApplyFlags DEF CacheHit
<1>2. ASSUME NEW t \in Task, Collect(t) PROVE FlagsKept
  <2>1. PICK st, cost : ApplyCompletion(st, cost)
    BY <1>2 DEF Collect
  <2> QED BY <1>2, <2>1, ApplyFlags DEF Collect
<1>3. ASSUME NEW t \in Task, InitialReady(t) \/ HandleDependent(t) \/ WorkerFinish(t)
      PROVE  FlagsKept
  BY <1>3 DEF InitialReady, HandleDependent, WorkerFinish
<1>4. ASSUME NEW t \in Task, ApprovalDenied(t) \/ PolicyBlock(t) \/ Submit(t) \/ AbandonedSubmit(t)
      PROVE  FlagsKept
  BY <1>4 DEF ApprovalDenied, PolicyBlock, Submit, AbandonedSubmit
<1>5. ASSUME NEW t \in Task, CollectRaises(t) PROVE FlagsKept
  BY <1>5 DEF CollectRaises
<1>6. CASE LoopTop \/ CancelExit \/ Requeue \/ StopDispatch \/ WaitReturns
  BY <1>6 DEF LoopTop, CancelExit, Requeue, StopDispatch, WaitReturns
<1>7. CASE Drain \/ Finish \/ Crash \/ HandleInterrupt
  BY <1>7 DEF Drain, Finish, Crash, HandleInterrupt
<1>8. CASE Interrupt \/ CancelRequest \/ Terminating \/ UNCHANGED vars
  BY <1>8 DEF Interrupt, CancelRequest, Terminating, vars
<1>9. CASE CutShort
  BY <1>9, CutLeaves DEF CutEnds, Sound, Typed
<1> QED BY <1>1, <1>2, <1>3, <1>4, <1>5, <1>6, <1>7, <1>8, <1>9 DEF Next, MainStep, DispatchTask

LEMMA CalmBefore == Sound /\ [Next]_vars /\ Calm' => Calm
<1> SUFFICES ASSUME Sound, [Next]_vars, Calm' PROVE Calm
  OBVIOUS
<1>1. \A t \in Task : status[t] # NoStatus => status'[t] = status[t]
  BY DecidedStays DEF Sound
<1>2. ~cancelled /\ stop = "none" /\ ~exceeded
  BY FlagsStay DEF FlagsKept, Calm
<1> QED BY <1>1, <1>2 DEF Calm, NoStatus

\* How a task comes to a reason.
Reasoned(t) ==
  \/ reason'[t] \in {"executed", "cache", "denied", "interrupted"}
  \/ reason'[t] \in {"dependency", "condition"} /\ status'[t] = "skipped"
  \/ reason'[t] = "policy" /\ status'[t] = "failed"
  \/ reason'[t] = "cancelled" /\ cancelled'
  \/ reason'[t] \in {"fail_fast", "breaker"} /\ status'[t] = "skipped" /\ stop' # "none"
  \/ reason'[t] = "budget" /\ exceeded'

LEMMA ReasonGiven ==
  ASSUME Sound, [Next]_vars, NEW u \in Task
  PROVE  (status'[u] = status[u] /\ reason'[u] = reason[u]) \/ Reasoned(u)
<1> DEFINE Same == status'[u] = status[u] /\ reason'[u] = reason[u]
           Goal == Same \/ Reasoned(u)
<1>0. /\ reason \in [Task -> Reasons] /\ status \in [Task -> Status \cup {NoStatus}]
      /\ pending \in SUBSET Task /\ TypeOK
  BY DEF Sound, Typed, TypeOK
<1>1. CASE UNCHANGED <<status, reason>>
  BY <1>1
<1>2. ASSUME NEW t \in Task, NEW st, NEW why, Decide(t, st, why)
      PROVE  (u # t => Same) /\ (u = t => status'[u] = st /\ reason'[u] = why)
  BY <1>0, <1>2 DEF Decide
<1>3. ASSUME NEW t \in Task, InitialReady(t) \/ HandleDependent(t) PROVE Goal
  <2>1. \/ UNCHANGED <<status, reason>>
        \/ Decide(t, "skipped", "condition") \/ Decide(t, "skipped", "dependency")
    BY <1>3 DEF InitialReady, HandleDependent, MakeReady, LeaveAlone, SkipTask
  <2> QED BY <1>1, <1>2, <2>1 DEF Reasoned
<1>4. ASSUME NEW t \in Task, CacheHit(t) PROVE Goal
  <2>1. PICK st : Decide(t, st, "cache")
    BY <1>4 DEF CacheHit
  <2> QED BY <1>2, <2>1 DEF Reasoned
<1>5. ASSUME NEW t \in Task, ApprovalDenied(t) PROVE Goal
  <2>1. Decide(t, "skipped", "denied")
    BY <1>5 DEF ApprovalDenied
  <2> QED BY <1>2, <2>1 DEF Reasoned
<1>6. ASSUME NEW t \in Task, PolicyBlock(t) PROVE Goal
  <2>1. Decide(t, "failed", "policy")
    BY <1>6 DEF PolicyBlock
  <2> QED BY <1>2, <2>1 DEF Reasoned
<1>7. ASSUME NEW t \in Task, Collect(t) PROVE Goal
  <2>1. PICK st : Decide(t, st, "executed")
    BY <1>7 DEF Collect
  <2> QED BY <1>2, <2>1 DEF Reasoned
<1>8. ASSUME NEW why, SkipAll(pending, why)
      PROVE  Same \/ (reason'[u] = why /\ status'[u] = "skipped")
  <2>1. DecidesOnly(pending) /\ \A t \in pending : reason'[t] = why /\ status'[t] = "skipped"
    BY <1>0, <1>8, SkipAllOnly
  <2> QED BY <1>8, <2>1 DEF DecidesOnly
<1>9. CASE CancelExit
  <2>1. SkipAll(pending, "cancelled") /\ cancelled'
    BY <1>9 DEF CancelExit
  <2> QED BY <1>8, <2>1 DEF Reasoned
<1>10. CASE HandleInterrupt
  <2>1. SkipAll(pending, "interrupted")
    BY <1>10 DEF HandleInterrupt
  <2> QED BY <1>8, <2>1 DEF Reasoned
<1>11. CASE Drain
  <2>1. /\ UNCHANGED <<stop, exceeded>>
        /\ \/ UNCHANGED <<status, reason>>
           \/ /\ SkipAll(pending, IF stop # "none" THEN stop ELSE "budget")
              /\ stop # "none" \/ exceeded
    BY <1>11 DEF Drain, accounts
  <2>2. stop \in {"none", "fail_fast", "breaker"}
    BY <1>0 DEF TypeOK
  <2>3. CASE SkipAll(pending, stop) /\ stop # "none"
    BY <1>8, <2>1, <2>2, <2>3 DEF Reasoned
  <2>4. CASE SkipAll(pending, "budget") /\ exceeded
    BY <1>8, <2>1, <2>4 DEF Reasoned
  <2> QED BY <1>1, <2>1, <2>3, <2>4
<1>12. ASSUME NEW t \in Task, Submit(t) \/ AbandonedSubmit(t) \/ CollectRaises(t) \/ WorkerFinish(t)
       PROVE  UNCHANGED <<status, reason>>
  BY <1>12 DEF Submit, AbandonedSubmit, CollectRaises, WorkerFinish
<1>13. CASE LoopTop \/ Requeue \/ StopDispatch \/ WaitReturns \/ Finish \/ Crash
  BY <1>1, <1>13 DEF LoopTop, Requeue, StopDispatch, WaitReturns, Finish, Crash
<1>14. CASE Interrupt \/ CancelRequest \/ Terminating \/ UNCHANGED vars
  BY <1>1, <1>14 DEF Interrupt, CancelRequest, Terminating, vars
<1>15. CASE CutShort
  <2>1. /\ TypeOK /\ BatchFinished /\ stop \in {"none", "fail_fast", "breaker"}
        /\ UNCHANGED <<stop, exceeded, cancelled>>
    BY <1>0, <1>15, CutLeaves DEF Sound, Typed, TypeOK, CutEnds
  <2>2. CutDrain => stop # "none" \/ exceeded
    BY DEF CutDrain
  <2> QED BY <1>15, <2>1, <2>2, CutReasons DEF Reasoned
<1> QED
  BY <1>1, <1>3, <1>4, <1>5, <1>6, <1>7, <1>9, <1>10, <1>11, <1>12, <1>13, <1>14, <1>15
  DEF Next, MainStep, DispatchTask

LEMMA NextExplained == Sound /\ Explained /\ [Next]_vars => Explained'
<1> SUFFICES ASSUME Sound, Explained, [Next]_vars, NEW t \in Task
             PROVE  /\ reason'[t] = "none" => status'[t] = NoStatus
                    /\ reason'[t] = "resumed" => plan'.prior[t] # NoStatus
                    /\ reason'[t] = "policy" => status'[t] = "failed"
                    /\ reason'[t] \in {"dependency", "condition", "fail_fast"}
                         => status'[t] = "skipped"
                    /\ reason'[t] \in {"fail_fast", "breaker"} => stop' # "none"
                    /\ reason'[t] = "budget" => exceeded'
                    /\ reason'[t] = "cancelled" => cancelled'
  BY DEF Explained
<1>1. plan' = plan /\ FlagsKept
  BY StepPhase, FlagsStay DEF Sound
<1>2. CASE status'[t] = status[t] /\ reason'[t] = reason[t]
  BY <1>1, <1>2 DEF Explained, FlagsKept
<1>3. CASE Reasoned(t)
  BY <1>3 DEF Reasoned
<1> QED BY <1>2, <1>3, ReasonGiven

\* In a calm run a decided dep never starves an unconditional task.
LEMMA CalmEligible ==
  ASSUME Sound, Calm, NEW t \in Task, plan.deps[t] \subseteq Completed, ~Conditional(t)
  PROVE  Eligible(t)
<1>1. plan.deps[t] \in SUBSET Task /\ status \in [Task -> Status \cup {NoStatus}]
  BY PlanFields DEF Sound, Typed, TypeOK
<1>2. \A d \in plan.deps[t] : status[d] \in Status \ {"failed"}
  BY <1>1 DEF Completed, Calm
<1> QED BY <1>2 DEF Eligible, Status, SuccessLike

LEMMA OnlyCompletes ==
  ASSUME NEW t \in Task, \A u \in Task \ {t} : status'[u] = status[u]
  PROVE  Completed' \subseteq Completed \cup {t}
BY DEF Completed

\* The head leaves the queue, or goes to its end: the others stay on it.
LEMMA TailReady ==
  ASSUME ready \in Seq(Task), ready # <<>>, NEW u, IsReady(u),
         \/ ready' = Tail(ready) /\ u # Head(ready)
         \/ ready' = Append(Tail(ready), Head(ready))
  PROVE  IsReady(u)'
<1>1. PICK i \in 1 .. Len(ready) : ready[i] = u
  BY DEF IsReady
<1>2. /\ Len(ready) \in Nat /\ Len(Tail(ready)) = Len(ready) - 1
      /\ Tail(ready) \in Seq(Task) /\ Head(ready) = ready[1]
      /\ \A j \in 1 .. Len(ready) - 1 : Tail(ready)[j] = ready[j + 1]
  OBVIOUS
<1>3. CASE ready' = Tail(ready) /\ u # Head(ready)
  <2>1. i # 1
    BY <1>1, <1>2, <1>3
  <2>2. i - 1 \in 1 .. Len(ready) - 1 /\ (i - 1) + 1 = i
    BY <1>1, <1>2, <2>1
  <2>3. Tail(ready)[i - 1] = u
    BY <1>1, <1>2, <2>2
  <2> QED BY <1>2, <1>3, <2>2, <2>3 DEF IsReady
<1>4. CASE ready' = Append(Tail(ready), Head(ready))
  <2> DEFINE rest == Tail(ready)
  <2>1. /\ Len(ready') = Len(ready)
        /\ \A j \in 1 .. Len(ready) - 1 : ready'[j] = ready[j + 1]
        /\ ready'[Len(ready)] = Head(ready)
    BY <1>2, <1>4
  <2>2. CASE i = 1
    <3>1. Len(ready) \in 1 .. Len(ready') /\ ready'[Len(ready)] = u
      BY <1>1, <1>2, <2>1, <2>2
    <3> QED BY <3>1 DEF IsReady
  <2>3. CASE i # 1
    <3>1. i - 1 \in 1 .. Len(ready') /\ ready'[i - 1] = u
      BY <1>1, <1>2, <2>1, <2>3
    <3> QED BY <3>1 DEF IsReady
  <2> QED BY <2>2, <2>3
<1> QED BY <1>3, <1>4

LEMMA AppendReady ==
  ASSUME ready \in Seq(Task), NEW t \in Task, ready' = Append(ready, t)
  PROVE  /\ IsReady(t)'
         /\ \A u : IsReady(u) => IsReady(u)'
<1>1. /\ Len(ready) \in Nat /\ Len(ready') = Len(ready) + 1 /\ ready'[Len(ready) + 1] = t
      /\ \A i \in 1 .. Len(ready) : ready'[i] = ready[i]
  OBVIOUS
<1>2. IsReady(t)'
  BY <1>1 DEF IsReady
<1>3. ASSUME NEW u, IsReady(u) PROVE IsReady(u)'
  BY <1>1, <1>3 DEF IsReady
<1> QED BY <1>2, <1>3

LEMMA NextTracked == Sound /\ Explained /\ Tracked /\ [Next]_vars => Tracked'
<1> SUFFICES ASSUME Sound, Explained, Tracked, [Next]_vars PROVE Tracked'
  OBVIOUS
<1>t. pending' \in SUBSET Task
  BY NextSound DEF Sound, Typed, TypeOK
<1> SUFFICES ASSUME Intact', Calm', NEW u \in Task, u \in pending',
                    plan'.deps[u] \subseteq Completed'
             PROVE  \/ IsReady(u)'
                    \/ pc' \in {"init", "visit"} /\ u \in visit'
                    \/ HeldBack(u)'
  BY <1>t DEF Tracked
<1> DEFINE Goal == \/ IsReady(u)'
                   \/ pc' \in {"init", "visit"} /\ u \in visit'
                   \/ HeldBack(u)'
<1>0. /\ plan' = plan /\ Intact /\ Calm /\ TypeOK /\ ready \in Seq(Task)
      /\ status \in [Task -> Status \cup {NoStatus}] /\ reason \in [Task -> Reasons]
      /\ plan.deps[u] \in SUBSET Task /\ plan.deps[u] \subseteq Completed'
  BY StepPhase, CalmBefore, PlanFields DEF Sound, Typed, TypeOK
<1>1. HeldBack(u) => Goal
  <2> SUFFICES ASSUME NEW d \in plan.deps[u], reason[d] = "condition" PROVE HeldBack(u)'
    BY DEF HeldBack
  <2>1. d \in Task /\ status[d] # NoStatus
    BY <1>0 DEF Explained, NoStatus
  <2>2. reason'[d] = reason[d]
    BY <2>1, DecidedStays DEF Sound
  <2> QED BY <1>0, <2>2 DEF HeldBack
<1>2. u \in pending /\ plan.deps[u] \subseteq Completed =>
        \/ IsReady(u) \/ (pc \in {"init", "visit"} /\ u \in visit) \/ HeldBack(u)
  BY <1>0 DEF Tracked
<1>3. ASSUME UNCHANGED <<pending, status, ready>>,
             pc \in {"init", "visit"} => UNCHANGED <<pc, visit>>
      PROVE  Goal
  <2>1. u \in pending /\ plan.deps[u] \subseteq Completed
    BY <1>0, <1>3 DEF Completed
  <2> QED BY <1>1, <1>2, <1>3, <2>1 DEF IsReady
<1>4. ASSUME NEW t \in Task, InitialReady(t) \/ HandleDependent(t) PROVE Goal
  <2>1. /\ pc \in {"init", "visit"} /\ visit' = visit \ {t}
        /\ visit' # {} => pc' = pc
    BY <1>4 DEF InitialReady, HandleDependent
  <2>2. \/ t \in pending /\ plan.deps[t] \subseteq Completed /\ Eligible(t) /\ MakeReady(t)
        \/ /\ t \in pending /\ plan.deps[t] \subseteq Completed /\ ~Eligible(t)
           /\ SkipTask(t, IF Conditional(t) THEN "condition" ELSE "dependency")
        \/ /\ ~(t \in pending /\ plan.deps[t] \subseteq Completed /\ (Eligible(t) \/ Conditional(t)))
           /\ LeaveAlone
    BY <1>4 DEF InitialReady, HandleDependent
  <2>3. plan.deps[t] \subseteq Completed /\ ~Conditional(t) => Eligible(t)
    BY <1>0, CalmEligible
  <2>4. \A v : IsReady(v) => IsReady(v)'
    <3>1. CASE UNCHANGED ready
      BY <3>1 DEF IsReady
    <3>2. CASE MakeReady(t)
      BY <1>0, <3>2, AppendReady DEF MakeReady
    <3> QED BY <2>2, <3>1, <3>2 DEF SkipTask, LeaveAlone
  <2>5. u \in pending
    BY <2>2 DEF MakeReady, SkipTask, LeaveAlone
  <2>6. CASE plan.deps[u] \subseteq Completed
    <3>1. CASE u = t
      <4>1. MakeReady(t)
        BY <2>2, <2>3, <2>5, <2>6, <3>1 DEF SkipTask
      <4> QED BY <1>0, <3>1, <4>1, AppendReady DEF MakeReady
    <3>2. CASE u # t
      <4>1. u \in visit => u \in visit' /\ pc' = pc
        BY <2>1, <3>2
      <4> QED BY <1>1, <1>2, <2>1, <2>4, <2>5, <2>6, <4>1
    <3> QED BY <3>1, <3>2
  <2>7. CASE ~(plan.deps[u] \subseteq Completed)
    <3>1. Completed' # Completed
      BY <1>0, <2>7
    <3>2. SkipTask(t, "condition")
      BY <2>2, <2>3, <3>1 DEF MakeReady, LeaveAlone, Completed
    <3>3. reason'[t] = "condition" /\ \A v \in Task \ {t} : status'[v] = status[v]
      BY <1>0, <3>2 DEF SkipTask, Decide
    <3>4. t \in plan.deps[u]
      BY <1>0, <2>7, <3>3, OnlyCompletes
    <3> QED BY <1>0, <3>3, <3>4 DEF HeldBack
  <2> QED BY <2>6, <2>7
<1>5. ASSUME NEW t \in Task, Take(t)
      PROVE  /\ u \in pending /\ u # t /\ pc = "dispatch"
             /\ IsReady(u) => IsReady(u)'
  <2>1. /\ pc = "dispatch" /\ ready # <<>> /\ t = Head(ready) /\ ready' = Tail(ready)
        /\ pending' = pending \ {t}
    BY <1>5 DEF Take, MayDispatch
  <2>2. u \in pending /\ u # t
    BY <2>1
  <2> QED BY <1>0, <2>1, <2>2, TailReady
<1>6. ASSUME NEW t \in Task, NEW where, CallHandleDependents(t, where),
             \A v \in Task \ {t} : status'[v] = status[v],
             u \in pending, pc \notin {"init", "visit"}, IsReady(u) => IsReady(u)'
      PROVE  Goal
  <2>1. CASE plan.deps[u] \subseteq Completed
    BY <1>1, <1>2, <1>6, <2>1
  <2>2. CASE ~(plan.deps[u] \subseteq Completed)
    <3>1. t \in plan.deps[u]
      BY <1>0, <1>6, <2>2, OnlyCompletes
    <3>2. u \in visit' /\ pc' = "visit"
      BY <1>6, <3>1 DEF CallHandleDependents, Dependents
    <3> QED BY <3>2
  <2> QED BY <2>1, <2>2
<1>7. ASSUME NEW t \in Task, NEW st, NEW why, Decide(t, st, why)
      PROVE  \A v \in Task \ {t} : status'[v] = status[v]
  BY <1>0, <1>7 DEF Decide
<1>8. ASSUME NEW t \in Task, CacheHit(t) \/ ApprovalDenied(t) \/ PolicyBlock(t) PROVE Goal
  <2>1. PICK st, why : Decide(t, st, why)
    BY <1>8 DEF CacheHit, ApprovalDenied, PolicyBlock
  <2>2. Take(t) /\ CallHandleDependents(t, "dispatch")
    BY <1>8 DEF CacheHit, ApprovalDenied, PolicyBlock
  <2> QED BY <1>5, <1>6, <1>7, <2>1, <2>2
<1>9. ASSUME NEW t \in Task, Submit(t) PROVE Goal
  <2>1. Take(t) /\ UNCHANGED status
    BY <1>9 DEF Submit
  <2>2. plan.deps[u] \subseteq Completed
    BY <1>0, <2>1 DEF Completed
  <2> QED BY <1>1, <1>2, <1>5, <2>1, <2>2
<1>10. ASSUME NEW t \in Task, Collect(t) PROVE Goal
  <2>1. PICK st, why : Decide(t, st, why)
    BY <1>10 DEF Collect
  <2>2. /\ pc = "collect" /\ UNCHANGED <<ready, pending>>
        /\ \E where : CallHandleDependents(t, where)
    BY <1>10 DEF Collect
  <2>3. IsReady(u) => IsReady(u)'
    BY <2>2 DEF IsReady
  <2> QED BY <1>6, <1>7, <2>1, <2>2, <2>3
<1>11. CASE Requeue
  <2>1. /\ pc = "dispatch" /\ ready # <<>> /\ ready' = Append(Tail(ready), Head(ready))
        /\ UNCHANGED <<pending, status>>
    BY <1>11 DEF Requeue, MayDispatch
  <2>2. IsReady(u) => IsReady(u)'
    BY <1>0, <2>1, TailReady
  <2>3. u \in pending /\ plan.deps[u] \subseteq Completed
    BY <1>0, <2>1 DEF Completed
  <2> QED BY <1>1, <1>2, <2>1, <2>2, <2>3
<1>12. CASE LoopTop \/ StopDispatch \/ WaitReturns
  BY <1>3, <1>12 DEF LoopTop, StopDispatch, WaitReturns
<1>13. CASE CancelExit \/ Drain
  BY <1>3, <1>13 DEF CancelExit, Drain
<1>14. ASSUME NEW t \in Task, WorkerFinish(t) PROVE Goal
  BY <1>3, <1>14 DEF WorkerFinish, main
<1>15. CASE CancelRequest \/ Terminating \/ UNCHANGED vars
  BY <1>3, <1>15 DEF CancelRequest, Terminating, vars, main
<1>16. ASSUME NEW t \in Task, CollectRaises(t) \/ AbandonedSubmit(t) PROVE FALSE
  BY <1>16 DEF CollectRaises, AbandonedSubmit, Intact
<1>17. CASE Finish \/ Crash \/ Interrupt \/ HandleInterrupt
  BY <1>17 DEF Finish, Crash, Interrupt, HandleInterrupt, Intact
<1>18. CASE CutShort
  BY <1>18, CutBreaks DEF Sound
<1> QED
  BY <1>4, <1>8, <1>9, <1>10, <1>11, <1>12, <1>13, <1>14, <1>15, <1>16, <1>17, <1>18
  DEF Next, MainStep, DispatchTask

LEMMA NextLeftBehind ==
  Sound /\ Explained /\ Tracked /\ LeftBehind /\ [Next]_vars => LeftBehind'
<1> SUFFICES ASSUME Sound, Explained, Tracked, LeftBehind, [Next]_vars PROVE LeftBehind'
  OBVIOUS
<1>t. pending' \in SUBSET Task
  BY NextSound DEF Sound, Typed, TypeOK
<1> SUFFICES ASSUME Calm', pc' \in {"drain", "join", "summary", "done"},
                    NEW u \in Task, u \in pending'
             PROVE  Behind(u)'
  BY <1>t DEF LeftBehind
<1> DEFINE Late == {"drain", "join", "summary", "done"}
<1>0. /\ plan' = plan /\ Calm /\ TypeOK /\ ready \in Seq(Task) /\ running \in SUBSET Task
      /\ plan.deps[u] \in SUBSET Task /\ plan.maxParallel \in Nat \ {0}
  BY StepPhase, CalmBefore, PlanFields DEF Sound, Typed, TypeOK
<1>1. ASSUME UNCHANGED <<pending, status, reason>>, pc \in Late PROVE Behind(u)'
  BY <1>0, <1>1 DEF LeftBehind, Behind
<1>2. CASE StopDispatch
  <2>1. /\ pc = "dispatch" /\ running = {} /\ ~MayDispatch
        /\ UNCHANGED <<pending, status, reason>>
    BY <1>2 DEF StopDispatch
  <2>2. Cardinality(running) < plan.maxParallel
    BY <1>0, <2>1, FS_EmptySet
  <2>3. ready = <<>>
    BY <1>0, <2>1, <2>2 DEF MayDispatch, Calm
  <2>4. ~IsReady(u)
    BY <2>3 DEF IsReady
  <2>5. u \in pending /\ (plan.deps[u] \subseteq Completed => HeldBack(u))
    BY <1>0, <2>1, <2>4 DEF Tracked, Intact
  <2>6. Behind(u)
    BY <1>0, <2>5 DEF Behind, HeldBack, Completed
  <2> QED BY <1>0, <2>1, <2>6 DEF Behind
<1>3. CASE LoopTop
  BY <1>3 DEF LoopTop
<1>4. CASE CancelExit \/ HandleInterrupt
  BY <1>4 DEF CancelExit, HandleInterrupt
<1>5. CASE Drain \/ Finish
  BY <1>1, <1>5 DEF Drain, Finish
<1>6. CASE CancelRequest \/ Terminating \/ UNCHANGED vars
  BY <1>1, <1>6 DEF CancelRequest, Terminating, vars, main
<1>7. ASSUME NEW t \in Task, WorkerFinish(t) PROVE Behind(u)'
  BY <1>1, <1>7 DEF WorkerFinish, main
<1>8. ASSUME NEW t \in Task, InitialReady(t) \/ HandleDependent(t) PROVE FALSE
  BY <1>0, <1>8 DEF InitialReady, HandleDependent, TypeOK
<1>9. ASSUME NEW t \in Task, DispatchTask(t) \/ AbandonedSubmit(t) PROVE FALSE
  BY <1>9 DEF DispatchTask, CacheHit, ApprovalDenied, PolicyBlock, Submit, AbandonedSubmit,
              Take, MayDispatch, CallHandleDependents
<1>10. ASSUME NEW t \in Task, Collect(t) \/ CollectRaises(t) PROVE FALSE
  BY <1>10 DEF Collect, CollectRaises, CallHandleDependents
<1>11. CASE Requeue \/ WaitReturns \/ Crash \/ Interrupt
  BY <1>11 DEF Requeue, WaitReturns, Crash, Interrupt
<1>12. CASE CutShort
  BY <1>12, CutLeaves DEF CutEnds, Sound, Typed
<1> QED
  BY <1>2, <1>3, <1>4, <1>5, <1>6, <1>7, <1>8, <1>9, <1>10, <1>11, <1>12 DEF Next, MainStep

-----------------------------------------------------------------------------
LEMMA InitSession == Init => Sound /\ SkipsExplained /\ Explained /\ Tracked /\ LeftBehind
<1> SUFFICES ASSUME Init
             PROVE  Sound /\ SkipsExplained /\ Explained /\ Tracked /\ LeftBehind
  OBVIOUS
<1>1. /\ status = plan.prior /\ running = {} /\ batch = {} /\ pc = "init" /\ visit = Task
      /\ plan \in Plans
      /\ pending = {t \in Task : plan.prior[t] = NoStatus}
      /\ reason = [t \in Task |-> IF plan.prior[t] = NoStatus THEN "none" ELSE "resumed"]
  BY Zenon DEF Init
<1>2. Sound
  <2>1. Typed
    BY <1>1, InitType DEF Typed, BatchFinished
  <2>2. EveryTaskAccountedFor
    BY <1>1 DEF EveryTaskAccountedFor, Lost, Completed, Intact
  <2> QED BY <2>1, <2>2 DEF Sound
<1>3. SkipsExplained
  BY <1>1 DEF SkipsExplained, Blamed
<1>4. Explained
  BY <1>1 DEF Explained
<1>5. Tracked
  BY <1>1 DEF Tracked
<1>6. LeftBehind
  BY <1>1 DEF LeftBehind
<1> QED BY <1>2, <1>3, <1>4, <1>5, <1>6

\* A run that resumes another starts as any run does.
LEMMA ResumeStarts ==
  ASSUME Sound, Resume
  PROVE  Init' /\ plan'.prior = [t \in Task |-> LoadPrior(t)]
<1>1. plan \in Plans /\ status \in [Task -> Status \cup {NoStatus}]
  BY DEF Sound, Typed, TypeOK
<1> DEFINE kept == [t \in Task |-> LoadPrior(t)]
<1>2. kept \in [Task -> SuccessLike \cup {NoStatus}]
  BY <1>1 DEF LoadPrior
<1>3. plan' = [plan EXCEPT !.prior = kept]
  BY DEF Resume, ResumedPlan
<1> HIDE DEF kept
<1>4. plan' \in Plans
  BY <1>1, <1>2, <1>3, ResumableAssumption
<1>5. plan'.prior = kept
  BY <1>1, <1>3, PlansAssumption DEF PlanSpec
<1>6. /\ status' = plan'.prior
      /\ reason' = [t \in Task |-> IF plan'.prior[t] = NoStatus THEN "none" ELSE "resumed"]
      /\ events' = [t \in Task |->
                      IF plan'.prior[t] = NoStatus THEN <<>>
                      ELSE <<[type |-> "task_complete", status |-> plan'.prior[t]]>>]
  BY Zenon DEF Resume
<1>7. /\ pc' = "init" /\ visit' = Task /\ back' = "loop" /\ requeued' = 0
      /\ pending' = {t \in Task : plan'.prior[t] = NoStatus}
      /\ ready' = <<>> /\ running' = {} /\ batch' = {}
      /\ outcome' = [t \in Task |-> NoOutcome]
      /\ spent' = 0 /\ stop' = "none" /\ exceeded' = FALSE /\ failures' = 0
      /\ cancelled' = FALSE /\ verdict' = "none"
  BY Zenon DEF Resume
<1>8. Init'
  BY <1>4, <1>6, <1>7, Zenon DEF Init
<1> QED BY <1>5, <1>8 DEF kept

LEMMA InitSessionNext ==
  Init' => (Sound /\ SkipsExplained /\ Explained /\ Tracked /\ LeftBehind)'
BY InitSession, PTL


LEMMA SessionInvariant == ResumeSpec => []SessionInv
<1>1. ResumeInit => SessionInv
  BY InitSession DEF ResumeInit, SessionInv, Kept, ToDo
<1>2. SessionInv /\ [ResumeNext]_allVars => SessionInv'
  <2> SUFFICES ASSUME SessionInv, [ResumeNext]_allVars PROVE SessionInv'
    OBVIOUS
  <2> USE DEF SessionInv
  <2>1. CASE [Next]_vars /\ UNCHANGED <<session, achieved, starved>>
    <3>1. (Sound /\ SkipsExplained /\ Explained /\ Tracked /\ LeftBehind)'
      <4>1. Sound'
        BY <2>1, NextSound
      <4>2. SkipsExplained' /\ Explained'
        BY <2>1, NextSkips, NextExplained
      <4>3. Tracked' /\ LeftBehind'
        BY <2>1, NextTracked, NextLeftBehind
      <4> QED BY <4>1, <4>2, <4>3
    <3>2. plan' = plan /\ \A t \in Task : status[t] # NoStatus => status'[t] = status[t]
      BY <2>1, StepPhase, DecidedStays DEF Sound
    <3>3. Kept' /\ ToDo'
      BY <2>1, <3>2 DEF Kept, ToDo, NoStatus
    <3> QED BY <3>1, <3>3
  <2>2. CASE Resume
    <3>1. Init' /\ plan'.prior = [t \in Task |-> LoadPrior(t)]
      BY <2>2, ResumeStarts
    <3>2. (Sound /\ SkipsExplained /\ Explained /\ Tracked /\ LeftBehind)'
      BY <3>1, InitSessionNext
    <3>3. /\ status' = plan'.prior
          /\ achieved' = achieved \cup {t \in Task : status[t] \in {"success", "soft_failed"}}
          /\ starved' = {t \in Task : reason[t] \in {"dependency", "fail_fast"}}
      BY <2>2, Zenon DEF Resume
    <3>4. Kept'
      <4>1. \A t \in Task : status[t] \in {"success", "soft_failed"} => LoadPrior(t) = status[t]
        BY DEF LoadPrior, SuccessLike
      <4> QED BY <3>1, <3>3, <4>1 DEF Kept
    <3>5. ToDo'
      <4>1. \A t \in Task : reason[t] \in {"dependency", "fail_fast"} => LoadPrior(t) = NoStatus
        BY DEF LoadPrior, Explained
      <4> QED BY <3>1, <3>3, <4>1 DEF ToDo
    <3> QED BY <3>2, <3>4, <3>5
  <2> QED BY <2>1, <2>2 DEF ResumeNext, allVars
<1> QED BY <1>1, <1>2, PTL DEF ResumeSpec

\* Through any number of runs of one plan, interrupted, cancelled and failed
\* ones among them, a task that a manifest has recorded as succeeded keeps its
\* result and is never waiting or running again.
THEOREM AchievementsKept == ResumeSpec => []AchievementsSurvive
<1>1. SessionInv => AchievementsSurvive
  <2> SUFFICES ASSUME SessionInv, NEW t \in achieved
               PROVE  /\ status[t] \in {"success", "soft_failed"}
                      /\ t \notin running \cup pending
    BY DEF AchievementsSurvive
  <2>1. t \in Task /\ status[t] \in {"success", "soft_failed"}
    BY DEF SessionInv, Kept
  <2>2. t \in Completed
    BY <2>1 DEF Completed, NoStatus
  <2> QED BY <2>1, <2>2 DEF SessionInv, Sound, EveryTaskAccountedFor
<1> QED BY <1>1, SessionInvariant, PTL

\* A resumed run that is left alone and in which nothing fails takes up what
\* a failure had starved, and leaves tasks without a result only behind one
\* that its own condition kept from running.
THEOREM ResumeTakesUp == ResumeSpec => []ResumeCompletes
<1>1. SessionInv => ResumeCompletes
  <2> SUFFICES ASSUME SessionInv, pc = "done", SmoothRun
               PROVE  /\ \A t \in Task : status[t] = NoStatus =>
                           \E d \in plan.deps[t] : status[d] = NoStatus \/ reason[d] = "condition"
                      /\ \A t \in starved : status[t] # NoStatus =>
                           reason[t] \in {"executed", "cache", "condition", "denied"}
    BY DEF ResumeCompletes
  <2>1. Calm
    BY DEF SmoothRun, Undisturbed, Calm
  <2>2. ASSUME NEW t \in Task, status[t] = NoStatus PROVE Behind(t)
    <3>1. t \in pending
      BY <2>2 DEF SmoothRun, Undisturbed, Lost, Completed
    <3> QED BY <2>1, <3>1 DEF SessionInv, LeftBehind
  <2>3. ASSUME NEW t \in starved, status[t] # NoStatus
        PROVE  reason[t] \in {"executed", "cache", "condition", "denied"}
    <3>1. t \in Task /\ plan.prior[t] = NoStatus
      BY DEF SessionInv, ToDo
    <3>2. reason[t] \in Reasons
      BY <3>1 DEF SessionInv, Sound, Typed, TypeOK
    <3>3. reason[t] \notin {"none", "resumed"}
      BY <2>3, <3>1 DEF SessionInv, Explained
    <3>4. reason[t] \notin {"policy", "fail_fast", "breaker", "budget", "cancelled"}
      BY <2>1, <3>1 DEF SessionInv, Explained, Calm
    <3>5. reason[t] # "interrupted"
      BY <3>1 DEF SmoothRun, Undisturbed
    <3>6. reason[t] # "dependency"
      <4>1. plan.deps[t] \in SUBSET Task
        BY <3>1, PlanFields DEF SessionInv, Sound, Typed, TypeOK
      <4> QED
        BY <2>1, <3>1, <4>1 DEF SessionInv, SkipsExplained, CauseKnown, Blamed, Calm
    <3> QED BY <3>2, <3>3, <3>4, <3>5, <3>6 DEF Reasons
  <2> QED BY <2>2, <2>3 DEF Behind
<1> QED BY <1>1, SessionInvariant, PTL
=============================================================================
