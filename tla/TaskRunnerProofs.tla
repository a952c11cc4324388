-------------------------- MODULE TaskRunnerProofs --------------------------
(***************************************************************************)
(* Theorems about TaskRunner, for every set of models and every set of     *)
(* tasks that satisfies its assumption.                                    *)
(***************************************************************************)
EXTENDS TaskRunner, SequenceTheorems, TLAPS

LEMMA TaskFields ==
  ASSUME TypeOK
  PROVE  /\ task.kind \in {"plain", "group", "batch"}
         /\ task.model \in Model \cup {None} /\ task.fallbackModel \in Model \cup {None}
         /\ task.escalation \in Seq(Model)
         /\ task.maxRetries \in Nat /\ task.maxIterations \in Nat /\ task.chunks \in Nat
         /\ task.checks \subseteq Check /\ task.allowFailure \in BOOLEAN
BY DEF TypeOK, TaskSpec

LEMMA Bounds ==
  ASSUME TypeOK
  PROVE  /\ MaxAttempts \in Nat /\ MaxAttempts > 0 /\ MaxIterations \in Nat
         /\ LaunchLimit \in Nat
BY TaskFields DEF MaxAttempts, MaxIterations, LaunchLimit

LEMMA CommandBuilt ==
  ASSUME TypeOK, NEW e \in {"own", "fallback"}, NEW m \in Model \cup {None}
  PROVE  Built(e, m) \in Command
BY TaskFields DEF Built, Command

LEMMA NextModelType ==
  ASSUME TypeOK, NEW m \in Model \cup {None}
  PROVE  NextModel(m) \subseteq Model
<1>1. task.escalation \in Seq(Model)
  BY TaskFields
<1>2. \A i \in DOMAIN task.escalation : task.escalation[i] \in Model
  BY <1>1
<1>3. \A i \in 1 .. (Len(task.escalation) - 1) : i + 1 \in DOMAIN task.escalation
  BY <1>1
<1> QED BY <1>2, <1>3 DEF NextModel

LEMMA InitType == Init => TypeOK
<1> SUFFICES ASSUME Init PROVE TypeOK
  OBVIOUS
<1>1. task \in TaskSpec
  BY SpecsAssumption DEF Init
<1>2. task.model \in Model \cup {None}
  BY <1>1 DEF TaskSpec
<1>3. /\ command = [engine |-> "own", model |-> task.model] /\ model = task.model
      /\ pc = "gate" /\ attempt = 0 /\ iterations = 0 /\ status = None /\ failure = None
      /\ engine = "own" /\ feedback = FALSE /\ history = <<>> /\ launches = <<>>
      /\ passed = {} /\ tracked = FALSE /\ worktree = "none" /\ work = {}
      /\ published = {} /\ handoff = FALSE
  BY DEF Init
<1>4. command \in Command
  BY <1>2, <1>3 DEF Command
<1>5. history \in Seq(Nat) /\ launches \in Seq(Command)
  BY <1>3
<1>6. /\ pc \in Places /\ failure \in {None} /\ status \in {None}
      /\ attempt \in Nat /\ iterations \in Nat
      /\ engine \in {"own", "fallback"} /\ model \in Model \cup {None}
      /\ feedback \in BOOLEAN /\ tracked \in BOOLEAN /\ handoff \in BOOLEAN
      /\ passed \subseteq Check /\ work \subseteq Artifact
      /\ worktree \in {"none", "open", "removed"}
      /\ published \subseteq {"worktree", "phantom"}
  BY <1>2, <1>3 DEF Places
<1> QED BY <1>1, <1>4, <1>5, <1>6 DEF TypeOK

LEMMA NextType == TypeOK /\ [Next]_vars => TypeOK'
<1> SUFFICES ASSUME TypeOK, [Next]_vars PROVE TypeOK'
  OBVIOUS
<1> USE DEF Goto, Finish, Forgiven, Places, loop
<1>1. ASSUME NEW ok \in {"unloaded", "success", "failed"}, RunGroup(ok) PROVE TypeOK'
  BY <1>1 DEF RunGroup, TypeOK
<1>2. CASE BeginBatch
  BY <1>2 DEF BeginBatch, TypeOK
<1>3. CASE ChunkUnbuilt
  BY <1>3 DEF ChunkUnbuilt, TypeOK
<1>4. CASE LaunchChunk
  BY <1>4 DEF LaunchChunk, TypeOK
<1>5. ASSUME NEW ok \in BOOLEAN, ChunkEnds(ok) PROVE TypeOK'
  BY <1>5 DEF ChunkEnds, TypeOK
<1>6. ASSUME NEW ok \in BOOLEAN, CombineChunks(ok) PROVE TypeOK'
  BY <1>6, TaskFields DEF CombineChunks, TypeOK
<1>7. ASSUME NEW ok \in BOOLEAN, PassGate(ok) PROVE TypeOK'
  BY <1>7 DEF PassGate, TypeOK
<1>8. ASSUME NEW ok \in BOOLEAN, CreateWorktree(ok) PROVE TypeOK'
  BY <1>8 DEF CreateWorktree, TypeOK
<1>9. CASE BuildFails \/ DryRun \/ Unfit \/ PreparationRaises \/ StartAttempts
  <2>1. PICK where \in Places,
             st \in {None, "success", "failed", "soft_failed", "skipped", "dry_run"} :
          BeforeFirst(where, st)
    <3>1. CASE PreparationRaises
      BY <3>1 DEF PreparationRaises, TypeOK
    <3>2. CASE BuildFails \/ DryRun \/ Unfit \/ StartAttempts
      BY <3>2 DEF BuildFails, DryRun, Unfit, StartAttempts
    <3> QED BY <1>9, <3>1, <3>2
  <2> QED BY <2>1 DEF BeforeFirst, TypeOK
<1>10. CASE TooManyIterations
  BY <1>10 DEF TooManyIterations, TypeOK
<1>11. ASSUME NEW rebuilt \in BOOLEAN, NEW started \in BOOLEAN, BeginAttempt(rebuilt, started)
       PROVE  TypeOK'
  <2>1. engine \in {"own", "fallback"} /\ model \in Model \cup {None} /\ command \in Command
    BY DEF TypeOK
  <2>2. command' = Built(engine, model) \/ command' = command
    BY <1>11 DEF BeginAttempt
  <2>3. command' \in Command
    BY <2>1, <2>2, CommandBuilt
  <2>4. /\ pc' \in Places /\ iterations' \in Nat /\ passed' \subseteq Check
        /\ status' \in {status, "failed"} /\ failure' \in {None, "missing"}
        /\ tracked' \in BOOLEAN /\ launches' \in Seq(Command)
    <3>1. /\ iterations' = iterations + 1 /\ passed' = {}
          /\ \/ /\ launches' = Append(launches, command') /\ tracked' = TRUE
                /\ failure' = None /\ pc' = "run" /\ status' = status
             \/ /\ launches' = launches /\ tracked' = tracked
                /\ failure' = "missing" /\ pc' = "failed" /\ status' = "failed"
      BY <1>11, Zenon DEF BeginAttempt
    <3>2. launches' \in Seq(Command)
      BY <2>3, <3>1 DEF TypeOK
    <3>3. tracked' \in BOOLEAN
      BY <3>1 DEF TypeOK
    <3> QED BY <3>1, <3>2, <3>3 DEF TypeOK
  <2>5. UNCHANGED <<task, attempt, engine, model, feedback, history, worktree, work,
                    published, handoff>>
    BY <1>11 DEF BeginAttempt
  <2> QED BY <2>3, <2>4, <2>5 DEF TypeOK
<1>12. ASSUME NEW how \in {"ok", "exit", "engine", "timeout"}, ProcessEnds(how) PROVE TypeOK'
  <2>1. work' \subseteq Artifact
    BY <1>12 DEF ProcessEnds, TypeOK
  <2> QED BY <1>12, <2>1 DEF ProcessEnds, TypeOK
<1>13. ASSUME NEW c \in Check, CheckPasses(c) PROVE TypeOK'
  BY <1>13 DEF CheckPasses, TypeOK
<1>14. ASSUME NEW c \in Check, NEW raises \in BOOLEAN, CheckFails(c, raises) PROVE TypeOK'
  BY <1>14 DEF CheckFails, TypeOK
<1>15. CASE AttemptSucceeds
  BY <1>15 DEF AttemptSucceeds, TypeOK
<1>16. ASSUME NEW built \in BOOLEAN, FallBack(built) PROVE TypeOK'
  <2>1. command' = Built("fallback", task.fallbackModel) \/ command' = command
    BY <1>16 DEF FallBack
  <2>2. command' \in Command /\ model' \in Model \cup {None}
    BY <1>16, <2>1, CommandBuilt, TaskFields DEF FallBack, TypeOK
  <2>3. history' \in Seq(Nat)
    BY <1>16 DEF FallBack, Record, TypeOK
  <2> QED BY <1>16, <2>2, <2>3 DEF FallBack, TypeOK
<1>17. CASE Retry
  <2>1. model' \in Model \cup {None}
    <3>1. model' = model \/ model' \in NextModel(model)
      BY <1>17 DEF Retry
    <3>2. model \in Model \cup {None}
      BY DEF TypeOK
    <3> QED BY <3>1, <3>2, NextModelType
  <2>2. history' \in Seq(Nat)
    BY <1>17 DEF Retry, Record, TypeOK
  <2>3. feedback' \in BOOLEAN
    <3>1. task.engine \in BOOLEAN
      BY DEF TypeOK, TaskSpec
    <3> QED BY <1>17, <3>1, Zenon DEF Retry
  <2>4. attempt' \in Nat /\ pc' \in Places
    BY <1>17 DEF Retry, TypeOK
  <2>5. UNCHANGED <<task, iterations, failure, engine, command, status, launches, passed,
                    tracked, worktree, work, published, handoff>>
    BY <1>17 DEF Retry
  <2> QED BY <2>1, <2>2, <2>3, <2>4, <2>5 DEF TypeOK
<1>18. ASSUME NEW violated \in BOOLEAN, Report(violated) PROVE TypeOK'
  <2>1. handoff' \in BOOLEAN
    BY <1>18 DEF Report, RetriesExhausted
  <2> QED BY <1>18, <2>1 DEF Report, TypeOK
<1>19. ASSUME NEW answer \in {"none", "merged", "conflict", "empty", "error"},
              MergeWorktree(answer)
       PROVE  TypeOK'
  BY <1>19 DEF MergeWorktree, TypeOK
<1>20. ASSUME NEW ok \in BOOLEAN, ValidateOutput(ok) PROVE TypeOK'
  BY <1>20 DEF ValidateOutput, TypeOK
<1>21. ASSUME NEW ok \in {"invalid", "success", "failed", "raises"}, RunDynamic(ok) PROVE TypeOK'
  BY <1>21 DEF RunDynamic, TypeOK
<1>22. CASE CommitPhantom
  BY <1>22 DEF CommitPhantom, TypeOK
<1>23. CASE Over \/ UNCHANGED vars
  <2>1. UNCHANGED vars
    BY <1>23 DEF Over
  <2> QED BY <2>1 DEF vars, TypeOK
<1> QED
  BY <1>1, <1>2, <1>3, <1>4, <1>5, <1>6, <1>7, <1>8, <1>9, <1>10, <1>11, <1>12, <1>13,
     <1>14, <1>15, <1>16, <1>17, <1>18, <1>19, <1>20, <1>21, <1>22, <1>23
     DEF Next, Step

\* The state of a worker is well typed for every task.
THEOREM RunnerTypeCorrect == Spec => []TypeOK
<1> QED BY InitType, NextType, PTL DEF Spec

-----------------------------------------------------------------------------
(***************************************************************************)
(* The inductive invariant                                                 *)
(***************************************************************************)
BatchPlaces == {"chunk", "running", "combine"}
Before      == {"create", "build"}
Attempting  == {"run", "check", "failed"}
After       == {"report", "merge", "validate", "decompose", "finish"}

\* Which kind of task may be where, and that a batch makes no attempts.
KindsApart ==
  /\ pc \in BatchPlaces => task.kind = "batch"
  /\ pc \in Before \cup {"attempt", "raised"} \cup Attempting \cup After => task.kind = "plain"
  /\ task.kind # "plain" => iterations = 0
  /\ pc \in {"gate"} \cup Before => iterations = 0

\* Attempts, iterations and launches grow together.
LaunchesCounted ==
  /\ pc \in {"gate"} \cup Before => attempt = 0 /\ Len(launches) = 0
  /\ pc = "attempt" => /\ iterations = attempt /\ Len(launches) <= attempt
                       /\ attempt < MaxAttempts /\ attempt <= MaxIterations
  /\ pc \in Attempting => /\ iterations = attempt + 1 /\ Len(launches) <= iterations
                          /\ iterations <= MaxAttempts /\ iterations <= MaxIterations
  /\ pc = "chunk" => Len(launches) = attempt /\ attempt < task.chunks
  /\ pc = "running" => Len(launches) = attempt + 1 /\ attempt < task.chunks
  /\ pc = "combine" => /\ Len(launches) = attempt /\ attempt <= task.chunks
                       /\ status = "success" => attempt = task.chunks
  /\ Len(launches) <= LaunchLimit

\* What is known of the status along the way.
StatusKnown ==
  /\ pc \in {"attempt"} \cup Attempting \cup After \cup {"combine", "done"} => status # None
  /\ pc = "failed" => status = "failed"
  /\ pc = "check" => status \in SuccessLike /\ failure = None
  /\ pc \in {"run", "check"} => Len(launches) > 0
  /\ pc = "decompose" => status = "success"

\* From the report on, a good status has its launch and its checks.
Earned ==
  /\ task.kind = "plain" /\ pc \in After \cup {"done"} /\ status \in SuccessLike =>
       Len(launches) > 0 /\ task.checks \subseteq passed /\ failure = None
  /\ task.kind = "batch" /\ pc = "done" /\ status = "success" =>
       /\ Len(launches) = task.chunks
       /\ task.chunks > 0 => task.checks \cap {"guard"} \subseteq passed

\* Nothing is published before the merge, and what is has been checked.
PublishedLate ==
  /\ published # {} => /\ pc \in {"validate", "decompose", "finish", "done", "raised"}
                       /\ Len(launches) > 0 /\ task.checks \subseteq passed
  /\ "phantom" \in published => pc = "done" /\ status \in SuccessLike

\* The process is tracked while it runs, the worktree gone from the merge on.
Cleaned ==
  /\ tracked => pc = "run"
  /\ pc \in {"validate", "decompose", "finish"} => worktree # "open"
  /\ pc = "done" /\ iterations > 0 => worktree # "open"

\* Every attempt that failed is in the history, in order.
HistoryInOrder ==
  /\ pc \in {"gate"} \cup Before => history = <<>>
  /\ pc \in {"attempt"} \cup Attempting => history = [i \in 1 .. attempt |-> i]
  /\ pc \in {"report"} => Len(history) <= MaxAttempts

\* A handoff report means that the attempts are used up; a failure without
\* one has another cause.
CutShort ==
  \/ iterations > MaxIterations
  \/ "judge" \in task.checks /\ task.onFail = "fail" /\ failure = "check"
  \/ task.checks \subseteq passed /\ failure = None
HandoffKnown ==
  /\ handoff => /\ pc \in {"merge", "validate", "finish", "done"}
                /\ Len(history) = MaxAttempts /\ status = "failed"
  /\ pc = "report" /\ status = "failed" => CutShort \/ Len(history) = MaxAttempts
  /\ /\ pc \in (After \ {"report"}) \cup {"done"} /\ task.kind = "plain"
     /\ iterations > 0 /\ status = "failed" /\ ~handoff
     => CutShort

Shape == TypeOK /\ KindsApart /\ LaunchesCounted /\ StatusKnown
IInv == /\ Shape /\ Earned /\ PublishedLate /\ Cleaned
        /\ HistoryInOrder /\ HandoffKnown

-----------------------------------------------------------------------------
(***************************************************************************)
(* Every action keeps it                                                   *)
(***************************************************************************)
LEMMA Numbers ==
  ASSUME TypeOK
  PROVE  /\ attempt \in Nat /\ iterations \in Nat /\ launches \in Seq(Command)
         /\ command \in Command /\ task.chunks \in Nat
         /\ task.maxRetries \in Nat /\ task.maxIterations \in Nat
         /\ task.kind \in {"plain", "group", "batch"}
BY TaskFields DEF TypeOK

LEMMA NextKinds ==
  ASSUME TypeOK, KindsApart, [Next]_vars
  PROVE  KindsApart'
<1> USE DEF Goto, Finish, Forgiven, loop, KindsApart, BatchPlaces, Before, Attempting, After
<1>1. ASSUME NEW ok \in {"unloaded", "success", "failed"}, RunGroup(ok) PROVE KindsApart'
  BY Numbers, <1>1 DEF RunGroup
<1>2. CASE BeginBatch
  BY Numbers, <1>2 DEF BeginBatch
<1>3. CASE ChunkUnbuilt
  BY Numbers, <1>3 DEF ChunkUnbuilt
<1>4. CASE LaunchChunk
  BY Numbers, <1>4 DEF LaunchChunk
<1>5. ASSUME NEW ok \in BOOLEAN, ChunkEnds(ok) PROVE KindsApart'
  BY Numbers, <1>5 DEF ChunkEnds
<1>6. ASSUME NEW ok \in BOOLEAN, CombineChunks(ok) PROVE KindsApart'
  BY Numbers, <1>6 DEF CombineChunks
<1>7. ASSUME NEW ok \in BOOLEAN, PassGate(ok) PROVE KindsApart'
  BY Numbers, <1>7 DEF PassGate
<1>8. ASSUME NEW ok \in BOOLEAN, CreateWorktree(ok) PROVE KindsApart'
  BY Numbers, <1>8 DEF CreateWorktree
<1>9. CASE BuildFails \/ DryRun \/ Unfit \/ PreparationRaises \/ StartAttempts
  BY Numbers, <1>9 DEF BuildFails, DryRun, Unfit, PreparationRaises, StartAttempts, BeforeFirst
<1>10. CASE TooManyIterations
  BY Numbers, <1>10 DEF TooManyIterations, CapReached
<1>11. ASSUME NEW rebuilt \in BOOLEAN, NEW started \in BOOLEAN,
              BeginAttempt(rebuilt, started)
       PROVE  KindsApart'
  BY Numbers, <1>11 DEF BeginAttempt, CapReached
<1>12. ASSUME NEW how \in {"ok", "exit", "engine", "timeout"},
              ProcessEnds(how)
       PROVE  KindsApart'
  BY Numbers, <1>12 DEF ProcessEnds
<1>13. ASSUME NEW c \in Check, CheckPasses(c) PROVE KindsApart'
  BY Numbers, <1>13 DEF CheckPasses
<1>14. ASSUME NEW c \in Check, NEW raises \in BOOLEAN, CheckFails(c, raises)
       PROVE  KindsApart'
  BY Numbers, <1>14 DEF CheckFails
<1>15. CASE AttemptSucceeds
  BY Numbers, <1>15 DEF AttemptSucceeds
<1>16. ASSUME NEW built \in BOOLEAN, FallBack(built) PROVE KindsApart'
  BY Numbers, <1>16 DEF FallBack, FallsBack
<1>17. CASE Retry
  BY Numbers, <1>17 DEF Retry
<1>18. ASSUME NEW violated \in BOOLEAN, Report(violated) PROVE KindsApart'
  BY Numbers, <1>18 DEF Report
<1>19. ASSUME NEW answer \in {"none", "merged", "conflict", "empty", "error"},
              MergeWorktree(answer)
       PROVE  KindsApart'
  BY Numbers, <1>19 DEF MergeWorktree
<1>20. ASSUME NEW ok \in BOOLEAN, ValidateOutput(ok) PROVE KindsApart'
  BY Numbers, <1>20 DEF ValidateOutput
<1>21. ASSUME NEW ok \in {"invalid", "success", "failed", "raises"}, RunDynamic(ok)
       PROVE  KindsApart'
  BY Numbers, <1>21 DEF RunDynamic
<1>22. CASE CommitPhantom
  BY Numbers, <1>22 DEF CommitPhantom
<1>23. CASE Over \/ UNCHANGED vars
  BY Numbers, <1>23 DEF Over, vars
<1> QED
  BY <1>1, <1>2, <1>3, <1>4, <1>5, <1>6, <1>7, <1>8, <1>9, <1>10, <1>11, <1>12,
     <1>13, <1>14, <1>15, <1>16, <1>17, <1>18, <1>19, <1>20, <1>21, <1>22, <1>23
     DEF Next, Step

LEMMA NextCounted ==
  ASSUME TypeOK, KindsApart, LaunchesCounted, StatusKnown, [Next]_vars
  PROVE  LaunchesCounted'
<1> USE DEF Goto, Finish, Forgiven, loop, LaunchesCounted, LaunchLimit, MaxAttempts,
           MaxIterations, LastAttempt, KindsApart, StatusKnown, BatchPlaces, Before,
           Attempting, After
<1>1. ASSUME NEW ok \in {"unloaded", "success", "failed"}, RunGroup(ok) PROVE LaunchesCounted'
  BY Numbers, <1>1 DEF RunGroup
<1>2. CASE BeginBatch
  BY Numbers, <1>2 DEF BeginBatch
<1>3. CASE ChunkUnbuilt
  BY Numbers, <1>3 DEF ChunkUnbuilt
<1>4. CASE LaunchChunk
  BY Numbers, <1>4 DEF LaunchChunk
<1>5. ASSUME NEW ok \in BOOLEAN, ChunkEnds(ok) PROVE LaunchesCounted'
  BY Numbers, <1>5 DEF ChunkEnds
<1>6. ASSUME NEW ok \in BOOLEAN, CombineChunks(ok) PROVE LaunchesCounted'
  BY Numbers, <1>6 DEF CombineChunks
<1>7. ASSUME NEW ok \in BOOLEAN, PassGate(ok) PROVE LaunchesCounted'
  BY Numbers, <1>7 DEF PassGate
<1>8. ASSUME NEW ok \in BOOLEAN, CreateWorktree(ok) PROVE LaunchesCounted'
  BY Numbers, <1>8 DEF CreateWorktree
<1>9. CASE BuildFails \/ DryRun \/ Unfit \/ PreparationRaises \/ StartAttempts
  BY Numbers, <1>9 DEF BuildFails, DryRun, Unfit, PreparationRaises, StartAttempts, BeforeFirst
<1>10. CASE TooManyIterations
  BY Numbers, <1>10 DEF TooManyIterations, CapReached
<1>11. ASSUME NEW rebuilt \in BOOLEAN, NEW started \in BOOLEAN,
              BeginAttempt(rebuilt, started)
       PROVE  LaunchesCounted'
  BY Numbers, <1>11 DEF BeginAttempt, CapReached
<1>12. ASSUME NEW how \in {"ok", "exit", "engine", "timeout"},
              ProcessEnds(how)
       PROVE  LaunchesCounted'
  BY Numbers, <1>12 DEF ProcessEnds
<1>13. ASSUME NEW c \in Check, CheckPasses(c) PROVE LaunchesCounted'
  BY Numbers, <1>13 DEF CheckPasses
<1>14. ASSUME NEW c \in Check, NEW raises \in BOOLEAN, CheckFails(c, raises)
       PROVE  LaunchesCounted'
  BY Numbers, <1>14 DEF CheckFails
<1>15. CASE AttemptSucceeds
  BY Numbers, <1>15 DEF AttemptSucceeds
<1>16. ASSUME NEW built \in BOOLEAN, FallBack(built) PROVE LaunchesCounted'
  BY Numbers, <1>16 DEF FallBack, FallsBack
<1>17. CASE Retry
  BY Numbers, <1>17 DEF Retry
<1>18. ASSUME NEW violated \in BOOLEAN, Report(violated) PROVE LaunchesCounted'
  BY Numbers, <1>18 DEF Report
<1>19. ASSUME NEW answer \in {"none", "merged", "conflict", "empty", "error"},
              MergeWorktree(answer)
       PROVE  LaunchesCounted'
  BY Numbers, <1>19 DEF MergeWorktree
<1>20. ASSUME NEW ok \in BOOLEAN, ValidateOutput(ok) PROVE LaunchesCounted'
  BY Numbers, <1>20 DEF ValidateOutput
<1>21. ASSUME NEW ok \in {"invalid", "success", "failed", "raises"}, RunDynamic(ok)
       PROVE  LaunchesCounted'
  BY Numbers, <1>21 DEF RunDynamic
<1>22. CASE CommitPhantom
  BY Numbers, <1>22 DEF CommitPhantom
<1>23. CASE Over \/ UNCHANGED vars
  BY Numbers, <1>23 DEF Over, vars
<1> QED
  BY <1>1, <1>2, <1>3, <1>4, <1>5, <1>6, <1>7, <1>8, <1>9, <1>10, <1>11, <1>12,
     <1>13, <1>14, <1>15, <1>16, <1>17, <1>18, <1>19, <1>20, <1>21, <1>22, <1>23
     DEF Next, Step

LEMMA NextStatus ==
  ASSUME TypeOK, KindsApart, LaunchesCounted, StatusKnown, [Next]_vars
  PROVE  StatusKnown'
<1> USE DEF Goto, Finish, Forgiven, loop, LaunchesCounted, KindsApart, StatusKnown,
           SuccessLike, None, BatchPlaces, Before, Attempting, After
<1>1. ASSUME NEW ok \in {"unloaded", "success", "failed"}, RunGroup(ok) PROVE StatusKnown'
  BY Numbers, <1>1 DEF RunGroup
<1>2. CASE BeginBatch
  BY Numbers, <1>2 DEF BeginBatch
<1>3. CASE ChunkUnbuilt
  BY Numbers, <1>3 DEF ChunkUnbuilt
<1>4. CASE LaunchChunk
  BY Numbers, <1>4 DEF LaunchChunk
<1>5. ASSUME NEW ok \in BOOLEAN, ChunkEnds(ok) PROVE StatusKnown'
  BY Numbers, <1>5 DEF ChunkEnds
<1>6. ASSUME NEW ok \in BOOLEAN, CombineChunks(ok) PROVE StatusKnown'
  BY Numbers, <1>6 DEF CombineChunks
<1>7. ASSUME NEW ok \in BOOLEAN, PassGate(ok) PROVE StatusKnown'
  BY Numbers, <1>7 DEF PassGate
<1>8. ASSUME NEW ok \in BOOLEAN, CreateWorktree(ok) PROVE StatusKnown'
  BY Numbers, <1>8 DEF CreateWorktree
<1>9. CASE BuildFails \/ DryRun \/ Unfit \/ PreparationRaises \/ StartAttempts
  BY Numbers, <1>9 DEF BuildFails, DryRun, Unfit, PreparationRaises, StartAttempts, BeforeFirst
<1>10. CASE TooManyIterations
  BY Numbers, <1>10 DEF TooManyIterations, CapReached
<1>11. ASSUME NEW rebuilt \in BOOLEAN, NEW started \in BOOLEAN,
              BeginAttempt(rebuilt, started)
       PROVE  StatusKnown'
  BY Numbers, <1>11 DEF BeginAttempt, CapReached
<1>12. ASSUME NEW how \in {"ok", "exit", "engine", "timeout"},
              ProcessEnds(how)
       PROVE  StatusKnown'
  BY Numbers, <1>12 DEF ProcessEnds
<1>13. ASSUME NEW c \in Check, CheckPasses(c) PROVE StatusKnown'
  BY Numbers, <1>13 DEF CheckPasses
<1>14. ASSUME NEW c \in Check, NEW raises \in BOOLEAN, CheckFails(c, raises)
       PROVE  StatusKnown'
  BY Numbers, <1>14 DEF CheckFails
<1>15. CASE AttemptSucceeds
  BY Numbers, <1>15 DEF AttemptSucceeds
<1>16. ASSUME NEW built \in BOOLEAN, FallBack(built) PROVE StatusKnown'
  BY Numbers, <1>16 DEF FallBack, FallsBack
<1>17. CASE Retry
  BY Numbers, <1>17 DEF Retry
<1>18. ASSUME NEW violated \in BOOLEAN, Report(violated) PROVE StatusKnown'
  BY Numbers, <1>18 DEF Report
<1>19. ASSUME NEW answer \in {"none", "merged", "conflict", "empty", "error"},
              MergeWorktree(answer)
       PROVE  StatusKnown'
  BY Numbers, <1>19 DEF MergeWorktree
<1>20. ASSUME NEW ok \in BOOLEAN, ValidateOutput(ok) PROVE StatusKnown'
  BY Numbers, <1>20 DEF ValidateOutput
<1>21. ASSUME NEW ok \in {"invalid", "success", "failed", "raises"}, RunDynamic(ok)
       PROVE  StatusKnown'
  BY Numbers, <1>21 DEF RunDynamic
<1>22. CASE CommitPhantom
  BY Numbers, <1>22 DEF CommitPhantom
<1>23. CASE Over \/ UNCHANGED vars
  BY Numbers, <1>23 DEF Over, vars
<1> QED
  BY <1>1, <1>2, <1>3, <1>4, <1>5, <1>6, <1>7, <1>8, <1>9, <1>10, <1>11, <1>12,
     <1>13, <1>14, <1>15, <1>16, <1>17, <1>18, <1>19, <1>20, <1>21, <1>22, <1>23
     DEF Next, Step

LEMMA NextEarned ==
  ASSUME TypeOK, KindsApart, LaunchesCounted, StatusKnown, Earned, [Next]_vars
  PROVE  Earned'
<1> USE DEF Goto, Finish, Forgiven, loop, Earned, LaunchesCounted, KindsApart, StatusKnown,
           SuccessLike, BatchPlaces, Before, Attempting, After
<1>1. ASSUME NEW ok \in {"unloaded", "success", "failed"}, RunGroup(ok) PROVE Earned'
  BY Numbers, <1>1 DEF RunGroup
<1>2. CASE BeginBatch
  BY Numbers, <1>2 DEF BeginBatch
<1>3. CASE ChunkUnbuilt
  BY Numbers, <1>3 DEF ChunkUnbuilt
<1>4. CASE LaunchChunk
  BY Numbers, <1>4 DEF LaunchChunk
<1>5. ASSUME NEW ok \in BOOLEAN, ChunkEnds(ok) PROVE Earned'
  BY Numbers, <1>5 DEF ChunkEnds
<1>6. ASSUME NEW ok \in BOOLEAN, CombineChunks(ok) PROVE Earned'
  BY Numbers, <1>6 DEF CombineChunks
<1>7. ASSUME NEW ok \in BOOLEAN, PassGate(ok) PROVE Earned'
  BY Numbers, <1>7 DEF PassGate
<1>8. ASSUME NEW ok \in BOOLEAN, CreateWorktree(ok) PROVE Earned'
  BY Numbers, <1>8 DEF CreateWorktree
<1>9. CASE BuildFails \/ DryRun \/ Unfit \/ PreparationRaises \/ StartAttempts
  BY Numbers, <1>9 DEF BuildFails, DryRun, Unfit, PreparationRaises, StartAttempts, BeforeFirst
<1>10. CASE TooManyIterations
  BY Numbers, <1>10 DEF TooManyIterations, CapReached
<1>11. ASSUME NEW rebuilt \in BOOLEAN, NEW started \in BOOLEAN,
              BeginAttempt(rebuilt, started)
       PROVE  Earned'
  BY Numbers, <1>11 DEF BeginAttempt, CapReached
<1>12. ASSUME NEW how \in {"ok", "exit", "engine", "timeout"},
              ProcessEnds(how)
       PROVE  Earned'
  BY Numbers, <1>12 DEF ProcessEnds
<1>13. ASSUME NEW c \in Check, CheckPasses(c) PROVE Earned'
  BY Numbers, <1>13 DEF CheckPasses
<1>14. ASSUME NEW c \in Check, NEW raises \in BOOLEAN, CheckFails(c, raises)
       PROVE  Earned'
  BY Numbers, <1>14 DEF CheckFails
<1>15. CASE AttemptSucceeds
  BY Numbers, <1>15 DEF AttemptSucceeds
<1>16. ASSUME NEW built \in BOOLEAN, FallBack(built) PROVE Earned'
  BY Numbers, <1>16 DEF FallBack, FallsBack
<1>17. CASE Retry
  BY Numbers, <1>17 DEF Retry
<1>18. ASSUME NEW violated \in BOOLEAN, Report(violated) PROVE Earned'
  BY Numbers, <1>18 DEF Report
<1>19. ASSUME NEW answer \in {"none", "merged", "conflict", "empty", "error"},
              MergeWorktree(answer)
       PROVE  Earned'
  BY Numbers, <1>19 DEF MergeWorktree
<1>20. ASSUME NEW ok \in BOOLEAN, ValidateOutput(ok) PROVE Earned'
  BY Numbers, <1>20 DEF ValidateOutput
<1>21. ASSUME NEW ok \in {"invalid", "success", "failed", "raises"}, RunDynamic(ok)
       PROVE  Earned'
  BY Numbers, <1>21 DEF RunDynamic
<1>22. CASE CommitPhantom
  BY Numbers, <1>22 DEF CommitPhantom
<1>23. CASE Over \/ UNCHANGED vars
  BY Numbers, <1>23 DEF Over, vars
<1> QED
  BY <1>1, <1>2, <1>3, <1>4, <1>5, <1>6, <1>7, <1>8, <1>9, <1>10, <1>11, <1>12,
     <1>13, <1>14, <1>15, <1>16, <1>17, <1>18, <1>19, <1>20, <1>21, <1>22, <1>23
     DEF Next, Step

LEMMA NextPublished ==
  ASSUME TypeOK, KindsApart, StatusKnown, Earned, PublishedLate, [Next]_vars
  PROVE  PublishedLate'
<1> USE DEF Goto, Finish, Forgiven, loop, Earned, PublishedLate, KindsApart, StatusKnown,
           SuccessLike, BatchPlaces, Before, Attempting, After
<1>1. ASSUME NEW ok \in {"unloaded", "success", "failed"}, RunGroup(ok) PROVE PublishedLate'
  BY Numbers, <1>1 DEF RunGroup
<1>2. CASE BeginBatch
  BY Numbers, <1>2 DEF BeginBatch
<1>3. CASE ChunkUnbuilt
  BY Numbers, <1>3 DEF ChunkUnbuilt
<1>4. CASE LaunchChunk
  BY Numbers, <1>4 DEF LaunchChunk
<1>5. ASSUME NEW ok \in BOOLEAN, ChunkEnds(ok) PROVE PublishedLate'
  BY Numbers, <1>5 DEF ChunkEnds
<1>6. ASSUME NEW ok \in BOOLEAN, CombineChunks(ok) PROVE PublishedLate'
  BY Numbers, <1>6 DEF CombineChunks
<1>7. ASSUME NEW ok \in BOOLEAN, PassGate(ok) PROVE PublishedLate'
  BY Numbers, <1>7 DEF PassGate
<1>8. ASSUME NEW ok \in BOOLEAN, CreateWorktree(ok) PROVE PublishedLate'
  BY Numbers, <1>8 DEF CreateWorktree
<1>9. CASE BuildFails \/ DryRun \/ Unfit \/ PreparationRaises \/ StartAttempts
  BY Numbers, <1>9 DEF BuildFails, DryRun, Unfit, PreparationRaises, StartAttempts, BeforeFirst
<1>10. CASE TooManyIterations
  BY Numbers, <1>10 DEF TooManyIterations, CapReached
<1>11. ASSUME NEW rebuilt \in BOOLEAN, NEW started \in BOOLEAN,
              BeginAttempt(rebuilt, started)
       PROVE  PublishedLate'
  BY Numbers, <1>11 DEF BeginAttempt, CapReached
<1>12. ASSUME NEW how \in {"ok", "exit", "engine", "timeout"},
              ProcessEnds(how)
       PROVE  PublishedLate'
  BY Numbers, <1>12 DEF ProcessEnds
<1>13. ASSUME NEW c \in Check, CheckPasses(c) PROVE PublishedLate'
  BY Numbers, <1>13 DEF CheckPasses
<1>14. ASSUME NEW c \in Check, NEW raises \in BOOLEAN, CheckFails(c, raises)
       PROVE  PublishedLate'
  BY Numbers, <1>14 DEF CheckFails
<1>15. CASE AttemptSucceeds
  BY Numbers, <1>15 DEF AttemptSucceeds
<1>16. ASSUME NEW built \in BOOLEAN, FallBack(built) PROVE PublishedLate'
  BY Numbers, <1>16 DEF FallBack, FallsBack
<1>17. CASE Retry
  BY Numbers, <1>17 DEF Retry
<1>18. ASSUME NEW violated \in BOOLEAN, Report(violated) PROVE PublishedLate'
  BY Numbers, <1>18 DEF Report
<1>19. ASSUME NEW answer \in {"none", "merged", "conflict", "empty", "error"},
              MergeWorktree(answer)
       PROVE  PublishedLate'
  BY Numbers, <1>19 DEF MergeWorktree
<1>20. ASSUME NEW ok \in BOOLEAN, ValidateOutput(ok) PROVE PublishedLate'
  BY Numbers, <1>20 DEF ValidateOutput
<1>21. ASSUME NEW ok \in {"invalid", "success", "failed", "raises"}, RunDynamic(ok)
       PROVE  PublishedLate'
  BY Numbers, <1>21 DEF RunDynamic
<1>22. CASE CommitPhantom
  BY Numbers, <1>22 DEF CommitPhantom
<1>23. CASE Over \/ UNCHANGED vars
  BY Numbers, <1>23 DEF Over, vars
<1> QED
  BY <1>1, <1>2, <1>3, <1>4, <1>5, <1>6, <1>7, <1>8, <1>9, <1>10, <1>11, <1>12,
     <1>13, <1>14, <1>15, <1>16, <1>17, <1>18, <1>19, <1>20, <1>21, <1>22, <1>23
     DEF Next, Step

LEMMA NextCleaned ==
  ASSUME TypeOK, KindsApart, Cleaned, [Next]_vars
  PROVE  Cleaned'
<1> USE DEF Goto, Finish, Forgiven, loop, Cleaned, KindsApart, BatchPlaces, Before,
           Attempting, After
<1>1. ASSUME NEW ok \in {"unloaded", "success", "failed"}, RunGroup(ok) PROVE Cleaned'
  BY Numbers, <1>1 DEF RunGroup
<1>2. CASE BeginBatch
  BY Numbers, <1>2 DEF BeginBatch
<1>3. CASE ChunkUnbuilt
  BY Numbers, <1>3 DEF ChunkUnbuilt
<1>4. CASE LaunchChunk
  BY Numbers, <1>4 DEF LaunchChunk
<1>5. ASSUME NEW ok \in BOOLEAN, ChunkEnds(ok) PROVE Cleaned'
  BY Numbers, <1>5 DEF ChunkEnds
<1>6. ASSUME NEW ok \in BOOLEAN, CombineChunks(ok) PROVE Cleaned'
  BY Numbers, <1>6 DEF CombineChunks
<1>7. ASSUME NEW ok \in BOOLEAN, PassGate(ok) PROVE Cleaned'
  BY Numbers, <1>7 DEF PassGate
<1>8. ASSUME NEW ok \in BOOLEAN, CreateWorktree(ok) PROVE Cleaned'
  BY Numbers, <1>8 DEF CreateWorktree
<1>9. CASE BuildFails \/ DryRun \/ Unfit \/ PreparationRaises \/ StartAttempts
  BY Numbers, <1>9 DEF BuildFails, DryRun, Unfit, PreparationRaises, StartAttempts, BeforeFirst
<1>10. CASE TooManyIterations
  BY Numbers, <1>10 DEF TooManyIterations, CapReached
<1>11. ASSUME NEW rebuilt \in BOOLEAN, NEW started \in BOOLEAN,
              BeginAttempt(rebuilt, started)
       PROVE  Cleaned'
  BY Numbers, <1>11 DEF BeginAttempt, CapReached
<1>12. ASSUME NEW how \in {"ok", "exit", "engine", "timeout"},
              ProcessEnds(how)
       PROVE  Cleaned'
  BY Numbers, <1>12 DEF ProcessEnds
<1>13. ASSUME NEW c \in Check, CheckPasses(c) PROVE Cleaned'
  BY Numbers, <1>13 DEF CheckPasses
<1>14. ASSUME NEW c \in Check, NEW raises \in BOOLEAN, CheckFails(c, raises)
       PROVE  Cleaned'
  BY Numbers, <1>14 DEF CheckFails
<1>15. CASE AttemptSucceeds
  BY Numbers, <1>15 DEF AttemptSucceeds
<1>16. ASSUME NEW built \in BOOLEAN, FallBack(built) PROVE Cleaned'
  BY Numbers, <1>16 DEF FallBack, FallsBack
<1>17. CASE Retry
  BY Numbers, <1>17 DEF Retry
<1>18. ASSUME NEW violated \in BOOLEAN, Report(violated) PROVE Cleaned'
  BY Numbers, <1>18 DEF Report
<1>19. ASSUME NEW answer \in {"none", "merged", "conflict", "empty", "error"},
              MergeWorktree(answer)
       PROVE  Cleaned'
  BY Numbers, <1>19 DEF MergeWorktree
<1>20. ASSUME NEW ok \in BOOLEAN, ValidateOutput(ok) PROVE Cleaned'
  BY Numbers, <1>20 DEF ValidateOutput
<1>21. ASSUME NEW ok \in {"invalid", "success", "failed", "raises"}, RunDynamic(ok)
       PROVE  Cleaned'
  BY Numbers, <1>21 DEF RunDynamic
<1>22. CASE CommitPhantom
  BY Numbers, <1>22 DEF CommitPhantom
<1>23. CASE Over \/ UNCHANGED vars
  BY Numbers, <1>23 DEF Over, vars
<1> QED
  BY <1>1, <1>2, <1>3, <1>4, <1>5, <1>6, <1>7, <1>8, <1>9, <1>10, <1>11, <1>12,
     <1>13, <1>14, <1>15, <1>16, <1>17, <1>18, <1>19, <1>20, <1>21, <1>22, <1>23
     DEF Next, Step

LEMMA CountOneMore ==
  ASSUME NEW n \in Nat
  PROVE  Append([i \in 1 .. n |-> i], n + 1) = [i \in 1 .. (n + 1) |-> i]
OBVIOUS

LEMMA CountNone == <<>> = [i \in 1 .. 0 |-> i]
OBVIOUS

LEMMA NextHistory ==
  ASSUME TypeOK, KindsApart, LaunchesCounted, HistoryInOrder, [Next]_vars
  PROVE  HistoryInOrder'
<1> USE DEF Goto, Finish, Forgiven, loop, HistoryInOrder, LaunchesCounted, MaxAttempts,
           LastAttempt, BatchPlaces, Before, Attempting, After
<1>1. ASSUME NEW ok \in {"unloaded", "success", "failed"}, RunGroup(ok) PROVE HistoryInOrder'
  BY Numbers, <1>1 DEF RunGroup
<1>2. CASE BeginBatch
  BY Numbers, <1>2 DEF BeginBatch
<1>3. CASE ChunkUnbuilt
  BY Numbers, <1>3 DEF ChunkUnbuilt
<1>4. CASE LaunchChunk
  BY Numbers, <1>4 DEF LaunchChunk
<1>5. ASSUME NEW ok \in BOOLEAN, ChunkEnds(ok) PROVE HistoryInOrder'
  BY Numbers, <1>5 DEF ChunkEnds
<1>6. ASSUME NEW ok \in BOOLEAN, CombineChunks(ok) PROVE HistoryInOrder'
  BY Numbers, <1>6 DEF CombineChunks
<1>7. ASSUME NEW ok \in BOOLEAN, PassGate(ok) PROVE HistoryInOrder'
  BY Numbers, <1>7 DEF PassGate
<1>8. ASSUME NEW ok \in BOOLEAN, CreateWorktree(ok) PROVE HistoryInOrder'
  BY Numbers, <1>8 DEF CreateWorktree
<1>9. CASE BuildFails \/ DryRun \/ Unfit \/ PreparationRaises \/ StartAttempts
  <2>1. attempt = 0 /\ history = <<>> /\ UNCHANGED <<attempt, history>>
    BY <1>9 DEF BuildFails, DryRun, Unfit, PreparationRaises, StartAttempts, BeforeFirst
  <2>2. pc' \in {"done", "raised", "attempt"}
    BY <1>9 DEF BuildFails, DryRun, Unfit, PreparationRaises, StartAttempts, BeforeFirst
  <2> QED BY <2>1, <2>2, CountNone
<1>10. CASE TooManyIterations
  BY Numbers, <1>10 DEF TooManyIterations, CapReached
<1>11. ASSUME NEW rebuilt \in BOOLEAN, NEW started \in BOOLEAN,
              BeginAttempt(rebuilt, started)
       PROVE  HistoryInOrder'
  BY Numbers, <1>11 DEF BeginAttempt, CapReached
<1>12. ASSUME NEW how \in {"ok", "exit", "engine", "timeout"},
              ProcessEnds(how)
       PROVE  HistoryInOrder'
  BY Numbers, <1>12 DEF ProcessEnds
<1>13. ASSUME NEW c \in Check, CheckPasses(c) PROVE HistoryInOrder'
  BY Numbers, <1>13 DEF CheckPasses
<1>14. ASSUME NEW c \in Check, NEW raises \in BOOLEAN, CheckFails(c, raises)
       PROVE  HistoryInOrder'
  BY Numbers, <1>14 DEF CheckFails
<1>15. CASE AttemptSucceeds
  BY Numbers, <1>15 DEF AttemptSucceeds
<1>16. ASSUME NEW built \in BOOLEAN, FallBack(built) PROVE HistoryInOrder'
  <2>1. /\ history = [i \in 1 .. attempt |-> i]
        /\ history' = Append(history, attempt + 1)
        /\ (pc' = "raised" \/ (pc' = "attempt" /\ attempt' = attempt + 1))
    BY Numbers, <1>16 DEF FallBack, Record
  <2> QED BY Numbers, <2>1, CountOneMore
<1>17. CASE Retry
  <2>1. /\ history = [i \in 1 .. attempt |-> i] /\ attempt < MaxAttempts
        /\ history' = Append(history, attempt + 1) /\ task' = task
        /\ (pc' = "report" \/ (pc' = "attempt" /\ attempt' = attempt + 1))
    BY Numbers, <1>17 DEF Retry, Record
  <2>2. history' = [i \in 1 .. (attempt + 1) |-> i]
    BY Numbers, <2>1, CountOneMore
  <2>3. Len(history') = attempt + 1
    BY Numbers, <2>2
  <2> QED BY Numbers, <2>1, <2>2, <2>3
<1>18. ASSUME NEW violated \in BOOLEAN, Report(violated) PROVE HistoryInOrder'
  BY Numbers, <1>18 DEF Report
<1>19. ASSUME NEW answer \in {"none", "merged", "conflict", "empty", "error"},
              MergeWorktree(answer)
       PROVE  HistoryInOrder'
  BY Numbers, <1>19 DEF MergeWorktree
<1>20. ASSUME NEW ok \in BOOLEAN, ValidateOutput(ok) PROVE HistoryInOrder'
  BY Numbers, <1>20 DEF ValidateOutput
<1>21. ASSUME NEW ok \in {"invalid", "success", "failed", "raises"}, RunDynamic(ok)
       PROVE  HistoryInOrder'
  BY Numbers, <1>21 DEF RunDynamic
<1>22. CASE CommitPhantom
  BY Numbers, <1>22 DEF CommitPhantom
<1>23. CASE Over \/ UNCHANGED vars
  BY Numbers, <1>23 DEF Over, vars
<1> QED
  BY <1>1, <1>2, <1>3, <1>4, <1>5, <1>6, <1>7, <1>8, <1>9, <1>10, <1>11, <1>12,
     <1>13, <1>14, <1>15, <1>16, <1>17, <1>18, <1>19, <1>20, <1>21, <1>22, <1>23
     DEF Next, Step

LEMMA NextHandoff ==
  ASSUME TypeOK, KindsApart, LaunchesCounted, StatusKnown, Earned,
         HistoryInOrder, HandoffKnown, [Next]_vars
  PROVE  HandoffKnown'
<1> USE DEF Goto, Finish, Forgiven, loop, HandoffKnown, CutShort, HistoryInOrder, Earned,
           LaunchesCounted, KindsApart, StatusKnown, SuccessLike, MaxAttempts, MaxIterations,
           LastAttempt, BatchPlaces, Before, Attempting, After
<1>1. ASSUME NEW ok \in {"unloaded", "success", "failed"}, RunGroup(ok) PROVE HandoffKnown'
  BY Numbers, <1>1 DEF RunGroup
<1>2. CASE BeginBatch
  BY Numbers, <1>2 DEF BeginBatch
<1>3. CASE ChunkUnbuilt
  BY Numbers, <1>3 DEF ChunkUnbuilt
<1>4. CASE LaunchChunk
  BY Numbers, <1>4 DEF LaunchChunk
<1>5. ASSUME NEW ok \in BOOLEAN, ChunkEnds(ok) PROVE HandoffKnown'
  BY Numbers, <1>5 DEF ChunkEnds
<1>6. ASSUME NEW ok \in BOOLEAN, CombineChunks(ok) PROVE HandoffKnown'
  BY Numbers, <1>6 DEF CombineChunks
<1>7. ASSUME NEW ok \in BOOLEAN, PassGate(ok) PROVE HandoffKnown'
  BY Numbers, <1>7 DEF PassGate
<1>8. ASSUME NEW ok \in BOOLEAN, CreateWorktree(ok) PROVE HandoffKnown'
  BY Numbers, <1>8 DEF CreateWorktree
<1>9. CASE BuildFails \/ DryRun \/ Unfit \/ PreparationRaises \/ StartAttempts
  BY Numbers, <1>9 DEF BuildFails, DryRun, Unfit, PreparationRaises, StartAttempts, BeforeFirst
<1>10. CASE TooManyIterations
  BY Numbers, <1>10 DEF TooManyIterations, CapReached
<1>11. ASSUME NEW rebuilt \in BOOLEAN, NEW started \in BOOLEAN,
              BeginAttempt(rebuilt, started)
       PROVE  HandoffKnown'
  BY Numbers, <1>11 DEF BeginAttempt, CapReached
<1>12. ASSUME NEW how \in {"ok", "exit", "engine", "timeout"},
              ProcessEnds(how)
       PROVE  HandoffKnown'
  BY Numbers, <1>12 DEF ProcessEnds
<1>13. ASSUME NEW c \in Check, CheckPasses(c) PROVE HandoffKnown'
  BY Numbers, <1>13 DEF CheckPasses
<1>14. ASSUME NEW c \in Check, NEW raises \in BOOLEAN, CheckFails(c, raises)
       PROVE  HandoffKnown'
  <2>1. c \in task.checks
    BY <1>14 DEF CheckFails, NextCheck
  <2> QED BY Numbers, <1>14, <2>1 DEF CheckFails
<1>15. CASE AttemptSucceeds
  BY Numbers, <1>15 DEF AttemptSucceeds
<1>16. ASSUME NEW built \in BOOLEAN, FallBack(built) PROVE HandoffKnown'
  BY Numbers, <1>16 DEF FallBack, FallsBack
<1>17. CASE Retry
  <2>1. /\ history = [i \in 1 .. attempt |-> i]
        /\ history' = Append(history, attempt + 1)
        /\ pc' = "report" => attempt + 1 = MaxAttempts
        /\ pc' \in {"report", "attempt"} /\ UNCHANGED <<task, status, handoff>>
    BY Numbers, <1>17 DEF Retry, Record
  <2>2. Len(history') = attempt + 1
    BY Numbers, <2>1
  <2>3. ~handoff
    BY <1>17 DEF Retry
  <2> QED BY Numbers, <2>1, <2>2, <2>3
<1>18. ASSUME NEW violated \in BOOLEAN, Report(violated) PROVE HandoffKnown'
  <2>1. MaxAttempts \in Nat /\ Len(history) \in Nat /\ Len(history) <= MaxAttempts
    BY Numbers, <1>18 DEF Report, TypeOK
  <2>2. /\ handoff' = (status = "failed" /\ Len(history) >= MaxAttempts)
        /\ pc = "report" /\ pc' = "merge"
        /\ UNCHANGED <<task, iterations, passed, failure, history>>
        /\ (status' = status \/ (status' = "failed" /\ status \in SuccessLike))
    BY <1>18, Zenon DEF Report, RetriesExhausted
  <2>3. /\ handoff' => status = "failed" /\ Len(history) >= MaxAttempts
        /\ status = "failed" /\ Len(history) >= MaxAttempts => handoff'
    BY <2>2, Zenon
  <2>4. status = "failed" => CutShort \/ Len(history) = MaxAttempts
    BY <2>2
  <2>5. status \in SuccessLike => CutShort
    BY <2>2
  <2>6. CutShort' <=> CutShort
    BY <2>2
  <2>7. MaxAttempts' = MaxAttempts /\ Len(history') = Len(history)
    BY <2>2
  <2> HIDE DEF CutShort, MaxAttempts
  <2>8. handoff' => Len(history') = MaxAttempts' /\ status' = "failed"
    BY <2>1, <2>2, <2>3, <2>7
  <2>9. ~handoff' /\ status' = "failed" => CutShort'
    BY <2>1, <2>2, <2>3, <2>4, <2>5, <2>6
  <2> QED BY <2>2, <2>8, <2>9
<1>19. ASSUME NEW answer \in {"none", "merged", "conflict", "empty", "error"},
              MergeWorktree(answer)
       PROVE  HandoffKnown'
  BY Numbers, <1>19 DEF MergeWorktree
<1>20. ASSUME NEW ok \in BOOLEAN, ValidateOutput(ok) PROVE HandoffKnown'
  BY Numbers, <1>20 DEF ValidateOutput
<1>21. ASSUME NEW ok \in {"invalid", "success", "failed", "raises"}, RunDynamic(ok)
       PROVE  HandoffKnown'
  BY Numbers, <1>21 DEF RunDynamic
<1>22. CASE CommitPhantom
  BY Numbers, <1>22 DEF CommitPhantom
<1>23. CASE Over \/ UNCHANGED vars
  BY Numbers, <1>23 DEF Over, vars
<1> QED
  BY <1>1, <1>2, <1>3, <1>4, <1>5, <1>6, <1>7, <1>8, <1>9, <1>10, <1>11, <1>12,
     <1>13, <1>14, <1>15, <1>16, <1>17, <1>18, <1>19, <1>20, <1>21, <1>22, <1>23
     DEF Next, Step

-----------------------------------------------------------------------------
(***************************************************************************)
(* What follows                                                            *)
(***************************************************************************)
LEMMA InitInvariant == Init => IInv
<1> SUFFICES ASSUME Init PROVE IInv
  OBVIOUS
<1>1. TypeOK
  BY InitType
<1>2. /\ pc = "gate" /\ attempt = 0 /\ iterations = 0 /\ launches = <<>> /\ history = <<>>
      /\ status = None /\ tracked = FALSE /\ published = {} /\ handoff = FALSE
  BY DEF Init
<1>3. LaunchLimit \in Nat
  BY <1>1, Bounds
<1>4. Shape
  BY <1>1, <1>2, <1>3 DEF Shape, KindsApart, LaunchesCounted, StatusKnown, BatchPlaces, Before,
                          Attempting, After
<1>5. Earned /\ PublishedLate /\ Cleaned /\ HandoffKnown
  BY <1>2 DEF Earned, PublishedLate, Cleaned, HandoffKnown, After
<1>6. HistoryInOrder
  BY <1>2 DEF HistoryInOrder, Attempting
<1> QED BY <1>4, <1>5, <1>6 DEF IInv

LEMMA NextInvariant == IInv /\ [Next]_vars => IInv'
<1> SUFFICES ASSUME IInv, [Next]_vars PROVE IInv'
  OBVIOUS
<1>1. /\ TypeOK /\ KindsApart /\ LaunchesCounted /\ StatusKnown /\ Earned
      /\ PublishedLate /\ Cleaned /\ HistoryInOrder /\ HandoffKnown
  BY DEF IInv, Shape
<1>2. Shape'
  BY <1>1, NextType, NextKinds, NextCounted, NextStatus DEF Shape
<1>3. Earned' /\ PublishedLate' /\ Cleaned'
  BY <1>1, NextEarned, NextPublished, NextCleaned
<1>4. HistoryInOrder' /\ HandoffKnown'
  BY <1>1, NextHistory, NextHandoff
<1> QED BY <1>2, <1>3, <1>4 DEF IInv

LEMMA RunnerInvariant == Spec => []IInv
<1> QED BY InitInvariant, NextInvariant, PTL DEF Spec

\* A good result is earned: no way through retries, fallback and forgiven
\* failures ends well without a launch that passed every check.
THEOREM EveryResultEarned == Spec => []SuccessEarned
<1>1. IInv => SuccessEarned
  <2> SUFFICES ASSUME IInv PROVE SuccessEarned
    OBVIOUS
  <2>1. Earned /\ launches \in Seq(Command)
    BY DEF IInv, Shape, TypeOK
  <2>2. Len(launches) > 0 => launches # <<>>
    BY <2>1
  <2> QED BY <2>1, <2>2 DEF Earned, SuccessEarned
<1> QED BY <1>1, RunnerInvariant, PTL

\* Nothing that has not passed its checks reaches the workspace.
THEOREM OnlyCheckedPublished == Spec => []PublishedIsChecked
<1>1. IInv => PublishedIsChecked
  <2> SUFFICES ASSUME IInv PROVE PublishedIsChecked
    OBVIOUS
  <2>1. PublishedLate /\ launches \in Seq(Command)
    BY DEF IInv, Shape, TypeOK
  <2>2. Len(launches) > 0 => launches # <<>>
    BY <2>1
  <2> QED BY <2>1, <2>2 DEF PublishedLate, PublishedIsChecked
<1> QED BY <1>1, RunnerInvariant, PTL

\* The handoff report comes exactly when the attempts are used up.
THEOREM HandoffHolds == Spec => []HandoffWhenExhausted
<1>1. IInv => HandoffWhenExhausted
  <2> SUFFICES ASSUME IInv PROVE HandoffWhenExhausted
    OBVIOUS
  <2>1. HistoryInOrder /\ HandoffKnown /\ KindsApart
    BY DEF IInv, Shape
  <2>2. pc \in {"attempt", "run", "check", "failed"} => history = [i \in 1 .. attempt |-> i]
    BY <2>1 DEF HistoryInOrder, Attempting
  <2>3. handoff => Len(history) = MaxAttempts /\ status = "failed"
    BY <2>1 DEF HandoffKnown
  <2>4. pc = "done" /\ status = "failed" /\ ~handoff /\ iterations > 0 => CutShort
    <3>1. iterations \in Nat /\ task.kind \in {"plain", "group", "batch"}
      BY TaskFields DEF IInv, Shape, TypeOK
    <3> QED BY <2>1, <3>1 DEF HandoffKnown, KindsApart
  <2> QED BY <2>2, <2>3, <2>4 DEF HandoffWhenExhausted, CutShort
<1> QED BY <1>1, RunnerInvariant, PTL

\* No process and no worktree is left behind a task that made an attempt.
THEOREM AttemptsCleaned == Spec => []CleanAfterAttempts
<1>1. IInv => CleanAfterAttempts
  BY DEF IInv, Cleaned, CleanAfterAttempts
<1> QED BY <1>1, RunnerInvariant, PTL

-----------------------------------------------------------------------------
(***************************************************************************)
(* The order of the commands                                               *)
(***************************************************************************)
LEMMA RungOfModel ==
  ASSUME TypeOK, ClimbsOnce, NEW j \in DOMAIN task.escalation
  PROVE  /\ task.escalation[j] \in Model /\ task.escalation[j] # None
         /\ Rung(task.escalation, task.escalation[j]) = j
<1>1. task.escalation[j] \in Model /\ task.escalation[j] # None
  BY TaskFields, SpecsAssumption
<1> DEFINE at == {i \in DOMAIN task.escalation : task.escalation[i] = task.escalation[j]}
<1>2. at = {j}
  BY DEF ClimbsOnce
<1>3. j <= j
  BY TaskFields
<1> QED
  BY <1>1, <1>2, <1>3 DEF Rung

LEMMA RungIsNat ==
  ASSUME TypeOK, ClimbsOnce, NEW m
  PROVE  Rung(task.escalation, m) \in Nat
<1>1. CASE \E j \in DOMAIN task.escalation : m = task.escalation[j]
  <2>1. PICK j \in DOMAIN task.escalation : m = task.escalation[j]
    BY <1>1
  <2>2. Rung(task.escalation, m) = j
    BY <2>1, RungOfModel
  <2>3. j \in Nat
    BY TaskFields
  <2> QED
    BY <2>2, <2>3
<1>2. CASE ~\E j \in DOMAIN task.escalation : m = task.escalation[j]
  <2>1. {i \in DOMAIN task.escalation : task.escalation[i] = m} = {}
    BY <1>2
  <2> QED
    BY <2>1 DEF Rung
<1> QED
  BY <1>1, <1>2

\* The next model of a chain stands higher on it.
LEMMA NextModelClimbs ==
  ASSUME TypeOK, ClimbsOnce, NEW m, NEW n \in NextModel(m)
  PROVE  Rung(task.escalation, m) <= Rung(task.escalation, n)
<1>0. task.escalation \in Seq(Model)
  BY TaskFields
<1>1. CASE m = None
  <2>1. Rung(task.escalation, m) = 0
    BY <1>1 DEF Rung
  <2> QED
    BY <2>1, RungIsNat
<1>2. CASE m # None
  <2>1. PICK j \in 1 .. (Len(task.escalation) - 1) :
          task.escalation[j] = m /\ n = task.escalation[j + 1]
    BY <1>2 DEF NextModel
  <2>2. j \in DOMAIN task.escalation /\ j + 1 \in DOMAIN task.escalation /\ j <= j + 1
    BY <1>0
  <2>3. Rung(task.escalation, m) = j /\ Rung(task.escalation, n) = j + 1
    BY <2>1, <2>2, RungOfModel
  <2> QED
    BY <2>2, <2>3
<1> QED
  BY <1>1, <1>2

\* While the task's own engine is in use the command lags behind the model, and
\* what was launched behind the command; from the fallback on both stand still.
OwnClimbs ==
  engine = "own" =>
    /\ command.engine = "own" /\ \A i \in DOMAIN launches : launches[i].engine = "own"
    /\ model = None => task.model = None
    /\ ClimbsOnce =>
         /\ Rung(task.escalation, command.model) <= Rung(task.escalation, model)
         /\ \A i \in DOMAIN launches :
              Rung(task.escalation, launches[i].model) <= Rung(task.escalation, command.model)
Fallback == Built("fallback", task.fallbackModel)
FallbackStays ==
  engine = "fallback" =>
    /\ \A i \in DOMAIN launches : launches[i].engine = "own" \/ launches[i] = Fallback
    /\ pc # "raised" => model = task.fallbackModel /\ command = Fallback
OrderInv == OwnClimbs /\ FallbackStays /\ LaunchOrder

\* What a step does to the commands.
NoCommand   == UNCHANGED <<engine, model, command, launches>> /\ (pc = "raised" => pc' = "raised")
NextCommand == /\ pc # "raised" /\ UNCHANGED <<engine, model>>
               /\ command' = command \/ command' = Built(engine, model)
               /\ launches' = launches \/ launches' = Append(launches, command')
NextEngine  == /\ engine = "own" /\ engine' = "fallback" /\ UNCHANGED launches
               /\ \/ pc' = "raised"
                  \/ model' = task.fallbackModel /\ command' = Fallback
Escalated   == /\ pc # "raised" /\ UNCHANGED <<engine, command, launches>>
               /\ \/ model' = model
                  \/ engine = "own" /\ model' \in NextModel(model)

LEMMA CommandSteps ==
  ASSUME [Next]_vars
  PROVE  /\ UNCHANGED task
         /\ NoCommand \/ NextCommand \/ NextEngine \/ Escalated
<1> DEFINE Steps == UNCHANGED task /\ (NoCommand \/ NextCommand \/ NextEngine \/ Escalated)
<1> SUFFICES Steps
  OBVIOUS
<1> USE DEF Goto, Finish, loop, NoCommand
<1>1. ASSUME NEW ok \in {"unloaded", "success", "failed"}, RunGroup(ok) PROVE Steps
  BY <1>1 DEF RunGroup
<1>2. CASE BeginBatch
  BY <1>2 DEF BeginBatch
<1>3. CASE ChunkUnbuilt
  BY <1>3 DEF ChunkUnbuilt
<1>4. CASE LaunchChunk
  BY <1>4 DEF LaunchChunk, NextCommand
<1>5. ASSUME NEW ok \in BOOLEAN, ChunkEnds(ok) PROVE Steps
  BY <1>5 DEF ChunkEnds
<1>6. ASSUME NEW ok \in BOOLEAN, CombineChunks(ok) PROVE Steps
  BY <1>6 DEF CombineChunks
<1>7. ASSUME NEW ok \in BOOLEAN, PassGate(ok) PROVE Steps
  BY <1>7 DEF PassGate
<1>8. ASSUME NEW ok \in BOOLEAN, CreateWorktree(ok) PROVE Steps
  BY <1>8 DEF CreateWorktree
<1>9. CASE BuildFails \/ DryRun \/ Unfit \/ PreparationRaises \/ StartAttempts
  BY <1>9 DEF BuildFails, DryRun, Unfit, PreparationRaises, StartAttempts, BeforeFirst
<1>10. CASE TooManyIterations
  BY <1>10 DEF TooManyIterations, CapReached
<1>11. ASSUME NEW rebuilt \in BOOLEAN, NEW started \in BOOLEAN,
              BeginAttempt(rebuilt, started)
       PROVE  Steps
  <2>1. NextCommand /\ UNCHANGED task
    BY <1>11 DEF BeginAttempt, NextCommand
  <2> QED
    BY <2>1
<1>12. ASSUME NEW how \in {"ok", "exit", "engine", "timeout"},
              ProcessEnds(how)
       PROVE  Steps
  BY <1>12 DEF ProcessEnds
<1>13. ASSUME NEW c \in Check, CheckPasses(c) PROVE Steps
  BY <1>13 DEF CheckPasses
<1>14. ASSUME NEW c \in Check, NEW raises \in BOOLEAN, CheckFails(c, raises)
       PROVE  Steps
  BY <1>14 DEF CheckFails
<1>15. CASE AttemptSucceeds
  BY <1>15 DEF AttemptSucceeds
<1>16. ASSUME NEW built \in BOOLEAN, FallBack(built) PROVE Steps
  <2>1. NextEngine /\ UNCHANGED task
    BY <1>16 DEF FallBack, FallsBack, NextEngine, Fallback
  <2> QED
    BY <2>1
<1>17. CASE Retry
  <2>1. Escalated /\ UNCHANGED task
    BY <1>17 DEF Retry, Escalates, Escalated
  <2> QED
    BY <2>1
<1>18. ASSUME NEW violated \in BOOLEAN, Report(violated) PROVE Steps
  BY <1>18 DEF Report
<1>19. ASSUME NEW answer \in {"none", "merged", "conflict", "empty", "error"},
              MergeWorktree(answer)
       PROVE  Steps
  BY <1>19 DEF MergeWorktree
<1>20. ASSUME NEW ok \in BOOLEAN, ValidateOutput(ok) PROVE Steps
  BY <1>20 DEF ValidateOutput
<1>21. ASSUME NEW ok \in {"invalid", "success", "failed", "raises"}, RunDynamic(ok)
       PROVE  Steps
  BY <1>21 DEF RunDynamic
<1>22. CASE CommitPhantom
  BY <1>22 DEF CommitPhantom
<1>23. CASE Over \/ UNCHANGED vars
  BY <1>23 DEF Over, vars
<1> QED
  BY <1>1, <1>2, <1>3, <1>4, <1>5, <1>6, <1>7, <1>8, <1>9, <1>10, <1>11, <1>12,
     <1>13, <1>14, <1>15, <1>16, <1>17, <1>18, <1>19, <1>20, <1>21, <1>22, <1>23
     DEF Next, Step

LEMMA InitOrder == Init => OrderInv
<1> SUFFICES ASSUME Init PROVE OrderInv
  OBVIOUS
<1>1. /\ engine = "own" /\ model = task.model /\ launches = <<>>
      /\ command = [engine |-> "own", model |-> task.model]
  BY DEF Init
<1>2. command.engine = "own" /\ command.model = model
  BY <1>1
<1>3. DOMAIN launches = {}
  BY <1>1
<1>4. ClimbsOnce => Rung(task.escalation, model) <= Rung(task.escalation, model)
  <2> SUFFICES ASSUME ClimbsOnce PROVE Rung(task.escalation, model) <= Rung(task.escalation, model)
    OBVIOUS
  <2>1. Rung(task.escalation, model) \in Nat
    BY InitType, RungIsNat
  <2> QED
    BY <2>1
<1> QED
  BY <1>1, <1>2, <1>3, <1>4 DEF OrderInv, OwnClimbs, FallbackStays, LaunchOrder

LEMMA NextOrder ==
  ASSUME TypeOK, TypeOK', OrderInv, [Next]_vars
  PROVE  OrderInv'
<1>0. /\ task' = task /\ (ClimbsOnce' <=> ClimbsOnce) /\ Fallback' = Fallback
      /\ launches \in Seq(Command) /\ engine \in {"own", "fallback"}
      /\ \A m \in Model \cup {None} : Built(engine, m).engine = engine
  BY CommandSteps DEF ClimbsOnce, Fallback, Built, TypeOK
<1>f. Fallback.engine = "fallback"
  BY DEF Fallback, Built
<1>r. ClimbsOnce => \A m : Rung(task.escalation, m) \in Nat
  BY RungIsNat
<1>1. CASE NoCommand
  BY <1>0, <1>1 DEF NoCommand, OrderInv, OwnClimbs, FallbackStays, LaunchOrder
<1>2. CASE NextEngine
  BY <1>0, <1>2 DEF NextEngine, OrderInv, OwnClimbs, FallbackStays, LaunchOrder
<1>3. CASE Escalated
  <2>1. CASE model' = model
    BY <1>0, <1>3, <2>1 DEF Escalated, OrderInv, OwnClimbs, FallbackStays, LaunchOrder
  <2>2. CASE engine = "own" /\ model' \in NextModel(model)
    <3>1. model' \in Model /\ model' # None
      BY <2>2, NextModelType, SpecsAssumption DEF TypeOK
    <3>2. ClimbsOnce => Rung(task.escalation, model) <= Rung(task.escalation, model')
      BY <2>2, NextModelClimbs
    <3>3. ClimbsOnce => Rung(task.escalation, command.model) <= Rung(task.escalation, model')
      BY <1>r, <2>2, <3>2 DEF OrderInv, OwnClimbs
    <3> QED
      BY <1>0, <1>3, <2>2, <3>1, <3>3 DEF Escalated, OrderInv, OwnClimbs, FallbackStays, LaunchOrder
  <2> QED
    BY <1>3, <2>1, <2>2 DEF Escalated
<1>4. CASE NextCommand
  <2>1. /\ pc # "raised" /\ engine' = engine /\ model' = model
        /\ command' = command \/ command' = Built(engine, model)
        /\ launches' = launches \/ launches' = Append(launches, command')
    BY <1>4 DEF NextCommand
  \* the command as built stands where the model does
  <2>2. CASE engine = "own"
    <3>1. /\ command.engine = "own" /\ \A i \in DOMAIN launches : launches[i].engine = "own"
          /\ model = None => task.model = None
          /\ ClimbsOnce =>
               /\ Rung(task.escalation, command.model) <= Rung(task.escalation, model)
               /\ \A i \in DOMAIN launches :
                    Rung(task.escalation, launches[i].model) <= Rung(task.escalation, command.model)
      BY <2>2 DEF OrderInv, OwnClimbs
    <3>2. Built(engine, model).engine = "own" /\ Built(engine, model).model = model
      BY <2>2, <3>1 DEF Built
    <3>3. /\ command'.engine = "own"
          /\ ClimbsOnce => /\ Rung(task.escalation, command'.model) <= Rung(task.escalation, model)
                           /\ Rung(task.escalation, command.model) <= Rung(task.escalation, command'.model)
      BY <1>r, <2>1, <3>1, <3>2
    <3>4. ClimbsOnce => \A i \in DOMAIN launches :
            Rung(task.escalation, launches[i].model) <= Rung(task.escalation, command'.model)
      BY <1>r, <3>1, <3>3
    <3>5. CASE launches' = launches
      BY <1>0, <2>1, <2>2, <3>1, <3>3, <3>4, <3>5 DEF OrderInv, OwnClimbs, FallbackStays, LaunchOrder
    <3>6. CASE launches' = Append(launches, command')
      <4>1. /\ DOMAIN launches = 1 .. Len(launches) /\ Len(launches) \in Nat
            /\ DOMAIN launches' = 1 .. Len(launches) + 1
            /\ launches'[Len(launches) + 1] = command'
            /\ \A i \in DOMAIN launches : launches'[i] = launches[i]
        BY <1>0, <3>6
      <4>2. /\ \A i \in DOMAIN launches' : launches'[i].engine = "own"
            /\ ClimbsOnce => \A i \in DOMAIN launches' :
                 Rung(task.escalation, launches'[i].model) <= Rung(task.escalation, command'.model)
        BY <1>r, <3>1, <3>3, <3>4, <4>1
      <4>3. LaunchOrder'
        <5> SUFFICES ASSUME NEW i \in DOMAIN launches', NEW j \in DOMAIN launches', i < j, ClimbsOnce
                     PROVE  Rung(task.escalation, launches'[i].model)
                              <= Rung(task.escalation, launches'[j].model)
          BY <1>0, <4>2 DEF LaunchOrder
        <5>1. i \in DOMAIN launches
          BY <4>1
        <5>2. CASE j \in DOMAIN launches
          BY <3>1, <4>1, <5>1, <5>2 DEF OrderInv, LaunchOrder
        <5>3. CASE j = Len(launches) + 1
          BY <4>1, <4>2, <5>3
        <5> QED
          BY <4>1, <5>2, <5>3
      <4> QED
        BY <1>0, <2>1, <2>2, <3>1, <3>3, <4>2, <4>3 DEF OrderInv, OwnClimbs, FallbackStays
    <3> QED
      BY <2>1, <3>5, <3>6
  <2>3. CASE engine = "fallback"
    <3>1. /\ command = Fallback /\ model = task.fallbackModel
          /\ \A i \in DOMAIN launches : launches[i].engine = "own" \/ launches[i] = Fallback
      BY <2>1, <2>3 DEF OrderInv, FallbackStays
    <3>2. command' = Fallback
      BY <2>1, <2>3, <3>1 DEF Fallback
    <3>3. CASE launches' = launches
      BY <1>0, <2>1, <2>3, <3>1, <3>2, <3>3 DEF OrderInv, OwnClimbs, FallbackStays, LaunchOrder
    <3>4. CASE launches' = Append(launches, command')
      <4>1. /\ DOMAIN launches = 1 .. Len(launches) /\ Len(launches) \in Nat
            /\ DOMAIN launches' = 1 .. Len(launches) + 1
            /\ launches'[Len(launches) + 1] = Fallback
            /\ \A i \in DOMAIN launches : launches'[i] = launches[i]
        BY <1>0, <3>2, <3>4
      <4>2. \A i \in DOMAIN launches' : launches'[i].engine = "own" \/ launches'[i] = Fallback
        BY <3>1, <4>1
      <4>3. LaunchOrder'
        <5> SUFFICES ASSUME NEW i \in DOMAIN launches', NEW j \in DOMAIN launches', i < j
                     PROVE  \/ /\ launches'[i].engine = "own" /\ launches'[j].engine = "own"
                               /\ ClimbsOnce => Rung(task.escalation, launches'[i].model)
                                                  <= Rung(task.escalation, launches'[j].model)
                            \/ launches'[i].engine = "own" /\ launches'[j].engine = "fallback"
                            \/ launches'[i].engine = "fallback" /\ launches'[i] = launches'[j]
          BY <1>0 DEF LaunchOrder
        <5>1. i \in DOMAIN launches
          BY <4>1
        <5>2. CASE j \in DOMAIN launches
          BY <4>1, <5>1, <5>2 DEF OrderInv, LaunchOrder
        <5>3. CASE j = Len(launches) + 1
          BY <1>f, <4>1, <4>2, <5>3
        <5> QED
          BY <4>1, <5>2, <5>3
      <4> QED
        BY <1>0, <2>1, <2>3, <3>1, <3>2, <4>2, <4>3 DEF OrderInv, OwnClimbs, FallbackStays
    <3> QED
      BY <2>1, <3>3, <3>4
  <2> QED
    BY <1>0, <2>2, <2>3
<1> QED
  BY <1>1, <1>2, <1>3, <1>4, CommandSteps

\* The commands of a task's attempts climb its chain, if that names no model
\* twice, and end with one and the same fallback command (_next_escalation_model
\* and the fallback of the attempt loop in runners.py).
THEOREM LaunchesInOrder == Spec => []LaunchOrder
<1>1. OrderInv => LaunchOrder
  BY DEF OrderInv
<1>2. TypeOK /\ TypeOK' /\ OrderInv /\ [Next]_vars => OrderInv'
  BY NextOrder
<1> QED
  BY <1>1, <1>2, InitOrder, RunnerTypeCorrect, PTL DEF Spec

-----------------------------------------------------------------------------
(***************************************************************************)
(* Every worker is a TaskAttempts                                          *)
(***************************************************************************)
InHand == pc \notin {"run", "running", "done", "raised"}

\* What a step is for who only sees launches, their ends and the answer.
Quiet    == InHand /\ InHand' /\ UNCHANGED launches
Answers  == InHand /\ pc' \in {"done", "raised"} /\ UNCHANGED launches
Launches == InHand /\ pc' \in {"run", "running"} /\ launches' = Append(launches, command')
Returns  == pc \in {"run", "running"} /\ InHand' /\ UNCHANGED launches
Nothing  == UNCHANGED <<pc, status, launches>>
Moves    == UNCHANGED task /\ (Quiet \/ Answers \/ Launches \/ Returns \/ Nothing)

LEMMA StepMoves ==
  ASSUME [Next]_vars
  PROVE  Moves
<1> USE DEF Goto, Finish, loop, InHand, Quiet, Answers, Launches, Returns, Nothing, Moves
<1>1. ASSUME NEW ok \in {"unloaded", "success", "failed"}, RunGroup(ok) PROVE Moves
  BY <1>1 DEF RunGroup
<1>2. CASE BeginBatch
  BY <1>2 DEF BeginBatch
<1>3. CASE ChunkUnbuilt
  BY <1>3 DEF ChunkUnbuilt
<1>4. CASE LaunchChunk
  BY <1>4 DEF LaunchChunk
<1>5. ASSUME NEW ok \in BOOLEAN, ChunkEnds(ok) PROVE Moves
  BY <1>5 DEF ChunkEnds
<1>6. ASSUME NEW ok \in BOOLEAN, CombineChunks(ok) PROVE Moves
  BY <1>6 DEF CombineChunks
<1>7. ASSUME NEW ok \in BOOLEAN, PassGate(ok) PROVE Moves
  BY <1>7 DEF PassGate
<1>8. ASSUME NEW ok \in BOOLEAN, CreateWorktree(ok) PROVE Moves
  BY <1>8 DEF CreateWorktree
<1>9. CASE BuildFails \/ DryRun \/ Unfit \/ PreparationRaises \/ StartAttempts
  BY <1>9 DEF BuildFails, DryRun, Unfit, PreparationRaises, StartAttempts, BeforeFirst
<1>10. CASE TooManyIterations
  BY <1>10 DEF TooManyIterations, CapReached
<1>11. ASSUME NEW rebuilt \in BOOLEAN, NEW started \in BOOLEAN,
              BeginAttempt(rebuilt, started)
       PROVE  Moves
  BY <1>11 DEF BeginAttempt, CapReached
<1>12. ASSUME NEW how \in {"ok", "exit", "engine", "timeout"},
              ProcessEnds(how)
       PROVE  Moves
  BY <1>12 DEF ProcessEnds
<1>13. ASSUME NEW c \in Check, CheckPasses(c) PROVE Moves
  BY <1>13 DEF CheckPasses
<1>14. ASSUME NEW c \in Check, NEW raises \in BOOLEAN, CheckFails(c, raises)
       PROVE  Moves
  BY <1>14 DEF CheckFails
<1>15. CASE AttemptSucceeds
  BY <1>15 DEF AttemptSucceeds
<1>16. ASSUME NEW built \in BOOLEAN, FallBack(built) PROVE Moves
  BY <1>16 DEF FallBack, FallsBack
<1>17. CASE Retry
  BY <1>17 DEF Retry
<1>18. ASSUME NEW violated \in BOOLEAN, Report(violated) PROVE Moves
  BY <1>18 DEF Report
<1>19. ASSUME NEW answer \in {"none", "merged", "conflict", "empty", "error"},
              MergeWorktree(answer)
       PROVE  Moves
  BY <1>19 DEF MergeWorktree
<1>20. ASSUME NEW ok \in BOOLEAN, ValidateOutput(ok) PROVE Moves
  BY <1>20 DEF ValidateOutput
<1>21. ASSUME NEW ok \in {"invalid", "success", "failed", "raises"}, RunDynamic(ok)
       PROVE  Moves
  BY <1>21 DEF RunDynamic
<1>22. CASE CommitPhantom
  BY <1>22 DEF CommitPhantom
<1>23. CASE Over \/ UNCHANGED vars
  BY <1>23 DEF Over, vars
<1> QED
  BY <1>1, <1>2, <1>3, <1>4, <1>5, <1>6, <1>7, <1>8, <1>9, <1>10, <1>11, <1>12,
     <1>13, <1>14, <1>15, <1>16, <1>17, <1>18, <1>19, <1>20, <1>21, <1>22, <1>23
     DEF Next, Step

LEMMA InitAttempts == Init => Abstract!Init
<1> SUFFICES ASSUME Init PROVE Abstract!Init
  OBVIOUS
<1>1. LaunchLimit \in Nat
  BY InitType, Bounds
<1>2. pc = "gate" /\ launches = <<>>
  BY DEF Init
<1> QED BY <1>1, <1>2 DEF Abstract!Init

LEMMA NextAttempts == IInv /\ IInv' /\ [Next]_vars => [Abstract!Next]_(Abstract!vars)
<1> SUFFICES ASSUME IInv, IInv', [Next]_vars PROVE [Abstract!Next]_(Abstract!vars)
  OBVIOUS
<1>1. /\ launches \in Seq(Command) /\ LaunchLimit \in Nat
      /\ command' \in Command
  BY Bounds DEF IInv, Shape, TypeOK
<1>2. UNCHANGED task /\ (Quiet \/ Answers \/ Launches \/ Returns \/ Nothing)
  BY StepMoves DEF Moves
<1>3. LaunchLimit' = LaunchLimit
  BY <1>2 DEF LaunchLimit, MaxAttempts, MaxIterations
<1>4. Len(launches') <= LaunchLimit'
  BY DEF IInv, Shape, LaunchesCounted
<1>5. pc' = "done" => status' \in {"success", "failed", "soft_failed", "skipped", "dry_run"}
  BY DEF IInv, Shape, TypeOK, StatusKnown
<1> USE DEF InHand, None
<1>6. CASE Quiet
  BY <1>3, <1>6 DEF Quiet, Abstract!vars
<1>7. CASE Answers
  BY <1>3, <1>5, <1>7 DEF Answers, Abstract!Next, Abstract!Answer
<1>8. CASE Launches
  <2>1. launches' = Append(launches, command') /\ pc' \in {"run", "running"}
    BY <1>8 DEF Launches
  <2>2. Len(launches') = Len(launches) + 1 /\ Len(launches) < LaunchLimit
    BY <1>1, <1>3, <1>4, <2>1
  <2> QED BY <1>3, <1>8, <2>1, <2>2 DEF Launches, Abstract!Next, Abstract!Launch
<1>9. CASE Returns
  BY <1>3, <1>9 DEF Returns, Abstract!Next, Abstract!Return
<1>10. CASE Nothing
  BY <1>3, <1>10 DEF Nothing, Abstract!vars
<1> QED BY <1>2, <1>6, <1>7, <1>8, <1>9, <1>10

\* A task is launched at most max_retries + 1 times and max_iterations
\* times, one launch after the other, and answers once.
THEOREM AttemptsImplemented == Spec => AttemptsSpec
<1>1. Spec => Abstract!Init
  BY InitAttempts DEF Spec
<1>2. IInv /\ IInv' /\ [Next]_vars => [Abstract!Next]_(Abstract!vars)
  BY NextAttempts
<1>3. Spec => [][Abstract!Next]_(Abstract!vars)
  BY <1>2, RunnerInvariant, PTL DEF Spec
<1> QED BY <1>1, <1>3, PTL DEF Abstract!Spec, AttemptsSpec
=============================================================================
