---------------------------- MODULE LoaderProofs ----------------------------
(***************************************************************************)
(* Theorems about the loader (PlanLoader), for every set of plan files,    *)
(* every limit on imports and every way to sanitize a value.               *)
(***************************************************************************)
EXTENDS PlanLoader, DataLemmas

-----------------------------------------------------------------------------
(* Sequences of refusals.                                                  *)

\* A sequence of codes that a search for cycles does not raise, and of which
\* none could be taken for an acceptance.
Harmless(s) == IsSeq(s) /\ \A i \in DOMAIN s : s[i] \notin {"E004", "accepted"}

LEMMA NoneHarmless == Harmless(<<>>)
BY EmptyIsSeq DEF Harmless

LEMMA OneHarmless == \A code : code \notin {"E004", "accepted"} => Harmless(<<code>>)
<1> SUFFICES ASSUME NEW code, code \notin {"E004", "accepted"} PROVE Harmless(<<code>>)
  OBVIOUS
<1>1. <<code>> \in Seq({code})
  OBVIOUS
<1>2. IsSeq(<<code>>)
  BY <1>1 DEF IsSeq
<1>3. \A i \in DOMAIN <<code>> : <<code>>[i] = code
  OBVIOUS
<1> QED
  BY <1>2, <1>3 DEF Harmless

LEMMA RefuseHarmless == \A bad, code : code \notin {"E004", "accepted"} => Harmless(Refuse(bad, code))
BY NoneHarmless, OneHarmless DEF Refuse

LEMMA BothHarmless == \A s, t : Harmless(s) /\ Harmless(t) => Harmless(s \o t)
<1> SUFFICES ASSUME NEW s, NEW t, Harmless(s), Harmless(t) PROVE Harmless(s \o t)
  OBVIOUS
<1>1. /\ IsSeq(s \o t) /\ Len(s \o t) = Len(s) + Len(t)
      /\ \A i \in 1 .. Len(s) : (s \o t)[i] = s[i]
      /\ \A i \in 1 .. Len(t) : (s \o t)[Len(s) + i] = t[i]
  BY ConcatSeq DEF Harmless
<1>2. /\ Len(s) \in Nat /\ DOMAIN s = 1 .. Len(s) /\ Len(t) \in Nat /\ DOMAIN t = 1 .. Len(t)
      /\ DOMAIN (s \o t) = 1 .. Len(s) + Len(t)
  BY <1>1, SeqDomain DEF Harmless
<1>3. ASSUME NEW i \in 1 .. Len(s) + Len(t) PROVE (s \o t)[i] \notin {"E004", "accepted"}
  <2>1. CASE i <= Len(s)
    BY <1>1, <1>2, <2>1 DEF Harmless
  <2>2. CASE ~(i <= Len(s))
    <3>1. i - Len(s) \in 1 .. Len(t) /\ Len(s) + (i - Len(s)) = i
      BY <1>2, <2>2
    <3> QED
      BY <1>1, <1>2, <3>1 DEF Harmless
  <2> QED
    BY <2>1, <2>2
<1> QED
  BY <1>1, <1>2, <1>3 DEF Harmless

LEMMA ParsersHarmless ==
  /\ \A v : /\ Harmless(ToStrDict(v)) /\ Harmless(ToStrList(v)) /\ Harmless(ToIntOrNone(v))
            /\ Harmless(ToContextBudget(v)) /\ Harmless(ToContractType(v)) /\ Harmless(ToAssertions(v))
            /\ Harmless(ToFloat(v)) /\ Harmless(ToPct(v)) /\ Harmless(ToDelay(v))
            /\ Harmless(ParseCompaction(v)) /\ Harmless(BareInt(v)) /\ Harmless(ToCommand(v))
  /\ \A v, default : Harmless(ParseRetryStrategy(v, default))
BY RefuseHarmless, BothHarmless
   DEF ToStrDict, ToStrList, ToIntOrNone, ToContextBudget, ToContractType, ToAssertions, ToFloat,
       ToPct, ToDelay, ParseCompaction, BareInt, ToCommand, ParseRetryStrategy

LEMMA JudgePartsHarmless ==
  \A j : /\ Harmless(JudgeCriteria(j)) /\ Harmless(JudgeScale(j)) /\ Harmless(JudgeQuorum(j))
        /\ Harmless(ParseDebateRounds(j))
<1>1. \A j : Harmless(JudgeCriteria(j))
  BY RefuseHarmless, BothHarmless DEF JudgeCriteria
<1>2. \A j : Harmless(JudgeScale(j))
  BY RefuseHarmless, BothHarmless DEF JudgeScale
<1>3. \A j : Harmless(JudgeQuorum(j)) /\ Harmless(ParseDebateRounds(j))
  BY RefuseHarmless, BothHarmless DEF JudgeQuorum, ParseDebateRounds
<1> QED
  BY <1>1, <1>2, <1>3

LEMMA JudgeHarmless == \A j : Harmless(ToJudge(j))
BY JudgePartsHarmless, BothHarmless, NoneHarmless DEF ToJudge

LEMMA BlocksHarmless ==
  /\ \A g : Harmless(ToTrajectoryGuard(g))
  /\ \A p : Harmless(ToPopulation(p))
  /\ \A c : Harmless(ToCouncil(c))
  /\ \A x : Harmless(ToMatrix(x))
  /\ \A b : Harmless(ToBatch(b))
  /\ \A v, item : Harmless(ToReminders(v, item))
  /\ \A v : Harmless(ToOutputRedact(v))
<1>1. \A g : Harmless(ToTrajectoryGuard(g))
  BY ParsersHarmless, RefuseHarmless, BothHarmless, NoneHarmless DEF ToTrajectoryGuard
<1>2. \A p : Harmless(ToPopulation(p))
  BY RefuseHarmless, BothHarmless, NoneHarmless DEF ToPopulation
<1>3. ASSUME NEW c PROVE Harmless(ToCouncil(c))
  <2> DEFINE members == Refuse(NotObject(c.self), "E018")
                     \o Refuse(c.participants \notin {"list", "mixed"}, "E012")
                     \o Refuse(c.participants = "mixed", "E018")
                     \o Refuse(c.item = "unknown engine", "E006")
             debate == BareInt(c.rounds)
                    \o Refuse(BelowOne(c.rounds) \/ c.rounds = "huge", "E012")
                    \o Refuse(c.topology \notin {"none", "word", "graph"}, "E008")
                    \o BareInt(c.consensus_threshold)
                    \o Refuse(BelowOne(c.consensus_threshold)
                              \/ c.consensus_threshold = "huge", "E012")
             graph == Refuse(c.connections \notin {"none", "map", "nothing"}, "E072")
                   \o Refuse(c.edge \in {"unknown role", "not a list"}, "E072")
                   \o Refuse(c.topology = "graph" /\ c.connections # "map", "E072")
                   \o Refuse(c.topology = "graph" /\ c.item = "no role", "E072")
  <2>1. Harmless(members) /\ Harmless(debate) /\ Harmless(graph)
    BY ParsersHarmless, RefuseHarmless, BothHarmless
  <2>2. ToCouncil(c) = IF c.self = "none" THEN <<>> ELSE members \o debate \o graph
    BY DEF ToCouncil
  <2> HIDE DEF members, debate, graph
  <2> QED
    BY <2>1, <2>2, NoneHarmless, BothHarmless
<1>4. \A x : Harmless(ToMatrix(x))
  BY RefuseHarmless, BothHarmless, NoneHarmless DEF ToMatrix
<1>5. \A b : Harmless(ToBatch(b))
  BY RefuseHarmless, BothHarmless, NoneHarmless DEF ToBatch
<1>6. \A v, item : Harmless(ToReminders(v, item))
  BY RefuseHarmless, BothHarmless DEF ToReminders
<1>7. \A v : Harmless(ToOutputRedact(v))
  BY RefuseHarmless, BothHarmless DEF ToOutputRedact
<1> QED
  BY <1>1, <1>2, <1>3, <1>4, <1>5, <1>6, <1>7

LEMMA PartsHarmless ==
  \A t, default : /\ Harmless(ConstructorRefusals(t, default)) /\ Harmless(AttributeRefusals(t))
                  /\ Harmless(CommandRefusals(t))
<1>1. \A t, default : Harmless(ConstructorRefusals(t, default))
  BY ParsersHarmless, BlocksHarmless, JudgeHarmless, BothHarmless DEF ConstructorRefusals
<1>2. \A t : Harmless(AttributeRefusals(t))
  BY ParsersHarmless, BlocksHarmless, RefuseHarmless, BothHarmless DEF AttributeRefusals
<1>3. \A t : Harmless(CommandRefusals(t))
  BY ParsersHarmless, BothHarmless DEF CommandRefusals
<1> QED
  BY <1>1, <1>2, <1>3

LEMMA TaskHarmless == \A t, default : Harmless(TaskRefusals(t, default))
BY PartsHarmless, RefuseHarmless, BothHarmless DEF TaskRefusals

\* What is refused of each element of a list.
LEMMA EachHarmless ==
  ASSUME NEW seq, IsSeq(seq), NEW each, each = [i \in DOMAIN seq |-> each[i]],
         \A i \in DOMAIN seq : Harmless(each[i])
  PROVE  Harmless(FlattenSeq(each))
<1>1. IsSeq(each) /\ DOMAIN each = DOMAIN seq /\ \A i \in DOMAIN each : IsSeq(each[i])
  BY SeqDomain, DomainIsSeq DEF Harmless
<1>2. IsSeq(FlattenSeq(each)) /\ ToSet(FlattenSeq(each)) = UNION {ToSet(each[i]) : i \in DOMAIN each}
  BY <1>1, FlattenElements
<1>3. \A x \in ToSet(FlattenSeq(each)) : x \notin {"E004", "accepted"}
  BY <1>1, <1>2 DEF Harmless, ToSet
<1> QED
  BY <1>2, <1>3 DEF Harmless, ToSet

LEMMA EachEmpty ==
  ASSUME NEW seq, IsSeq(seq), NEW each, each = [i \in DOMAIN seq |-> each[i]],
         \A i \in DOMAIN seq : Harmless(each[i]), FlattenSeq(each) = <<>>
  PROVE  \A i \in DOMAIN seq : each[i] = <<>>
<1>1. IsSeq(each) /\ DOMAIN each = DOMAIN seq /\ \A i \in DOMAIN each : IsSeq(each[i])
  BY SeqDomain, DomainIsSeq DEF Harmless
<1>2. UNION {ToSet(each[i]) : i \in DOMAIN each} = {}
  BY <1>1, FlattenElements, EmptyIsSeq DEF ToSet
<1>3. ASSUME NEW i \in DOMAIN each PROVE DOMAIN each[i] = {}
  <2>1. ToSet(each[i]) = {}
    BY <1>2
  <2> QED
    BY <2>1 DEF ToSet
<1> QED
  BY <1>1, <1>3, EmptyDomain, SeqDomain

LEMMA SpecHarmless ==
  /\ \A w : Harmless(WatchRefusals(w))
  /\ \A b : Harmless(BreakerRefusals(b))
  /\ \A s : Harmless(ServerRefusals(s))
  /\ \A r : Harmless(VersionRefusals(r))
<1>1. \A w : Harmless(WatchRefusals(w))
  BY ParsersHarmless, RefuseHarmless, BothHarmless, NoneHarmless DEF WatchRefusals
<1>2. \A b : Harmless(BreakerRefusals(b))
  BY RefuseHarmless, BothHarmless, NoneHarmless DEF BreakerRefusals
<1>3. \A s : Harmless(ServerRefusals(s))
  BY ParsersHarmless, RefuseHarmless, BothHarmless DEF ServerRefusals
<1>4. \A r : Harmless(VersionRefusals(r))
  BY ParsersHarmless, RefuseHarmless, BothHarmless DEF VersionRefusals
<1> QED
  BY <1>1, <1>2, <1>3, <1>4

LEMMA EachRuleHarmless ==
  \A p, t : /\ Harmless(TypeRules(p, t)) /\ Harmless(BatchRules(t)) /\ Harmless(DynamicRules(t))
            /\ Harmless(ContractRules(p, t)) /\ Harmless(EngineRules(t)) /\ Harmless(ContextRules(p, t))
            /\ Harmless(ResilienceRules(t)) /\ Harmless(AllowedToolsRules(t)) /\ Harmless(LimitRules(t))
            /\ Harmless(JudgeRules(t)) /\ Harmless(ModeRules(p, t)) /\ Harmless(WhenRules(p, t))
<1>1. \A p, t : Harmless(TypeRules(p, t))
  BY RefuseHarmless, BothHarmless DEF TypeRules
<1>2. \A t : Harmless(BatchRules(t))
  BY RefuseHarmless, BothHarmless, NoneHarmless DEF BatchRules
<1>3. \A t : Harmless(DynamicRules(t))
  BY RefuseHarmless, BothHarmless, NoneHarmless DEF DynamicRules
<1>4. \A p, t : Harmless(ContractRules(p, t))
  BY RefuseHarmless, BothHarmless DEF ContractRules
<1>5. \A t : Harmless(EngineRules(t))
  BY RefuseHarmless, BothHarmless DEF EngineRules
<1>6. \A p, t : Harmless(ContextRules(p, t)) /\ Harmless(ModeRules(p, t)) /\ Harmless(WhenRules(p, t))
  BY RefuseHarmless, BothHarmless DEF ContextRules, ModeRules, WhenRules
<1>7. \A t : Harmless(ResilienceRules(t)) /\ Harmless(AllowedToolsRules(t)) /\ Harmless(LimitRules(t))
  BY RefuseHarmless, BothHarmless DEF ResilienceRules, AllowedToolsRules, LimitRules
<1>8. \A t : Harmless(JudgeRules(t))
  BY RefuseHarmless, BothHarmless, NoneHarmless DEF JudgeRules
<1> QED
  BY <1>1, <1>2, <1>3, <1>4, <1>5, <1>6, <1>7, <1>8

LEMMA RulesHarmless == \A p, t : Harmless(TaskRules(p, t))
BY EachRuleHarmless, BothHarmless DEF TaskRules

-----------------------------------------------------------------------------
(* The invariant.                                                          *)

\* A task that the stages after the parsers can go through.
GoodValue(k, v) ==
  /\ k \in {"depends_on", "context_from", "consumes_contracts", "consistency_group",
            "reconcile_after"} => IsSeq(v)
  /\ k = "judge" => DOMAIN JudgeSpec \subseteq DOMAIN v
  /\ k = "matrix" => "dims" \in DOMAIN v /\ IsSeq(v.dims) /\ \A n \in DOMAIN v.dims : IsSeq(v.dims[n].values)
WellFormed(t) == DOMAIN TaskSpec \subseteq DOMAIN t /\ \A k \in DOMAIN TaskSpec : GoodValue(k, t[k])

WellFormedList(list) == IsSeq(list) /\ \A i \in DOMAIN list : WellFormed(list[i])
ImportsIn(r, file) == IF file = "main" THEN r.imports ELSE r.files[file].imports
WellFormedImport(r, e) ==
  e.path \in DOMAIN r.files /\ \A k \in DOMAIN e.overrides : GoodValue(k, e.overrides[k])
WellFormedFiles(r) ==
  /\ DOMAIN PlanSpec \subseteq DOMAIN r /\ IsSeq(r.mcp_servers)
  /\ WellFormedList(r.tasks) /\ \A f \in DOMAIN r.files : WellFormedList(r.files[f].tasks)
  /\ \A f \in DOMAIN r.files \cup {"main"} :
        LET entries == ImportsIn(r, f).entries
        IN IsSeq(entries) /\ \A i \in DOMAIN entries : WellFormedImport(r, entries[i])

\* The calls of _resolve_imports: each has one entry in hand, the innermost perhaps none.
Calling(r, q) ==
  /\ IsSeq(q)
  /\ \A i \in DOMAIN q : /\ q[i] \in [file : DOMAIN r.files \cup {"main"}, next : Nat \ {0}]
                         /\ i > 1 => q[i].file \in DOMAIN r.files
                         /\ i < Len(q) => q[i].next \in DOMAIN ImportsIn(r, q[i].file).entries
FramesInv ==
  /\ WellFormedFiles(raw) /\ WellFormedList(tasks) /\ Calling(raw, frames)
  /\ phase = "import" => frames # <<>>

\* What the parsers establish of a task, and what the resolution of contracts and
\* groups establishes of a list.
Parsed(t) ==
  /\ t.max_retries \in Numbers \cup {"none"}
  /\ t.judge.self # "none" /\ t.judge.quorum_strategy # "none" => Count(t.judge.quorum) >= 2
Shares(u, t) == ToSet(u.consistency_group) \cap ToSet(t.reconcile_after) # {}
Resolved(list) ==
  \A i \in DOMAIN list :
     /\ \A c \in ToSet(list[i].consumes_contracts) :
           c # list[i].id /\ c \in Ids(list) => Depends(list[i], c)
     /\ \A k \in DOMAIN list :
           list[k].id # list[i].id /\ Shares(list[k], list[i]) => Depends(list[i], list[k].id)

\* What the rules before the search establish: of the names and the graph, of a
\* task, of the plan.
Waits(list, i) ==
  /\ ToSet(list[i].depends_on) \subseteq Ids(list)
  /\ \A c \in ToSet(list[i].context_from) \ {Everyone} : Depends(list[i], c)
  /\ \A r \in list[i].when : Plain(r) => Depends(list[i], r)
  /\ \A c \in ToSet(list[i].consumes_contracts) : Depends(list[i], c)
  /\ \A k \in DOMAIN list : k # i /\ Shares(list[k], list[i]) => Depends(list[i], list[k].id)
Graphlike(list) ==
  /\ \A i, k \in DOMAIN list : i # k => list[i].id # list[k].id
  /\ \A i \in DOMAIN list : Waits(list, i)
SaneTask(t) ==
  /\ t.max_retries \in {"none", "zero", "tiny", "number", "flag"}
  /\ Cardinality(Types(t)) = 1
  /\ t.fallback_engine # "none" => t.engine # "none"
  /\ t.judge.self # "none" /\ t.judge.quorum_strategy # "none" => Count(t.judge.quorum) >= 2
BreakerCounts(b) == b.self # "none" => Count(b.max_total_failures) >= 1
Checked(p) ==
  /\ DOMAIN PlanSpec \subseteq DOMAIN p
  /\ WellFormedList(p.tasks) /\ Graphlike(p.tasks) /\ \A i \in DOMAIN p.tasks : SaneTask(p.tasks[i])
  /\ \A i \in DOMAIN p.tasks : p.tasks[i].dynamic_group => ~p.tasks[i].cache
  /\ Count(p.max_parallel) >= 1 /\ BreakerCounts(p.circuit_breaker)

\* What the rules after the search establish.
Isolated(p) ==
  /\ p.watch.self # "none" => WarmUp(p.watch) \in 0 .. Count(p.watch.max_iterations) - 1
  /\ \A i \in DOMAIN p.tasks :
        LET t == p.tasks[i]
        IN /\ t.worktree => ~NoText(p.workspace_root)
           /\ t.worktree /\ t.engine = "none" => t.group = "blank" \/ Falsy(t.command)

StageInv ==
  /\ phase = "expand" => \A i \in DOMAIN tasks : Parsed(tasks[i])
  /\ phase \in {"specify", "validate"} => Resolved(tasks) /\ \A i \in DOMAIN tasks : Parsed(tasks[i])
  /\ phase = "validate" => plan = <<[raw EXCEPT !.tasks = tasks]>> /\ BreakerCounts(raw.circuit_breaker)
  /\ phase = "search" => IsSeq(plan) /\ Len(plan) = 1 /\ Checked(plan[1])
  /\ phase \notin {"search", "done"} => path = <<>> /\ visited = {}

\* Every member of the set waits for a member.
Circular(list, S) == \A id \in S : \E d \in S : Depends(TaskOf(list, id), d)

\* The search: each node on the path was reached from the one below it, every
\* dependency looked at is done with or the next node of the path, and no circle
\* reaches what is done with.
Deps(list, id) == TaskOf(list, id).depends_on
Searching(list, q, done) ==
  /\ IsSeq(q)
  /\ \A i \in DOMAIN q : q[i] \in [node : Ids(list), next : Nat \ {0}]
  /\ \A i \in DOMAIN q : i < Len(q) => /\ q[i].next - 1 \in DOMAIN Deps(list, q[i].node)
                                       /\ Deps(list, q[i].node)[q[i].next - 1] = q[i + 1].node
  /\ \A i \in DOMAIN q : \A k \in DOMAIN Deps(list, q[i].node) :
        k < q[i].next => \/ Deps(list, q[i].node)[k] \in done
                         \/ i < Len(q) /\ k = q[i].next - 1
  /\ \A S \in SUBSET Ids(list) : Circular(list, S) => S \cap done = {}
SearchInv == phase = "search" => Searching(Loaded.tasks, path, visited)

VerdictInv ==
  /\ verdict \in {"E004", "accepted"} => phase = "done"
  /\ verdict = "E004" => HasCycle(Loaded.tasks)
  /\ verdict = "accepted" => /\ IsSeq(plan) /\ Len(plan) = 1 /\ ~HasCycle(plan[1].tasks)
                             /\ Checked(plan[1]) /\ Isolated(plan[1])

LoaderInv == FramesInv /\ StageInv /\ SearchInv /\ VerdictInv

-----------------------------------------------------------------------------
(* Tasks stay well formed.                                                 *)

LEMMA ListIsSeq == \A s : IsList(s) => IsSeq(s)
BY DEF IsList, IsSeq

LEMMA MapIsSeq ==
  ASSUME NEW s, IsSeq(s), NEW f, f = [i \in DOMAIN s |-> f[i]]
  PROVE  IsSeq(f) /\ Len(f) = Len(s) /\ DOMAIN f = DOMAIN s
BY SeqDomain, DomainIsSeq

Names == {"id", "depends_on", "context_from", "consumes_contracts", "consistency_group",
          "reconcile_after", "when", "judge", "matrix", "max_retries", "engine", "command", "group",
          "fallback_engine", "worktree", "dynamic_group", "cache"}

LEMMA TaskNames == Names \subseteq DOMAIN TaskSpec
BY DEF Names, TaskSpec, Unset, Block

LEMMA JudgeNames == {"self", "quorum", "quorum_strategy"} \subseteq DOMAIN JudgeSpec
BY DEF JudgeSpec, Unset, Block

LEMMA PlanNames ==
  {"tasks", "imports", "mcp_servers", "max_parallel", "circuit_breaker", "watch", "workspace_root",
   "warnings"} \subseteq DOMAIN PlanSpec
BY DEF PlanSpec, Unset, Block

LEMMA FieldIsGood == \A k, v : IsField(k, v) => GoodValue(k, v)
<1> SUFFICES ASSUME NEW k, NEW v, IsField(k, v) PROVE GoodValue(k, v)
  OBVIOUS
<1>1. k = "matrix" => \A n \in DOMAIN v.dims : IsList(v.dims[n].values)
  BY DEF IsField, ToSet
<1> QED
  BY <1>1, ListIsSeq DEF IsField, GoodValue

LEMMA TaskWellFormed == \A t : IsTask(t) => WellFormed(t)
BY FieldIsGood DEF IsTask, WellFormed

LEMMA FilesWellFormed == \A c \in Cases : WellFormedFiles(RawPlan(c))
<1> SUFFICES ASSUME NEW c \in Cases PROVE WellFormedFiles(RawPlan(c))
  OBVIOUS
<1>1. PICK r : r = RawPlan(c)
  OBVIOUS
<1> DEFINE all == {r} \cup {r.files[f] : f \in DOMAIN r.files}
<1>2. \A file \in all :
        /\ IsFile(file)
        /\ \A e \in ToSet(file.imports.entries) :
              e.path \in DOMAIN r.files /\ \A k \in DOMAIN e.overrides : IsField(k, e.overrides[k])
  BY <1>1, FilesAssumption DEF FilesAssumption
<1>3. r \in all /\ \A f \in DOMAIN r.files : r.files[f] \in all
  OBVIOUS
<1> HIDE DEF all
<1>4. \A file \in all : WellFormedList(file.tasks) /\ IsSeq(file.imports.entries)
  BY <1>2, ListIsSeq, TaskWellFormed DEF IsFile, WellFormedList, ToSet
<1>5. \A file \in all : \A i \in DOMAIN file.imports.entries :
        WellFormedImport(r, file.imports.entries[i])
  BY <1>2, FieldIsGood DEF WellFormedImport, ToSet
<1>6. DOMAIN PlanSpec \subseteq DOMAIN r /\ IsSeq(r.mcp_servers)
  BY <1>2, <1>3, ListIsSeq DEF IsFile
<1>7. \A f \in DOMAIN r.files \cup {"main"} : \E file \in all : ImportsIn(r, f) = file.imports
  BY <1>3 DEF ImportsIn
<1> QED
  BY <1>1, <1>3, <1>4, <1>5, <1>6, <1>7 DEF WellFormedFiles
Listed == {"depends_on", "context_from", "consumes_contracts", "consistency_group", "reconcile_after"}

LEMMA WellFormedFields ==
  ASSUME NEW t, WellFormed(t)
  PROVE  /\ Names \subseteq DOMAIN t /\ \A k \in Listed : IsSeq(t[k])
         /\ {"self", "quorum", "quorum_strategy"} \subseteq DOMAIN t.judge
         /\ IsSeq(t.matrix.dims) /\ \A n \in DOMAIN t.matrix.dims : IsSeq(t.matrix.dims[n].values)
<1>1. \A k \in Names : k \in DOMAIN TaskSpec /\ k \in DOMAIN t /\ GoodValue(k, t[k])
  BY TaskNames DEF WellFormed
<1> QED
  BY <1>1, JudgeNames DEF Names, Listed, GoodValue

\* A task with some of its fields replaced by values of their kind.
LEMMA ReplacedWellFormed ==
  ASSUME NEW t, WellFormed(t), NEW u, DOMAIN t \subseteq DOMAIN u,
         \A k \in DOMAIN TaskSpec : u[k] = t[k] \/ GoodValue(k, u[k])
  PROVE  WellFormed(u)
BY DEF WellFormed

LEMMA SplicedWellFormed ==
  ASSUME NEW t, WellFormed(t), NEW prefix, NEW overrides,
         \A k \in DOMAIN overrides : GoodValue(k, overrides[k])
  PROVE  WellFormed(Overridden(Prefixed(prefix, t), overrides))
<1> DEFINE deps == [i \in DOMAIN t.depends_on |-> QualifyDep(prefix, t.depends_on[i])]
           from == [i \in DOMAIN t.context_from |-> Qualify(prefix, t.context_from[i])]
           u == Prefixed(prefix, t)
<1>1. IsSeq(t.depends_on) /\ IsSeq(t.context_from)
  BY WellFormedFields DEF Listed
<1>2. IsSeq(deps) /\ IsSeq(from)
  BY <1>1, MapIsSeq
<1>3. "id" \in DOMAIN t /\ "depends_on" \in DOMAIN t /\ "context_from" \in DOMAIN t
  BY WellFormedFields DEF Names
<1>4. /\ DOMAIN u = DOMAIN t /\ u.depends_on = deps /\ u.context_from = from
      /\ \A k \in DOMAIN t : k \notin {"id", "depends_on", "context_from"} => u[k] = t[k]
  BY <1>3 DEF Prefixed
<1> HIDE DEF deps, from, u
<1>5. WellFormed(u)
  <2>1. GoodValue("depends_on", u.depends_on) /\ GoodValue("context_from", u.context_from) /\ GoodValue("id", u.id)
    BY <1>2, <1>4 DEF GoodValue
  <2>2. \A k \in DOMAIN TaskSpec : k \in DOMAIN t
    BY DEF WellFormed
  <2>3. \A k \in DOMAIN TaskSpec : u[k] = t[k] \/ GoodValue(k, u[k])
    BY <1>4, <2>1, <2>2
  <2> QED
    BY <1>4, <2>3, ReplacedWellFormed
<1>6. WellFormed(Overridden(u, overrides))
  <2>1. DOMAIN Overridden(u, overrides) = DOMAIN u
    BY DEF Overridden
  <2>2. \A k \in DOMAIN TaskSpec : k \in DOMAIN u
    BY <1>5 DEF WellFormed
  <2>3. \A k \in DOMAIN TaskSpec :
          Overridden(u, overrides)[k] = u[k] \/ GoodValue(k, Overridden(u, overrides)[k])
    BY <2>2 DEF Overridden
  <2> QED
    BY <1>5, <2>1, <2>3, ReplacedWellFormed
<1> QED
  BY <1>6 DEF u

\* The defaults of an engine touch neither lists nor the judge.
LEMMA DefaultsWellFormed ==
  ASSUME NEW t, WellFormed(t), NEW defaults, NEW u, u = WithEngineDefaults(t, defaults)
  PROVE  WellFormed(u) /\ u.judge = t.judge /\ u.max_retries = t.max_retries
<1>1. /\ DOMAIN u = DOMAIN t
      /\ \A k \in DOMAIN t : k \notin {"escalation", "fallback_engine", "fallback_model", "allowed_tools"} =>
           u[k] = t[k]
  BY DEF WithEngineDefaults
<1>2. \A k \in {"escalation", "fallback_engine", "fallback_model", "allowed_tools"} : GoodValue(k, u[k])
  BY DEF GoodValue
<1>3. \A k \in DOMAIN TaskSpec : u[k] = t[k] \/ GoodValue(k, u[k])
  BY <1>1, <1>2 DEF WellFormed
<1>4. WellFormed(u)
  BY <1>1, <1>3, ReplacedWellFormed
<1> QED
  BY <1>1, <1>4, WellFormedFields DEF Names

-----------------------------------------------------------------------------
(* Matrices.                                                               *)

CellsFit(x, g, n) ==
  g = [m \in 0 .. n |-> IF m = 0 THEN <<(<<>>)>> ELSE Crossed(g[m - 1], x.dims[m])]

LEMMA CellsExist == ASSUME NEW x, NEW n \in Nat PROVE \E g : CellsFit(x, g, n)
<1> DEFINE Upto == {m \in Nat : \E g : CellsFit(x, g, m)}
<1>1. 0 \in Upto
  <2> DEFINE g == [m \in 0 .. 0 |-> <<(<<>>)>>]
  <2>1. CellsFit(x, g, 0)
    BY DEF CellsFit
  <2> HIDE DEF g
  <2> QED
    BY <2>1
<1>2. ASSUME NEW m \in Nat, m \in Upto PROVE m + 1 \in Upto
  <2>1. PICK g : CellsFit(x, g, m)
    BY <1>2
  <2> DEFINE h == [k \in 0 .. m + 1 |-> IF k = 0 THEN <<(<<>>)>> ELSE Crossed(g[k - 1], x.dims[k])]
  <2>2. \A k \in 0 .. m : h[k] = g[k]
    BY <2>1 DEF CellsFit
  <2>3. \A k \in 0 .. m + 1 : k # 0 => h[k - 1] = g[k - 1]
    <3> HIDE DEF h
    <3>1. \A k \in 0 .. m + 1 : k # 0 => k - 1 \in 0 .. m
      OBVIOUS
    <3> QED
      BY <2>2, <3>1
  <2>4. h = [k \in 0 .. m + 1 |-> IF k = 0 THEN <<(<<>>)>> ELSE Crossed(h[k - 1], x.dims[k])]
    BY <2>3
  <2> HIDE DEF h
  <2>5. CellsFit(x, h, m + 1)
    BY <2>4 DEF CellsFit
  <2> QED
    BY <2>5
<1>3. Nat \subseteq Upto
  <2> HIDE DEF Upto
  <2> QED
    BY <1>1, <1>2, SetInduction
<1> QED
  BY <1>3

LEMMA CrossedIsSeq ==
  ASSUME NEW cells, IsSeq(cells), NEW d, IsSeq(d.values)
  PROVE  IsSeq(Crossed(cells, d))
<1> DEFINE With(cell) == [k \in DOMAIN d.values |-> Append(cell, <<d.key, Sanitize[d.values[k]]>>)]
           each == [i \in DOMAIN cells |-> With(cells[i])]
<1>1. \A cell : IsSeq(With(cell))
  BY MapIsSeq
<1> HIDE DEF With
<1>2. IsSeq(each) /\ \A i \in DOMAIN each : IsSeq(each[i])
  BY <1>1, MapIsSeq
<1>3. Crossed(cells, d) = FlattenSeq(each)
  BY DEF Crossed, InTurn, With
<1> HIDE DEF each
<1> QED
  BY <1>2, <1>3, FlattenElements

LEMMA CellsIsSeq ==
  ASSUME NEW x, IsSeq(x.dims), \A n \in DOMAIN x.dims : IsSeq(x.dims[n].values)
  PROVE  IsSeq(Cells(x))
<1> DEFINE N == Len(x.dims)
           cells == CHOOSE g : CellsFit(x, g, N)
           Upto == {m \in Nat : m <= N => IsSeq(cells[m])}
<1>1. N \in Nat /\ DOMAIN x.dims = 1 .. N
  BY SeqDomain
<1>2. CellsFit(x, cells, N)
  BY <1>1, CellsExist
<1>3. Cells(x) = cells[N]
  BY DEF Cells, CellsFit
<1> HIDE DEF cells
<1>4. \A m \in 0 .. N : cells[m] = IF m = 0 THEN <<(<<>>)>> ELSE Crossed(cells[m - 1], x.dims[m])
  BY <1>2 DEF CellsFit
<1>5. 0 \in Upto
  <2>1. <<(<<>>)>> \in Seq({<<>>})
    OBVIOUS
  <2>2. cells[0] = <<(<<>>)>>
    BY <1>1, <1>4
  <2> QED
    BY <2>1, <2>2 DEF IsSeq
<1>6. ASSUME NEW m \in Nat, m \in Upto PROVE m + 1 \in Upto
  <2> SUFFICES ASSUME m + 1 <= N PROVE IsSeq(cells[m + 1])
    OBVIOUS
  <2>1. m + 1 \in DOMAIN x.dims /\ m + 1 \in 0 .. N /\ m + 1 # 0 /\ (m + 1) - 1 = m /\ m <= N
    BY <1>1
  <2>2. cells[m + 1] = Crossed(cells[m], x.dims[m + 1])
    BY <1>4, <2>1
  <2> QED
    BY <1>6, <2>1, <2>2, CrossedIsSeq
<1>7. Nat \subseteq Upto
  <2> HIDE DEF Upto
  <2> QED
    BY <1>5, <1>6, SetInduction
<1> QED
  BY <1>1, <1>3, <1>7

\* A child is well formed, and tried and judged as its parent.
LEMMA ChildWellFormed ==
  ASSUME NEW t, WellFormed(t), NEW cell, NEW u, u = Child(t, cell)
  PROVE  WellFormed(u) /\ (Parsed(t) => Parsed(u))
<1>0. /\ "max_retries" \in DOMAIN t /\ "judge" \in DOMAIN t /\ "matrix" \in DOMAIN t
      /\ \A k \in Listed : k \in DOMAIN t
  BY WellFormedFields DEF Names, Listed
<1>1. /\ DOMAIN u = DOMAIN t /\ u.max_retries = t.max_retries
      /\ \A k \in Listed : u[k] = t[k]
      /\ u.judge = [t.judge EXCEPT !.timeout_sec = "none", !.debate_rounds = "none"]
      /\ u.matrix = [t.matrix EXCEPT !.self = "none"]
  <2>1. DOMAIN u = DOMAIN t
    BY DEF Child
  <2>2. u.max_retries = t.max_retries
    BY <1>0 DEF Child
  <2>3. \A k \in Listed : u[k] = t[k]
    BY <1>0 DEF Child, Listed
  <2>4. u.judge = [t.judge EXCEPT !.timeout_sec = "none", !.debate_rounds = "none"]
    BY <1>0 DEF Child
  <2>5. u.matrix = [t.matrix EXCEPT !.self = "none"]
    BY <1>0 DEF Child, Absent
  <2> QED
    BY <2>1, <2>2, <2>3, <2>4, <2>5
<1>2. /\ DOMAIN u.judge = DOMAIN t.judge
      /\ \A k \in {"self", "quorum", "quorum_strategy"} : u.judge[k] = t.judge[k]
  BY <1>1, WellFormedFields
<1>3. "dims" \in DOMAIN t.matrix
  BY TaskNames DEF WellFormed, GoodValue, Names
<1>4. DOMAIN u.matrix = DOMAIN t.matrix /\ u.matrix.dims = t.matrix.dims
  BY <1>1, <1>3
<1>5. ASSUME NEW k \in DOMAIN TaskSpec PROVE GoodValue(k, u[k])
  <2>0. GoodValue(k, t[k])
    BY DEF WellFormed
  <2>1. CASE k \in Listed
    BY <1>1, <2>0, <2>1
  <2>2. CASE k = "judge"
    BY <1>2, <2>0, <2>2 DEF GoodValue
  <2>3. CASE k = "matrix"
    BY <1>4, <2>0, <2>3 DEF GoodValue
  <2> QED
    BY <2>1, <2>2, <2>3 DEF GoodValue, Listed
<1>6. Parsed(t) => Parsed(u)
  BY <1>1, <1>2 DEF Parsed
<1> QED
  BY <1>1, <1>5, <1>6 DEF WellFormed

LEMMA ChildrenWellFormed ==
  ASSUME NEW t, WellFormed(t)
  PROVE  WellFormedList(Children(t)) /\ (Parsed(t) => \A i \in DOMAIN Children(t) : Parsed(Children(t)[i]))
<1>1. CASE t.matrix.self = "none"
  <2>1. <<t>> \in Seq({t}) /\ DOMAIN <<t>> = {1} /\ <<t>>[1] = t
    OBVIOUS
  <2>2. Children(t) = <<t>> /\ IsSeq(Children(t))
    BY <1>1, <2>1 DEF Children, IsSeq
  <2> QED
    BY <2>1, <2>2 DEF WellFormedList
<1>2. CASE t.matrix.self # "none"
  <2> DEFINE cells == Cells(t.matrix)
             children == [i \in DOMAIN cells |-> Child(t, cells[i])]
  <2>1. IsSeq(cells)
    BY WellFormedFields, CellsIsSeq
  <2>2. IsSeq(children) /\ DOMAIN children = DOMAIN cells
    BY <2>1, MapIsSeq
  <2>3. \A i \in DOMAIN cells : children[i] = Child(t, cells[i])
    OBVIOUS
  <2>4. Children(t) = children
    BY <1>2 DEF Children
  <2> HIDE DEF cells, children
  <2>5. \A i \in DOMAIN children : WellFormed(children[i]) /\ (Parsed(t) => Parsed(children[i]))
    BY <2>2, <2>3, ChildWellFormed
  <2> QED
    BY <2>2, <2>4, <2>5 DEF WellFormedList
<1> QED
  BY <1>1, <1>2

LEMMA ExpandedIsSeq ==
  ASSUME NEW list, WellFormedList(list), NEW id
  PROVE  IsSeq(Expanded(id, list))
<1> DEFINE owners == {i \in DOMAIN list : list[i].id = id /\ list[i].matrix.self # "none"}
           children == Children(list[Max(owners)])
           ids == [i \in DOMAIN children |-> children[i].id]
<1>1. Expanded(id, list) = IF owners = {} THEN <<id>> ELSE ids
  BY DEF Expanded
<1>2. CASE owners = {}
  <2>1. <<id>> \in Seq({id})
    OBVIOUS
  <2> QED
    BY <1>1, <1>2, <2>1 DEF IsSeq
<1>3. CASE owners # {}
  <2>1. Len(list) \in Nat /\ owners \subseteq 0 .. Len(list)
    BY SeqDomain DEF WellFormedList
  <2>2. \E m \in owners : \A k \in owners : k <= m
    BY <1>3, <2>1, GreatestNumber
  <2>3. \E m \in owners : \A k \in owners : m >= k
    BY <2>1, <2>2
  <2>4. Max(owners) \in owners
    BY <2>3 DEF Max
  <2>5. WellFormed(list[Max(owners)])
    BY <2>4 DEF WellFormedList
  <2> HIDE DEF owners
  <2>6. IsSeq(children)
    BY <2>5, ChildrenWellFormed DEF WellFormedList
  <2> HIDE DEF children
  <2>7. IsSeq(ids)
    BY <2>6, MapIsSeq
  <2> QED
    BY <1>1, <1>3, <2>7
<1> QED
  BY <1>2, <1>3

LEMMA MatricesWellFormed ==
  ASSUME NEW list, WellFormedList(list), \A i \in DOMAIN list : Parsed(list[i]),
         NEW new, new = ExpandMatrixTasks(list)
  PROVE  WellFormedList(new) /\ \A i \in DOMAIN new : Parsed(new[i])
<1> DEFINE each == [i \in DOMAIN list |-> Children(list[i])]
           flat == FlattenSeq(each)
           All(ids) == FlattenSeq([n \in DOMAIN ids |-> Expanded(ids[n], list)])
<1>1. new = [i \in DOMAIN flat |-> [flat[i] EXCEPT !.depends_on = All(@), !.context_from = All(@)]]
  BY DEF ExpandMatrixTasks, InTurn
<1>2. \A i \in DOMAIN list : WellFormed(list[i])
  BY DEF WellFormedList
<1>3. IsSeq(each) /\ \A i \in DOMAIN each : IsSeq(each[i])
  BY <1>2, ChildrenWellFormed, MapIsSeq DEF WellFormedList
<1>4. \A i \in DOMAIN each : \A x \in ToSet(each[i]) : WellFormed(x) /\ Parsed(x)
  BY <1>2, ChildrenWellFormed DEF WellFormedList, ToSet
<1> HIDE DEF each
<1>5. IsSeq(flat) /\ ToSet(flat) = UNION {ToSet(each[i]) : i \in DOMAIN each}
  BY <1>3, FlattenElements
<1> HIDE DEF flat
<1>6. \A i \in DOMAIN flat : flat[i] \in ToSet(flat)
  BY DEF ToSet
<1>7. \A i \in DOMAIN flat : WellFormed(flat[i]) /\ Parsed(flat[i])
  BY <1>4, <1>5, <1>6
<1>8. ASSUME NEW ids, IsSeq(ids) PROVE IsSeq(All(ids))
  <2> DEFINE parts == [n \in DOMAIN ids |-> Expanded(ids[n], list)]
  <2>1. IsSeq(parts) /\ \A n \in DOMAIN parts : IsSeq(parts[n])
    BY <1>8, MapIsSeq, ExpandedIsSeq
  <2> HIDE DEF parts
  <2>2. IsSeq(FlattenSeq(parts))
    BY <2>1, FlattenElements
  <2> QED
    BY <2>2 DEF parts
<1> HIDE DEF All
<1>9. IsSeq(new) /\ DOMAIN new = DOMAIN flat
  BY <1>1, <1>5, MapIsSeq
<1>10. ASSUME NEW i \in DOMAIN flat PROVE WellFormed(new[i]) /\ Parsed(new[i])
  <2>1. /\ Names \subseteq DOMAIN flat[i]
        /\ IsSeq(flat[i].depends_on) /\ IsSeq(flat[i].context_from)
    BY <1>7, WellFormedFields DEF Listed
  <2>2. new[i] = [flat[i] EXCEPT !.depends_on = All(@), !.context_from = All(@)]
    BY <1>1
  <2>3. /\ DOMAIN new[i] = DOMAIN flat[i]
        /\ new[i].depends_on = All(flat[i].depends_on) /\ new[i].context_from = All(flat[i].context_from)
        /\ \A k \in DOMAIN flat[i] : k \notin {"depends_on", "context_from"} => new[i][k] = flat[i][k]
    BY <2>1, <2>2 DEF Names
  <2>4. GoodValue("depends_on", new[i].depends_on) /\ GoodValue("context_from", new[i].context_from)
    BY <1>8, <2>1, <2>3 DEF GoodValue
  <2>5. \A k \in DOMAIN TaskSpec : new[i][k] = flat[i][k] \/ GoodValue(k, new[i][k])
    BY <1>7, <2>3, <2>4 DEF WellFormed
  <2>6. WellFormed(new[i])
    BY <1>7, <2>3, <2>5, ReplacedWellFormed
  <2>7. new[i].max_retries = flat[i].max_retries /\ new[i].judge = flat[i].judge
    BY <2>1, <2>3 DEF Names
  <2> QED
    BY <1>7, <2>6, <2>7 DEF Parsed
<1> QED
  BY <1>9, <1>10 DEF WellFormedList

-----------------------------------------------------------------------------
(* Contracts and groups.                                                   *)

\* Naming the elements of a list once each loses none.
LEMMA OnceElements ==
  ASSUME NEW ids, IsSeq(ids)
  PROVE  IsSeq(Once(ids)) /\ ToSet(Once(ids)) = ToSet(ids)
<1> DEFINE N == Len(ids)
           S == ToSet(ids)
           Fits(g) == g = [n \in 0 .. N |->
                             IF n = 0 THEN <<>>
                             ELSE IF ids[n] \in ToSet(g[n - 1]) THEN g[n - 1] ELSE Append(g[n - 1], ids[n])]
           step == [n \in Nat |-> [s \in Seq(S) |-> IF ids[n] \in ToSet(s) THEN s ELSE Append(s, ids[n])]]
<1>1. N \in Nat /\ DOMAIN ids = 1 .. N /\ \A n \in 1 .. N : ids[n] \in S
  BY SeqDomain DEF ToSet
<1>2. \E g : Fits(g)
  <2>1. PICK it : Recursive(step, <<>>, it, 0 .. N)
    BY <1>1, RecursiveBelow
  <2> DEFINE Upto == {m \in Nat : m <= N => it[m] \in Seq(S)}
  <2>2. \A m \in 0 .. N : it[m] = IF m = 0 THEN <<>> ELSE step[m][it[m - 1]]
    BY <2>1 DEF Recursive
  <2> HIDE DEF S
  <2>3. 0 \in Upto
    <3>1. 0 \in 0 .. N
      BY <1>1
    <3>2. it[0] = <<>>
      BY <2>2, <3>1
    <3>3. <<>> \in Seq(S)
      OBVIOUS
    <3> QED
      BY <3>2, <3>3
  <2>4. ASSUME NEW m \in Nat, m \in Upto PROVE m + 1 \in Upto
    <3> SUFFICES ASSUME m + 1 <= N PROVE it[m + 1] \in Seq(S)
      OBVIOUS
    <3>1. it[m] \in Seq(S) /\ m + 1 \in 0 .. N /\ m + 1 # 0 /\ (m + 1) - 1 = m /\ ids[m + 1] \in S
      BY <1>1, <2>4
    <3>2. it[m + 1] = step[m + 1][it[m]]
      BY <2>2, <3>1
    <3>3. step[m + 1][it[m]] = IF ids[m + 1] \in ToSet(it[m]) THEN it[m] ELSE Append(it[m], ids[m + 1])
      BY <3>1
    <3> QED
      BY <3>1, <3>2, <3>3
  <2>5. Nat \subseteq Upto
    <3> HIDE DEF Upto
    <3> QED
      BY <2>3, <2>4, SetInduction
  <2>6. \A n \in 0 .. N : n # 0 => n \in Nat /\ it[n - 1] \in Seq(S)
    BY <1>1, <2>5
  <2>7. \A n \in 0 .. N : n # 0 =>
          step[n][it[n - 1]] = IF ids[n] \in ToSet(it[n - 1]) THEN it[n - 1] ELSE Append(it[n - 1], ids[n])
    BY <2>6
  <2>8. it = [n \in 0 .. N |-> IF n = 0 THEN <<>> ELSE step[n][it[n - 1]]]
    BY <2>1 DEF Recursive
  <2> HIDE DEF step
  <2>9. Fits(it)
    BY <2>7, <2>8
  <2> QED
    BY <2>9
<1> DEFINE once == CHOOSE g : Fits(g)
<1>3. Fits(once)
  BY <1>2
<1>4. Once(ids) = once[N]
  BY DEF Once
<1> HIDE DEF once, step, S
<1>5. \A n \in 0 .. N : once[n] = IF n = 0 THEN <<>>
                                  ELSE IF ids[n] \in ToSet(once[n - 1]) THEN once[n - 1]
                                       ELSE Append(once[n - 1], ids[n])
  BY <1>3
<1> HIDE DEF Fits
<1> DEFINE Upto == {m \in Nat : m <= N => IsSeq(once[m]) /\ ToSet(once[m]) = {ids[n] : n \in 1 .. m}}
<1>6. 0 \in Upto
  <2>1. once[0] = <<>>
    BY <1>1, <1>5
  <2> QED
    BY <2>1, EmptyIsSeq DEF ToSet
<1>7. ASSUME NEW m \in Nat, m \in Upto PROVE m + 1 \in Upto
  <2> SUFFICES ASSUME m + 1 <= N
               PROVE  IsSeq(once[m + 1]) /\ ToSet(once[m + 1]) = {ids[n] : n \in 1 .. m + 1}
    OBVIOUS
  <2>1. /\ IsSeq(once[m]) /\ ToSet(once[m]) = {ids[n] : n \in 1 .. m}
        /\ m + 1 \in 0 .. N /\ m + 1 # 0 /\ (m + 1) - 1 = m
    BY <1>1, <1>7
  <2>2. once[m + 1] = IF ids[m + 1] \in ToSet(once[m]) THEN once[m] ELSE Append(once[m], ids[m + 1])
    BY <1>5, <2>1
  <2>3. {ids[n] : n \in 1 .. m + 1} = {ids[n] : n \in 1 .. m} \cup {ids[m + 1]}
    <3>1. 1 .. m + 1 = (1 .. m) \cup {m + 1}
      OBVIOUS
    <3> QED
      BY <3>1
  <2>4. CASE ids[m + 1] \in ToSet(once[m])
    BY <2>1, <2>2, <2>3, <2>4
  <2>5. CASE ids[m + 1] \notin ToSet(once[m])
    <3>1. /\ IsSeq(Append(once[m], ids[m + 1]))
          /\ once[m] \o <<ids[m + 1]>> = Append(once[m], ids[m + 1])
      BY <2>1, AppendSeq
    <3>2. <<ids[m + 1]>> \in Seq({ids[m + 1]}) /\ ToSet(<<ids[m + 1]>>) = {ids[m + 1]}
      BY DEF ToSet
    <3>3. ToSet(Append(once[m], ids[m + 1])) = ToSet(once[m]) \cup {ids[m + 1]}
      BY <2>1, <3>1, <3>2, ConcatElements DEF IsSeq
    <3> QED
      BY <2>1, <2>2, <2>3, <2>5, <3>1, <3>3
  <2> QED
    BY <2>4, <2>5
<1>8. Nat \subseteq Upto
  <2> HIDE DEF Upto
  <2> QED
    BY <1>6, <1>7, SetInduction
<1>9. IsSeq(once[N]) /\ ToSet(once[N]) = {ids[n] : n \in 1 .. N}
  BY <1>1, <1>8
<1> QED
  BY <1>1, <1>4, <1>9 DEF ToSet

LEMMA JustElements == \A cond, id : IsSeq(Just(cond, id)) /\ ToSet(Just(cond, id)) = IF cond THEN {id} ELSE {}
<1> SUFFICES ASSUME NEW cond, NEW id
             PROVE  IsSeq(Just(cond, id)) /\ ToSet(Just(cond, id)) = IF cond THEN {id} ELSE {}
  OBVIOUS
<1>1. <<id>> \in Seq({id}) /\ ToSet(<<id>>) = {id}
  BY DEF ToSet
<1>2. IsSeq(<<>>) /\ ToSet(<<>>) = {}
  BY EmptyIsSeq DEF ToSet
<1> QED
  BY <1>1, <1>2 DEF Just, IsSeq

LEMMA MembersElements ==
  ASSUME NEW list, IsSeq(list), NEW g
  PROVE  /\ IsSeq(GroupMembers(list, g))
         /\ \A k \in DOMAIN list :
              g \in ToSet(list[k].consistency_group) => list[k].id \in ToSet(GroupMembers(list, g))
<1> DEFINE each == [k \in DOMAIN list |-> Just(g \in ToSet(list[k].consistency_group), list[k].id)]
<1>1. GroupMembers(list, g) = FlattenSeq(each)
  BY DEF GroupMembers, InTurn
<1>2. IsSeq(each) /\ DOMAIN each = DOMAIN list /\ \A k \in DOMAIN each : IsSeq(each[k])
  BY MapIsSeq, JustElements
<1>3. \A k \in DOMAIN list : g \in ToSet(list[k].consistency_group) => list[k].id \in ToSet(each[k])
  BY JustElements
<1> HIDE DEF each
<1>4. IsSeq(FlattenSeq(each)) /\ ToSet(FlattenSeq(each)) = UNION {ToSet(each[k]) : k \in DOMAIN each}
  BY <1>2, FlattenElements
<1> QED
  BY <1>1, <1>2, <1>3, <1>4

LEMMA ImpliedElements ==
  ASSUME NEW list, WellFormedList(list), NEW t, WellFormed(t)
  PROVE  /\ IsSeq(Implied(list, t))
         /\ \A c \in ToSet(t.consumes_contracts) :
              c # t.id /\ c \in Ids(list) => c \in ToSet(Implied(list, t))
         /\ \A k \in DOMAIN list :
              list[k].id # t.id /\ Shares(list[k], t) => list[k].id \in ToSet(Implied(list, t))
<1> DEFINE groups == [n \in DOMAIN t.reconcile_after |-> GroupMembers(list, t.reconcile_after[n])]
           members == FlattenSeq(groups)
           ids == t.consumes_contracts \o members
           known == [n \in DOMAIN ids |-> Just(ids[n] # t.id /\ ids[n] \in Ids(list), ids[n])]
<1>1. IsSeq(t.consumes_contracts) /\ IsSeq(t.reconcile_after) /\ IsSeq(list)
  BY WellFormedFields DEF Listed, WellFormedList
<1>2. IsSeq(groups) /\ DOMAIN groups = DOMAIN t.reconcile_after /\ \A n \in DOMAIN groups : IsSeq(groups[n])
  BY <1>1, MapIsSeq, MembersElements
<1>3. \A n \in DOMAIN t.reconcile_after : \A k \in DOMAIN list :
        t.reconcile_after[n] \in ToSet(list[k].consistency_group) => list[k].id \in ToSet(groups[n])
  BY <1>1, MembersElements
<1>4. Implied(list, t) = FlattenSeq(known)
  BY DEF Implied, InTurn
<1> HIDE DEF groups
<1>5. IsSeq(members) /\ ToSet(members) = UNION {ToSet(groups[n]) : n \in DOMAIN groups}
  BY <1>2, FlattenElements
<1>6. \A k \in DOMAIN list : Shares(list[k], t) => list[k].id \in ToSet(members)
  <2> SUFFICES ASSUME NEW k \in DOMAIN list, Shares(list[k], t) PROVE list[k].id \in ToSet(members)
    OBVIOUS
  <2>1. PICK n \in DOMAIN t.reconcile_after : t.reconcile_after[n] \in ToSet(list[k].consistency_group)
    BY DEF Shares, ToSet
  <2>2. list[k].id \in ToSet(groups[n])
    BY <1>3, <2>1
  <2> QED
    BY <1>2, <1>5, <2>1, <2>2
<1> HIDE DEF members
<1>7. IsSeq(ids) /\ ToSet(ids) = ToSet(t.consumes_contracts) \cup ToSet(members)
  BY <1>1, <1>5, ConcatSeq, ConcatElements
<1> HIDE DEF ids
<1>8. IsSeq(known) /\ DOMAIN known = DOMAIN ids /\ \A n \in DOMAIN known : IsSeq(known[n])
  BY <1>7, MapIsSeq, JustElements
<1>9. \A n \in DOMAIN ids : ids[n] # t.id /\ ids[n] \in Ids(list) => ids[n] \in ToSet(known[n])
  BY JustElements
<1> HIDE DEF known
<1>10. IsSeq(FlattenSeq(known)) /\ ToSet(FlattenSeq(known)) = UNION {ToSet(known[n]) : n \in DOMAIN known}
  BY <1>8, FlattenElements
<1>11. \A id \in ToSet(ids) : id # t.id /\ id \in Ids(list) => id \in ToSet(Implied(list, t))
  <2> SUFFICES ASSUME NEW id \in ToSet(ids), id # t.id, id \in Ids(list)
               PROVE  id \in ToSet(Implied(list, t))
    OBVIOUS
  <2>1. PICK n \in DOMAIN ids : id = ids[n]
    BY DEF ToSet
  <2>2. id \in ToSet(known[n])
    BY <1>9, <2>1
  <2> QED
    BY <1>4, <1>8, <1>10, <2>1, <2>2
<1>12. \A k \in DOMAIN list : list[k].id \in Ids(list)
  BY DEF Ids, ToSet
<1> QED
  BY <1>4, <1>6, <1>7, <1>10, <1>11, <1>12

\* The dependencies that contracts and groups imply are there.
LEMMA ResolvedWellFormed ==
  ASSUME NEW list, WellFormedList(list), \A i \in DOMAIN list : Parsed(list[i]),
         NEW new, new = ResolveDependencies(list)
  PROVE  WellFormedList(new) /\ Resolved(new) /\ \A i \in DOMAIN new : Parsed(new[i])
<1>1. IsSeq(new) /\ DOMAIN new = DOMAIN list
  BY MapIsSeq DEF ResolveDependencies, WellFormedList
<1>2. ASSUME NEW i \in DOMAIN list
      PROVE  /\ DOMAIN new[i] = DOMAIN list[i]
             /\ \A k \in DOMAIN list[i] : k # "depends_on" => new[i][k] = list[i][k]
             /\ IsSeq(new[i].depends_on) /\ ToSet(Implied(list, list[i])) \subseteq ToSet(new[i].depends_on)
  <2> DEFINE ids == list[i].depends_on \o Implied(list, list[i])
  <2>1. WellFormed(list[i])
    BY DEF WellFormedList
  <2>2. IsSeq(list[i].depends_on) /\ IsSeq(Implied(list, list[i])) /\ Names \subseteq DOMAIN list[i]
    BY <2>1, ImpliedElements, WellFormedFields DEF Listed
  <2>3. new[i] = [list[i] EXCEPT !.depends_on = Once(ids)]
    BY DEF ResolveDependencies
  <2>4. IsSeq(ids) /\ ToSet(ids) = ToSet(list[i].depends_on) \cup ToSet(Implied(list, list[i]))
    BY <2>2, ConcatSeq, ConcatElements
  <2> HIDE DEF ids
  <2>5. IsSeq(Once(ids)) /\ ToSet(Once(ids)) = ToSet(ids)
    BY <2>4, OnceElements
  <2>6. "depends_on" \in DOMAIN list[i]
    BY <2>2 DEF Names
  <2> QED
    BY <2>3, <2>4, <2>5, <2>6
<1>3. \A i \in DOMAIN list : WellFormed(list[i]) /\ Names \subseteq DOMAIN list[i]
  BY WellFormedFields DEF WellFormedList
<1>4. \A i \in DOMAIN list : /\ new[i].id = list[i].id /\ new[i].max_retries = list[i].max_retries
                             /\ new[i].judge = list[i].judge
                             /\ new[i].consumes_contracts = list[i].consumes_contracts
                             /\ new[i].consistency_group = list[i].consistency_group
                             /\ new[i].reconcile_after = list[i].reconcile_after
  BY <1>2, <1>3 DEF Names
<1>5. ASSUME NEW i \in DOMAIN list PROVE WellFormed(new[i]) /\ Parsed(new[i])
  <2>1. GoodValue("depends_on", new[i].depends_on)
    BY <1>2 DEF GoodValue
  <2>2. \A k \in DOMAIN TaskSpec : new[i][k] = list[i][k] \/ GoodValue(k, new[i][k])
    BY <1>2, <1>3, <2>1 DEF WellFormed
  <2> QED
    BY <1>2, <1>3, <1>4, <2>2, ReplacedWellFormed DEF Parsed
<1>6. Ids(new) = Ids(list)
  BY <1>1, <1>4 DEF Ids, ToSet
<1>7. Resolved(new)
  <2> SUFFICES ASSUME NEW i \in DOMAIN list
               PROVE  /\ \A c \in ToSet(new[i].consumes_contracts) :
                           c # new[i].id /\ c \in Ids(new) => Depends(new[i], c)
                      /\ \A k \in DOMAIN list :
                           new[k].id # new[i].id /\ Shares(new[k], new[i]) => Depends(new[i], new[k].id)
    BY <1>1 DEF Resolved
  <2>1. \A c \in ToSet(list[i].consumes_contracts) :
          c # list[i].id /\ c \in Ids(list) => c \in ToSet(Implied(list, list[i]))
    BY <1>3, ImpliedElements
  <2>2. \A k \in DOMAIN list :
          list[k].id # list[i].id /\ Shares(list[k], list[i]) => list[k].id \in ToSet(Implied(list, list[i]))
    BY <1>3, ImpliedElements
  <2>3. \A k \in DOMAIN list : Shares(new[k], new[i]) <=> Shares(list[k], list[i])
    BY <1>4 DEF Shares
  <2> QED
    BY <1>2, <1>4, <1>6, <2>1, <2>2, <2>3 DEF Depends
<1> QED
  BY <1>1, <1>5, <1>7 DEF WellFormedList

-----------------------------------------------------------------------------
(* What nothing is refused of.                                             *)

LEMMA BothEmpty == \A s, t : Harmless(s) /\ Harmless(t) /\ s \o t = <<>> => s = <<>> /\ t = <<>>
<1> SUFFICES ASSUME NEW s, NEW t, Harmless(s), Harmless(t), s \o t = <<>> PROVE s = <<>> /\ t = <<>>
  OBVIOUS
<1>1. IsSeq(s) /\ IsSeq(t)
  BY DEF Harmless
<1>2. Len(s) \in Nat /\ Len(t) \in Nat /\ Len(s) + Len(t) = 0
  BY <1>1, SeqDomain, ConcatSeq, EmptyIsSeq
<1>3. Len(s) = 0 /\ Len(t) = 0
  BY <1>2
<1> QED
  BY <1>1, <1>3, EmptyDomain

LEMMA PlanHarmless ==
  ASSUME NEW p, IsSeq(p.tasks)
  PROVE  /\ Harmless(PlanRefusals(p)) /\ Harmless(AfterSearch(p))
         /\ PlanRefusals(p) = <<>> =>
              /\ HeaderRules(p) = <<>> /\ PlanWideRules(p) = <<>>
              /\ \A i \in DOMAIN p.tasks : TaskRules(p, p.tasks[i]) = <<>>
         /\ AfterSearch(p) = <<>> =>
              /\ WatchRules(p) = <<>>
              /\ \A i \in DOMAIN p.tasks : WorktreeRules(p, p.tasks[i]) = <<>>
<1> DEFINE tools == [i \in DOMAIN p.tasks |-> ToolRules(p, p.tasks[i])]
           rules == [i \in DOMAIN p.tasks |-> TaskRules(p, p.tasks[i])]
           trees == [i \in DOMAIN p.tasks |-> WorktreeRules(p, p.tasks[i])]
<1>1. Harmless(HeaderRules(p))
  BY RefuseHarmless, BothHarmless DEF HeaderRules
<1>2. Harmless(DefaultsRules(p))
  BY RefuseHarmless, BothHarmless DEF DefaultsRules
<1>3. Harmless(PlanWideRules(p)) /\ \A t : Harmless(ToolRules(p, t))
  BY RefuseHarmless, BothHarmless DEF PlanWideRules, ToolRules
<1>4. \A i \in DOMAIN p.tasks : Harmless(tools[i]) /\ Harmless(rules[i])
  BY <1>3, RulesHarmless
<1>5. Harmless(WatchRules(p))
  BY RefuseHarmless, BothHarmless, NoneHarmless DEF WatchRules
<1>6. Harmless(PolicyRules(p.policies))
  BY RefuseHarmless, BothHarmless DEF PolicyRules
<1>7. \A t : Harmless(WorktreeRules(p, t))
  BY RefuseHarmless, BothHarmless, NoneHarmless DEF WorktreeRules
<1>8. \A i \in DOMAIN p.tasks : Harmless(trees[i])
  BY <1>7
<1>9. /\ PlanRefusals(p) = HeaderRules(p) \o FlattenSeq(tools) \o DefaultsRules(p)
                           \o PlanWideRules(p) \o FlattenSeq(rules)
      /\ AfterSearch(p) = WatchRules(p) \o FlattenSeq(trees) \o PolicyRules(p.policies)
  BY DEF PlanRefusals, AfterSearch, InTurn
<1>10. /\ tools = [i \in DOMAIN p.tasks |-> tools[i]]
       /\ rules = [i \in DOMAIN p.tasks |-> rules[i]]
       /\ trees = [i \in DOMAIN p.tasks |-> trees[i]]
  OBVIOUS
<1>11. \A i \in DOMAIN p.tasks : /\ rules[i] = TaskRules(p, p.tasks[i])
                                 /\ trees[i] = WorktreeRules(p, p.tasks[i])
  OBVIOUS
<1> HIDE DEF tools, rules, trees
<1>12. Harmless(FlattenSeq(tools)) /\ Harmless(FlattenSeq(rules)) /\ Harmless(FlattenSeq(trees))
  BY <1>4, <1>8, <1>10, EachHarmless
<1>13. Harmless(PlanRefusals(p)) /\ Harmless(AfterSearch(p))
  BY <1>1, <1>2, <1>3, <1>5, <1>6, <1>9, <1>12, BothHarmless
<1>14. ASSUME PlanRefusals(p) = <<>>
       PROVE  HeaderRules(p) = <<>> /\ PlanWideRules(p) = <<>> /\ FlattenSeq(rules) = <<>>
  <2>1. HeaderRules(p) \o FlattenSeq(tools) \o DefaultsRules(p) \o PlanWideRules(p) \o FlattenSeq(rules) = <<>>
    BY <1>9, <1>14
  <2> QED
    BY <1>1, <1>2, <1>3, <1>12, <2>1, BothHarmless, BothEmpty
<1>15. ASSUME AfterSearch(p) = <<>>
       PROVE  WatchRules(p) = <<>> /\ FlattenSeq(trees) = <<>>
  <2>1. WatchRules(p) \o FlattenSeq(trees) \o PolicyRules(p.policies) = <<>>
    BY <1>9, <1>15
  <2> QED
    BY <1>5, <1>6, <1>12, <2>1, BothHarmless, BothEmpty
<1>16. FlattenSeq(rules) = <<>> => \A i \in DOMAIN p.tasks : rules[i] = <<>>
  BY <1>4, <1>10, EachEmpty
<1>17. FlattenSeq(trees) = <<>> => \A i \in DOMAIN p.tasks : trees[i] = <<>>
  BY <1>8, <1>10, EachEmpty
<1> QED
  BY <1>11, <1>13, <1>14, <1>15, <1>16, <1>17

LEMMA RefuseEmpty == \A bad, code : Refuse(bad, code) = <<>> => ~bad
BY EmptyIsSeq DEF Refuse

\* What is said of a plan when its header and its names pass.
LEMMA HeaderPasses ==
  ASSUME NEW p, HeaderRules(p) = <<>>
  PROVE  Count(p.max_parallel) >= 1
<1> DEFINE first == Refuse(p.version \notin {"none", "number"}, "E002") \o Refuse(p.name = "odd", "E017")
           workers == Refuse(BelowOne(p.max_parallel), "E012")
           lines == Refuse(BelowOne(p.defaults.stdout_tail_lines), "E012")
           warning == Refuse(p.budget_warning_pct \notin {"none", "number"}, "E023")
           period == Refuse(NotOneOf(p.budget_period), "E014")
           routing == Refuse(NotOneOf(p.routing_strategy), "E053")
<1>1. /\ Harmless(first) /\ Harmless(workers) /\ Harmless(lines) /\ Harmless(warning)
      /\ Harmless(period) /\ Harmless(routing)
  BY RefuseHarmless, BothHarmless
<1>2. first \o workers \o lines \o warning \o period \o routing = <<>>
  BY DEF HeaderRules
<1> HIDE DEF first, workers, lines, warning, period, routing
<1>3. workers = <<>>
  BY <1>1, <1>2, BothHarmless, BothEmpty
<1>4. ~BelowOne(p.max_parallel)
  BY <1>3, RefuseEmpty DEF workers
<1> QED
  BY <1>4 DEF BelowOne, Count

LEMMA NamesPass ==
  ASSUME NEW p, PlanWideRules(p) = <<>>
  PROVE  \A i, k \in DOMAIN p.tasks : i # k => p.tasks[i].id # p.tasks[k].id
<1> DEFINE ids == [i \in DOMAIN p.tasks |-> p.tasks[i].id]
           twice == Refuse(~IsInjective(ids), "E003")
           pack == Refuse(p.audit_pack = "missing", "E018")
<1>1. Harmless(twice) /\ Harmless(pack)
  BY RefuseHarmless
<1>2. twice \o pack = <<>>
  BY DEF PlanWideRules
<1> HIDE DEF twice, pack
<1>3. twice = <<>>
  BY <1>1, <1>2, BothEmpty
<1>4. IsInjective(ids)
  BY <1>3, RefuseEmpty DEF twice
<1> QED
  BY <1>4 DEF IsInjective

LEMMA TypesPass ==
  ASSUME NEW p, NEW t, TypeRules(p, t) = <<>>
  PROVE  ToSet(t.depends_on) \subseteq Ids(p.tasks) /\ Cardinality(Types(t)) = 1
<1> DEFINE name == Refuse(t.id.base = "odd", "E017")
           unknown == Refuse(~(ToSet(t.depends_on) \subseteq Ids(p.tasks)), "E005")
           none == Refuse(Types(t) = {}, "E001")
           several == Refuse(Cardinality(Types(t)) > 1, "E011")
           group == Refuse(Present(t.group) /\ (\/ HasPrompt(t) \/ ~Falsy(t.assert)
                                                \/ Present(t.contract_type)), "E011")
<1>1. Harmless(name) /\ Harmless(unknown) /\ Harmless(none) /\ Harmless(several) /\ Harmless(group)
  BY RefuseHarmless
<1>2. name \o unknown \o none \o several \o group = <<>>
  BY DEF TypeRules
<1> HIDE DEF name, unknown, none, several, group
<1>3. unknown = <<>> /\ none = <<>> /\ several = <<>>
  BY <1>1, <1>2, BothHarmless, BothEmpty
<1>4. ToSet(t.depends_on) \subseteq Ids(p.tasks) /\ Types(t) # {} /\ ~(Cardinality(Types(t)) > 1)
  BY <1>3, RefuseEmpty DEF unknown, none, several
<1>5. IsFiniteSet(Types(t))
  <2>1. IsFiniteSet({"command", "engine", "group"})
    <3>1. IsFiniteSet({"command"})
      BY FS_Singleton
    <3>2. IsFiniteSet({"command"} \cup {"engine"})
      BY <3>1, FS_AddElement
    <3>3. IsFiniteSet({"command"} \cup {"engine"} \cup {"group"})
      BY <3>2, FS_AddElement
    <3>4. {"command", "engine", "group"} = {"command"} \cup {"engine"} \cup {"group"}
      OBVIOUS
    <3> QED
      BY <3>3, <3>4
  <2> QED
    BY <2>1, FS_Subset DEF Types
<1>6. Cardinality(Types(t)) \in Nat /\ Cardinality(Types(t)) # 0
  BY <1>4, <1>5, FS_CardinalityType, FS_EmptySet
<1> QED
  BY <1>4, <1>6

LEMMA ContractsPass ==
  ASSUME NEW p, NEW t, ContractRules(p, t) = <<>>
  PROVE  \A id \in ToSet(t.consumes_contracts) : id \in Ids(p.tasks) /\ id # t.id
BY RefuseHarmless, BothHarmless, BothEmpty, RefuseEmpty DEF ContractRules

LEMMA ContextsPass ==
  ASSUME NEW p, NEW t, ContextRules(p, t) = <<>>, WhenRules(p, t) = <<>>
  PROVE  /\ \A c \in ToSet(t.context_from) \ {Everyone} : Depends(t, c)
         /\ \A r \in t.when : Plain(r) => Depends(t, r)
<1> DEFINE self == Refuse(t.id \in ToSet(t.depends_on), "E016")
           unread == Refuse(\E c \in ToSet(t.context_from) \ {Everyone} :
                               c \notin Ids(p.tasks) \cap ToSet(t.depends_on), "E010")
<1>1. \A c \in ToSet(t.context_from) \ {Everyone} : c \in ToSet(t.depends_on)
  <2>1. Harmless(self) /\ Harmless(unread)
    BY RefuseHarmless
  <2>2. self \o unread = <<>>
    BY DEF ContextRules
  <2> HIDE DEF self, unread
  <2>3. unread = <<>>
    BY <2>1, <2>2, BothEmpty
  <2> QED
    BY <2>3, RefuseEmpty DEF unread
<1>2. \A r \in t.when : Plain(r) => r \in ToSet(t.depends_on)
  BY RefuseEmpty DEF WhenRules
<1> QED
  BY <1>1, <1>2 DEF Depends

LEMMA ResiliencePasses ==
  ASSUME NEW t, ResilienceRules(t) = <<>>
  PROVE  t.max_retries \notin {"minus", "huge"} /\ (t.fallback_engine # "none" => t.engine # "none")
<1> DEFINE retries == Refuse(t.max_retries \in {"minus", "huge"}, "E012")
           escalation == Refuse(~NoEntries(t.escalation) /\ (\/ ~Present(t.engine)
                                                             \/ t.escalation = "blank"), "E031")
           engine == Refuse(Present(t.fallback_engine)
                            /\ (\/ ~Present(t.engine)
                                \/ t.fallback_engine \notin ToSet(EngineNames)), "E030")
           model == Refuse(Present(t.fallback_model) /\ ~Present(t.fallback_engine), "E030")
<1>1. Harmless(retries) /\ Harmless(escalation) /\ Harmless(engine) /\ Harmless(model)
  BY RefuseHarmless
<1>2. retries \o escalation \o engine \o model = <<>>
  BY DEF ResilienceRules
<1> HIDE DEF retries, escalation, engine, model
<1>3. retries = <<>> /\ engine = <<>>
  BY <1>1, <1>2, BothHarmless, BothEmpty
<1>4. /\ ~(t.max_retries \in {"minus", "huge"})
      /\ ~(Present(t.fallback_engine) /\ (\/ ~Present(t.engine)
                                          \/ t.fallback_engine \notin ToSet(EngineNames)))
  BY <1>3, RefuseEmpty DEF retries, engine
<1> QED
  BY <1>4 DEF Present

LEMMA RulesPass ==
  ASSUME NEW p, NEW t, TaskRules(p, t) = <<>>
  PROVE  /\ TypeRules(p, t) = <<>> /\ ContractRules(p, t) = <<>> /\ ContextRules(p, t) = <<>>
         /\ ResilienceRules(t) = <<>> /\ WhenRules(p, t) = <<>>
<1>1. /\ Harmless(TypeRules(p, t)) /\ Harmless(BatchRules(t)) /\ Harmless(DynamicRules(t))
      /\ Harmless(ContractRules(p, t)) /\ Harmless(EngineRules(t)) /\ Harmless(ContextRules(p, t))
      /\ Harmless(ResilienceRules(t)) /\ Harmless(AllowedToolsRules(t)) /\ Harmless(LimitRules(t))
      /\ Harmless(JudgeRules(t)) /\ Harmless(ModeRules(p, t)) /\ Harmless(WhenRules(p, t))
  BY EachRuleHarmless
<1>2. TypeRules(p, t) \o BatchRules(t) \o DynamicRules(t) \o ContractRules(p, t)
        \o EngineRules(t) \o ContextRules(p, t) \o ResilienceRules(t)
        \o AllowedToolsRules(t) \o LimitRules(t) \o JudgeRules(t) \o ModeRules(p, t)
        \o WhenRules(p, t) = <<>>
  BY DEF TaskRules
<1> QED
  BY <1>1, <1>2, BothHarmless, BothEmpty

LEMMA BreakerPasses == \A b : BreakerRefusals(b) = <<>> => BreakerCounts(b)
<1> SUFFICES ASSUME NEW b, BreakerRefusals(b) = <<>>, b.self # "none"
             PROVE  Count(b.max_total_failures) >= 1
  BY DEF BreakerCounts
<1> DEFINE object == Refuse(NotObject(b.self), "E050")
           total == Refuse(NotNumeric(b.max_total_failures) \/ BelowOne(b.max_total_failures), "E050")
           action == Refuse(NotOneOf(b.action), "E050")
<1>1. Harmless(object) /\ Harmless(total) /\ Harmless(action)
  BY RefuseHarmless
<1>2. object \o total \o action = <<>>
  BY DEF BreakerRefusals
<1> HIDE DEF object, total, action
<1>3. total = <<>>
  BY <1>1, <1>2, BothHarmless, BothEmpty
<1>4. ~BelowOne(b.max_total_failures)
  BY <1>3, RefuseEmpty DEF total
<1> QED
  BY <1>4 DEF BelowOne, Count

LEMMA QuorumPasses ==
  ASSUME NEW j, JudgeQuorum(j) = <<>>, j.quorum_strategy # "none"
  PROVE  Count(j.quorum) >= 2
<1> DEFINE size == Refuse(NotNumeric(j.quorum) \/ BelowTwo(j.quorum), "E054")
           strategy == Refuse(NotOneOf(j.quorum_strategy), "E055")
           lone == Refuse(j.quorum_strategy # "none" /\ j.quorum = "none", "E056")
<1>1. Harmless(size) /\ Harmless(strategy) /\ Harmless(lone)
  BY RefuseHarmless
<1>2. size \o strategy \o lone = <<>>
  BY DEF JudgeQuorum
<1> HIDE DEF size, strategy, lone
<1>3. size = <<>> /\ lone = <<>>
  BY <1>1, <1>2, BothHarmless, BothEmpty
<1>4. ~(NotNumeric(j.quorum) \/ BelowTwo(j.quorum)) /\ j.quorum # "none"
  BY <1>3, RefuseEmpty DEF size, lone
<1> QED
  BY <1>4 DEF NotNumeric, BelowTwo, Count

LEMMA FieldsPass ==
  ASSUME NEW t, NEW default, TaskRefusals(t, default) = <<>>
  PROVE  Parsed(t)
<1> DEFINE before == Refuse(t.self # "map", "E018") \o Refuse(t.id.base = "blank", "E001")
<1>1. Harmless(before)
  BY RefuseHarmless, BothHarmless
<1>2. before \o ConstructorRefusals(t, default) \o AttributeRefusals(t) \o CommandRefusals(t) = <<>>
  BY DEF TaskRefusals
<1> HIDE DEF before
<1>3. ConstructorRefusals(t, default) = <<>>
  BY <1>1, <1>2, PartsHarmless, BothHarmless, BothEmpty
<1>4. /\ Harmless(ToStrList(t.edges)) /\ Harmless(ToStrList(t.args)) /\ Harmless(ToStrDict(t.env))
      /\ Harmless(ToIntOrNone(t.timeout_sec)) /\ Harmless(BareInt(t.max_retries))
      /\ Harmless(ToDelay(t.retry_delay_sec)) /\ Harmless(ToAssertions(t.assert))
      /\ Harmless(ToContractType(t.contract_type)) /\ Harmless(ToIntOrNone(t.max_iterations))
      /\ Harmless(ToStrList(t.escalation)) /\ Harmless(ToContextBudget(t.context_budget_tokens))
      /\ Harmless(ToIntOrNone(t.stdout_tail_lines)) /\ Harmless(ToIntOrNone(t.negative_cache_ttl_sec))
      /\ Harmless(ToMatrix(t.matrix)) /\ Harmless(ToBatch(t.batch)) /\ Harmless(ToJudge(t.judge))
      /\ Harmless(ToStrList(t.tags)) /\ Harmless(ParseRetryStrategy(t.retry_strategy, default))
  BY ParsersHarmless, BlocksHarmless, JudgeHarmless
<1>5. ToStrList(t.edges) \o ToStrList(t.args) \o ToStrDict(t.env)
        \o ToIntOrNone(t.timeout_sec) \o BareInt(t.max_retries)
        \o ToDelay(t.retry_delay_sec) \o ToAssertions(t.assert)
        \o ToContractType(t.contract_type) \o ToIntOrNone(t.max_iterations)
        \o ToStrList(t.escalation) \o ToContextBudget(t.context_budget_tokens)
        \o ToIntOrNone(t.stdout_tail_lines) \o ToIntOrNone(t.negative_cache_ttl_sec)
        \o ToMatrix(t.matrix) \o ToBatch(t.batch) \o ToJudge(t.judge)
        \o ToStrList(t.tags) \o ParseRetryStrategy(t.retry_strategy, default) = <<>>
  BY <1>3 DEF ConstructorRefusals
<1>6. BareInt(t.max_retries) = <<>> /\ ToJudge(t.judge) = <<>>
  BY <1>4, <1>5, BothHarmless, BothEmpty
<1>7. t.max_retries \in Numbers \cup {"none"}
  BY <1>6, RefuseEmpty DEF BareInt, NotNumeric
<1>8. t.judge.self # "none" /\ t.judge.quorum_strategy # "none" => Count(t.judge.quorum) >= 2
  <2> SUFFICES ASSUME t.judge.self # "none", t.judge.quorum_strategy # "none"
               PROVE  Count(t.judge.quorum) >= 2
    OBVIOUS
  <2>1. JudgeCriteria(t.judge) \o JudgeScale(t.judge) \o JudgeQuorum(t.judge)
          \o ParseDebateRounds(t.judge) = <<>>
    BY <1>6 DEF ToJudge
  <2>2. JudgeQuorum(t.judge) = <<>>
    BY <2>1, JudgePartsHarmless, BothHarmless, BothEmpty
  <2> QED
    BY <2>2, QuorumPasses
<1> QED
  BY <1>7, <1>8 DEF Parsed
LEMMA WatchPasses ==
  ASSUME NEW p, WatchRules(p) = <<>>, p.watch.self # "none"
  PROVE  WarmUp(p.watch) \in 0 .. Count(p.watch.max_iterations) - 1
<1>1. PICK w : w = p.watch
  OBVIOUS
<1> DEFINE direction == Refuse(NotOneOf(w.metric_direction), "E033")
           source == Refuse(Source(w) \notin {"stdout_regex", "verify_command", "guard_command",
                                              "json_field", "manifest"}, "E033")
           pattern == Refuse(Source(w) = "stdout_regex" /\ w.metric_pattern # "word", "E034")
           field == Refuse(Source(w) = "json_field" /\ NoText(w.metric_json_path), "E035")
           most == Refuse(Count(w.max_iterations) < 1, "E036")
           warm == Refuse(WarmUp(w) \notin 0 .. Count(w.max_iterations) - 1, "E037")
           patience == Refuse(BelowOne(w.plateau_threshold), "E038")
           cost == Refuse(BelowOne(w.max_cost_usd), "E039")
           task == Refuse(w.metric_task = "odd", "E040")
           regression == Refuse(NotOneOf(w.on_regression), "E041")
           program == Refuse(w.program_md = "odd", "E042")
           action == Refuse(NotOneOf(w.plateau_action), "E043")
           budget == Refuse(BelowOne(w.iteration_budget_sec), "E044")
           steps == Refuse(BelowOne(w.max_total_steps), "E066")
           place == Refuse(Improves(w) /\ NoText(p.workspace_root), "E047")
<1>2. /\ Harmless(direction) /\ Harmless(source) /\ Harmless(pattern) /\ Harmless(field)
      /\ Harmless(most) /\ Harmless(warm) /\ Harmless(patience) /\ Harmless(cost)
      /\ Harmless(task) /\ Harmless(regression) /\ Harmless(program) /\ Harmless(action)
      /\ Harmless(budget) /\ Harmless(steps) /\ Harmless(place)
  BY RefuseHarmless
<1>3. direction \o source \o pattern \o field \o most \o warm \o patience \o cost \o task
        \o regression \o program \o action \o budget \o steps \o place = <<>>
  BY <1>1 DEF WatchRules
<1> HIDE DEF direction, source, pattern, field, most, warm, patience, cost, task, regression,
             program, action, budget, steps, place
<1>4. warm = <<>>
  BY <1>2, <1>3, BothHarmless, BothEmpty
<1>5. WarmUp(w) \in 0 .. Count(w.max_iterations) - 1
  BY <1>4, RefuseEmpty DEF warm
<1> QED
  BY <1>1, <1>5

LEMMA WorktreePasses ==
  ASSUME NEW p, NEW t, WorktreeRules(p, t) = <<>>, t.worktree
  PROVE  ~NoText(p.workspace_root) /\ NoText(t.group) /\ (Falsy(t.command) \/ Present(t.engine))
<1> DEFINE place == Refuse(NoText(p.workspace_root), "E045")
           engine == Refuse(~NoText(t.group) \/ (~Falsy(t.command) /\ ~Present(t.engine)), "E046")
<1>1. Harmless(place) /\ Harmless(engine)
  BY RefuseHarmless
<1>2. place \o engine = <<>>
  BY DEF WorktreeRules
<1> HIDE DEF place, engine
<1>3. place = <<>> /\ engine = <<>>
  BY <1>1, <1>2, BothEmpty
<1> QED
  BY <1>3, RefuseEmpty DEF place, engine

LEMMA AfterSearchPasses ==
  ASSUME NEW p, IsSeq(p.tasks), AfterSearch(p) = <<>>
  PROVE  Isolated(p)
<1>1. WatchRules(p) = <<>> /\ \A i \in DOMAIN p.tasks : WorktreeRules(p, p.tasks[i]) = <<>>
  BY PlanHarmless
<1>2. p.watch.self # "none" => WarmUp(p.watch) \in 0 .. Count(p.watch.max_iterations) - 1
  BY <1>1, WatchPasses
<1>3. ASSUME NEW i \in DOMAIN p.tasks, p.tasks[i].worktree
      PROVE  /\ ~NoText(p.workspace_root)
             /\ p.tasks[i].engine = "none" => p.tasks[i].group = "blank" \/ Falsy(p.tasks[i].command)
  BY <1>1, <1>3, WorktreePasses DEF Present
<1> QED
  BY <1>2, <1>3 DEF Isolated
-----------------------------------------------------------------------------
(* What the stages before the rules refuse.                                *)

LEMMA DefaultsHarmless == \A r : Harmless(DefaultsRefusals(r))
<1> SUFFICES ASSUME NEW r PROVE Harmless(DefaultsRefusals(r))
  OBVIOUS
<1>1. PICK d : d = r.defaults
  OBVIOUS
<1> DEFINE engines == [i \in DOMAIN EngineNames |-> d.engines[EngineNames[i]]]
           first == [i \in DOMAIN engines |-> EngineRefusals(engines[i])]
           second == [i \in DOMAIN engines |-> ResilienceRefusals(engines[i])]
           before == Refuse(r.secrets \notin {"none", "word"} \cup Lists, "E024")
                  \o Refuse(~Falsy(d.self) /\ d.self # "map", "E018")
                  \o Refuse(NotOneOf(d.retry_strategy), "E051")
                  \o ToStrList(d.secrets)
                  \o Refuse(d.secrets_auto \notin {"none", "flag"}, "E018")
                  \o Refuse(\E e \in ToSet(engines) : ~Falsy(e.self) /\ e.self # "map", "E018")
<1>2. DOMAIN EngineNames = 1 .. 7 /\ EngineNames = [i \in DOMAIN EngineNames |-> EngineNames[i]]
  BY DEF EngineNames
<1>3. IsSeq(EngineNames)
  BY <1>2, DomainIsSeq
<1>4. IsSeq(engines)
  BY <1>3, MapIsSeq
<1>5. Harmless(before)
  BY ParsersHarmless, RefuseHarmless, BothHarmless
<1>6. \A e : Harmless(EngineRefusals(e)) /\ Harmless(ResilienceRefusals(e))
  BY ParsersHarmless, BothHarmless DEF EngineRefusals, ResilienceRefusals
<1>7. /\ first = [i \in DOMAIN engines |-> first[i]] /\ \A i \in DOMAIN engines : Harmless(first[i])
      /\ second = [i \in DOMAIN engines |-> second[i]] /\ \A i \in DOMAIN engines : Harmless(second[i])
  BY <1>6
<1>8. DefaultsRefusals(r) =
         before \o ToStrDict(d.env) \o ToIntOrNone(d.timeout_sec)
         \o BareInt(d.stdout_tail_lines) \o ToDelay(d.retry_delay_sec)
         \o ToPct(d.budget_warning_pct) \o ToContextBudget(d.context_budget_tokens)
         \o ToStrList(d.workspace_index_exclude)
         \o ParseCompaction(d.context_compaction)
         \o FlattenSeq(first) \o FlattenSeq(second) \o ToStrList(r.audit_packs)
  BY <1>1 DEF DefaultsRefusals, InTurn
<1> HIDE DEF before, first, second, engines
<1>9. Harmless(FlattenSeq(first)) /\ Harmless(FlattenSeq(second))
  BY <1>4, <1>7, EachHarmless
<1> QED
  BY <1>5, <1>8, <1>9, ParsersHarmless, BothHarmless

LEMMA ServersHarmless == ASSUME NEW r, IsSeq(r.mcp_servers) PROVE Harmless(SpecRefusals(r))
<1> DEFINE each == [i \in DOMAIN r.mcp_servers |-> ServerRefusals(r.mcp_servers[i])]
           twice == Refuse(\E i, k \in DOMAIN r.mcp_servers :
                              i # k /\ r.mcp_servers[i].name = r.mcp_servers[k].name, "E069")
<1>1. each = [i \in DOMAIN r.mcp_servers |-> each[i]] /\ \A i \in DOMAIN r.mcp_servers : Harmless(each[i])
  BY SpecHarmless
<1>2. SpecRefusals(r) = BareInt(r.max_parallel) \o ToFloat(r.max_cost_usd)
                        \o ToPct(r.budget_warning_pct) \o FlattenSeq(each) \o twice
  BY DEF SpecRefusals, InTurn
<1>3. Harmless(twice)
  BY RefuseHarmless
<1> HIDE DEF each, twice
<1>4. Harmless(FlattenSeq(each))
  BY <1>1, EachHarmless
<1> QED
  BY <1>2, <1>3, <1>4, ParsersHarmless, BothHarmless

LEMMA EnterHarmless == \A imports, depth : Harmless(EnterRefusals(imports, depth))
BY RefuseHarmless, BothHarmless DEF EnterRefusals

LEMMA FragmentHarmless == \A t : Harmless(FragmentRefusals(t))
BY RefuseHarmless, BothHarmless DEF FragmentRefusals

LEMMA SpecifyPasses ==
  ASSUME NEW r, IsSeq(r.mcp_servers)
  PROVE  LET refusals == WatchRefusals(r.watch) \o BreakerRefusals(r.circuit_breaker) \o SpecRefusals(r)
         IN Harmless(refusals) /\ (refusals = <<>> => BreakerCounts(r.circuit_breaker))
<1> DEFINE refusals == WatchRefusals(r.watch) \o BreakerRefusals(r.circuit_breaker) \o SpecRefusals(r)
<1>1. /\ Harmless(WatchRefusals(r.watch)) /\ Harmless(BreakerRefusals(r.circuit_breaker))
      /\ Harmless(SpecRefusals(r))
  BY SpecHarmless, ServersHarmless
<1>2. Harmless(refusals)
  BY <1>1, BothHarmless
<1>3. refusals = <<>> => BreakerRefusals(r.circuit_breaker) = <<>>
  BY <1>1, BothHarmless, BothEmpty
<1> QED
  BY <1>2, <1>3, BreakerPasses

\* What Parse refuses of all the tasks, and what holds of them when it does not.
LEMMA ParsePasses ==
  ASSUME NEW r, NEW all, WellFormedList(all), NEW refusals,
         refusals = Refuse(r.shape \notin Lists \cup {"none"}, "E018")
                    \o DefaultsRefusals(r) \o Refuse(all = <<>>, "E001")
                    \o FlattenSeq([i \in DOMAIN all |-> TaskRefusals(all[i], r.defaults.retry_strategy)])
  PROVE  Harmless(refusals) /\ (refusals = <<>> => \A i \in DOMAIN all : Parsed(all[i]))
<1> DEFINE shape == Refuse(r.shape \notin Lists \cup {"none"}, "E018")
           none == Refuse(all = <<>>, "E001")
           each == [i \in DOMAIN all |-> TaskRefusals(all[i], r.defaults.retry_strategy)]
<1>1. each = [i \in DOMAIN all |-> each[i]] /\ \A i \in DOMAIN all : Harmless(each[i])
  BY TaskHarmless
<1>2. \A i \in DOMAIN all : each[i] = <<>> => Parsed(all[i])
  BY FieldsPass
<1>3. Harmless(shape) /\ Harmless(none)
  BY RefuseHarmless
<1>4. refusals = shape \o DefaultsRefusals(r) \o none \o FlattenSeq(each)
  OBVIOUS
<1> HIDE DEF shape, none, each
<1>5. IsSeq(all)
  BY DEF WellFormedList
<1>6. Harmless(FlattenSeq(each))
  BY <1>1, <1>5, EachHarmless
<1>7. Harmless(refusals)
  BY <1>3, <1>4, <1>6, DefaultsHarmless, BothHarmless
<1>8. ASSUME refusals = <<>> PROVE FlattenSeq(each) = <<>>
  <2>1. shape \o DefaultsRefusals(r) \o none \o FlattenSeq(each) = <<>>
    BY <1>4, <1>8
  <2> QED
    BY <1>3, <1>6, <2>1, DefaultsHarmless, BothHarmless, BothEmpty
<1>9. refusals = <<>> => \A i \in DOMAIN all : each[i] = <<>>
  BY <1>1, <1>5, <1>8, EachEmpty
<1> QED
  BY <1>2, <1>7, <1>9
\* What the rules before the search leave of a plan whose tasks are parsed and resolved.
LEMMA RulesMakeGraph ==
  ASSUME NEW p, WellFormedList(p.tasks), Resolved(p.tasks), \A i \in DOMAIN p.tasks : Parsed(p.tasks[i]),
         PlanRefusals(p) = <<>>
  PROVE  /\ Graphlike(p.tasks) /\ \A i \in DOMAIN p.tasks : SaneTask(p.tasks[i])
         /\ Count(p.max_parallel) >= 1
<1>1. /\ HeaderRules(p) = <<>> /\ PlanWideRules(p) = <<>>
      /\ \A i \in DOMAIN p.tasks : TaskRules(p, p.tasks[i]) = <<>>
  BY PlanHarmless DEF WellFormedList
<1>2. \A i, k \in DOMAIN p.tasks : i # k => p.tasks[i].id # p.tasks[k].id
  BY <1>1, NamesPass
<1>3. ASSUME NEW i \in DOMAIN p.tasks PROVE Waits(p.tasks, i) /\ SaneTask(p.tasks[i])
  <2>1. PICK t : t = p.tasks[i]
    OBVIOUS
  <2>2. /\ TypeRules(p, t) = <<>> /\ ContractRules(p, t) = <<>> /\ ContextRules(p, t) = <<>>
        /\ ResilienceRules(t) = <<>> /\ WhenRules(p, t) = <<>>
    BY <1>1, <2>1, RulesPass
  <2>3. ToSet(t.depends_on) \subseteq Ids(p.tasks) /\ Cardinality(Types(t)) = 1
    BY <2>2, TypesPass
  <2>4. /\ \A c \in ToSet(t.context_from) \ {Everyone} : Depends(t, c)
        /\ \A r \in t.when : Plain(r) => Depends(t, r)
    BY <2>2, ContextsPass
  <2>5. t.max_retries \notin {"minus", "huge"} /\ (t.fallback_engine # "none" => t.engine # "none")
    BY <2>2, ResiliencePasses
  <2>6. \A c \in ToSet(t.consumes_contracts) : Depends(t, c)
    BY <2>1, <2>2, ContractsPass DEF Resolved
  <2>7. \A k \in DOMAIN p.tasks : k # i /\ Shares(p.tasks[k], t) => Depends(t, p.tasks[k].id)
    BY <1>2, <2>1 DEF Resolved
  <2>8. SaneTask(t)
    <3>1. Parsed(t)
      BY <2>1
    <3>2. t.max_retries \in {"none", "zero", "tiny", "number", "flag"}
      BY <2>5, <3>1 DEF Parsed, Numbers
    <3> QED
      BY <2>3, <2>5, <3>1, <3>2 DEF Parsed, SaneTask
  <2> QED
    BY <2>1, <2>3, <2>4, <2>6, <2>7, <2>8 DEF Waits
<1> QED
  BY <1>1, <1>2, <1>3, HeaderPasses DEF Graphlike

\* Tasks that agree on what the graph and the runner read.
Alike(u, t) ==
  \A k \in Names \ {"cache"} : u[k] = t[k]

LEMMA AlikeGraph ==
  ASSUME NEW list, NEW new, DOMAIN new = DOMAIN list, \A i \in DOMAIN list : Alike(new[i], list[i])
  PROVE  /\ Graphlike(list) => Graphlike(new)
         /\ (\A i \in DOMAIN list : SaneTask(list[i])) => \A i \in DOMAIN new : SaneTask(new[i])
<1>1. \A i \in DOMAIN list : new[i].id = list[i].id /\ new[i].depends_on = list[i].depends_on
  BY DEF Alike, Names
<1>2. \A i \in DOMAIN list : /\ new[i].context_from = list[i].context_from
                             /\ new[i].when = list[i].when
                             /\ new[i].consumes_contracts = list[i].consumes_contracts
  BY DEF Alike, Names
<1>3. \A i \in DOMAIN list : /\ new[i].consistency_group = list[i].consistency_group
                             /\ new[i].reconcile_after = list[i].reconcile_after
  BY DEF Alike, Names
<1>4. \A i \in DOMAIN list : /\ new[i].engine = list[i].engine /\ new[i].command = list[i].command
                             /\ new[i].group = list[i].group
  BY DEF Alike, Names
<1>5. \A i \in DOMAIN list : /\ new[i].max_retries = list[i].max_retries /\ new[i].judge = list[i].judge
                             /\ new[i].fallback_engine = list[i].fallback_engine
  BY DEF Alike, Names
<1>6. Ids(new) = Ids(list)
  BY <1>1 DEF Ids, ToSet
<1>7. \A i, k \in DOMAIN list : Shares(new[k], new[i]) <=> Shares(list[k], list[i])
  BY <1>3 DEF Shares
<1>8. \A i \in DOMAIN list : Waits(list, i) => Waits(new, i)
  BY <1>1, <1>2, <1>6, <1>7 DEF Waits, Depends
<1>9. Graphlike(list) => Graphlike(new)
  BY <1>1, <1>8 DEF Graphlike
<1>10. \A i \in DOMAIN list : Types(new[i]) = Types(list[i])
  <2> SUFFICES ASSUME NEW i \in DOMAIN list PROVE Types(new[i]) = Types(list[i])
    OBVIOUS
  <2>1. \A k \in {"command", "engine", "group"} : new[i][k] = list[i][k]
    BY <1>4
  <2> QED
    BY <2>1 DEF Types
<1>11. \A i \in DOMAIN list : SaneTask(list[i]) => SaneTask(new[i])
  BY <1>4, <1>5, <1>10 DEF SaneTask
<1> QED
  BY <1>9, <1>11

\* Whether a task is cached plays no part in the graph.
LEMMA CacheApart ==
  ASSUME NEW list, WellFormedList(list),
         NEW new, new = [i \in DOMAIN list |-> Fresh(list[i])]
  PROVE  /\ WellFormedList(new)
         /\ \A i \in DOMAIN new : new[i].dynamic_group => ~new[i].cache
         /\ Graphlike(list) => Graphlike(new)
         /\ (\A i \in DOMAIN list : SaneTask(list[i])) => \A i \in DOMAIN new : SaneTask(new[i])
<1>1. IsSeq(new) /\ DOMAIN new = DOMAIN list
  BY MapIsSeq DEF WellFormedList
<1>2. \A i \in DOMAIN list : WellFormed(list[i]) /\ Names \subseteq DOMAIN list[i]
  BY WellFormedFields DEF WellFormedList
<1>3. ASSUME NEW i \in DOMAIN list
      PROVE  /\ DOMAIN new[i] = DOMAIN list[i]
             /\ \A k \in DOMAIN list[i] : k # "cache" => new[i][k] = list[i][k]
             /\ new[i].cache = (list[i].cache /\ ~list[i].dynamic_group)
  BY <1>2 DEF Names, Fresh
<1>4. ASSUME NEW i \in DOMAIN list PROVE WellFormed(new[i])
  <2>1. \A k \in DOMAIN TaskSpec : new[i][k] = list[i][k] \/ GoodValue(k, new[i][k])
    BY <1>2, <1>3 DEF WellFormed, GoodValue
  <2> QED
    BY <1>2, <1>3, <2>1, ReplacedWellFormed
<1>5. \A i \in DOMAIN list : Alike(new[i], list[i])
  BY <1>2, <1>3 DEF Alike
<1>6. ASSUME NEW i \in DOMAIN list, new[i].dynamic_group PROVE ~new[i].cache
  <2>1. new[i].dynamic_group = list[i].dynamic_group
    BY <1>5 DEF Alike, Names
  <2>2. new[i].cache = (list[i].cache /\ ~list[i].dynamic_group)
    BY <1>3
  <2> QED
    BY <1>6, <2>1, <2>2
<1> QED
  BY <1>1, <1>4, <1>5, <1>6, AlikeGraph DEF WellFormedList

LEMMA ValidatedIsChecked ==
  ASSUME NEW r, WellFormedFiles(r), BreakerCounts(r.circuit_breaker),
         NEW list, WellFormedList(list), Resolved(list), \A i \in DOMAIN list : Parsed(list[i]),
         NEW p, p = [r EXCEPT !.tasks = list], PlanRefusals(p) = <<>>,
         NEW new, new = [i \in DOMAIN list |-> Fresh(list[i])],
         NEW q, q = [p EXCEPT !.tasks = new]
  PROVE  Checked(q)
<1>1. DOMAIN PlanSpec \subseteq DOMAIN r
  BY DEF WellFormedFiles
<1>2. {"tasks", "max_parallel", "circuit_breaker"} \subseteq DOMAIN r
  BY <1>1, PlanNames
<1>3. p.tasks = list /\ p.max_parallel = r.max_parallel /\ p.circuit_breaker = r.circuit_breaker
      /\ DOMAIN p = DOMAIN r
  BY <1>2
<1>4. /\ q.tasks = new /\ q.max_parallel = r.max_parallel /\ q.circuit_breaker = r.circuit_breaker
      /\ DOMAIN q = DOMAIN r
  BY <1>2, <1>3
<1>5. /\ Graphlike(list) /\ \A i \in DOMAIN list : SaneTask(list[i])
      /\ Count(p.max_parallel) >= 1
  BY <1>3, RulesMakeGraph
<1>6. /\ WellFormedList(new) /\ \A i \in DOMAIN new : new[i].dynamic_group => ~new[i].cache
      /\ Graphlike(new) /\ \A i \in DOMAIN new : SaneTask(new[i])
  BY <1>5, CacheApart
<1> QED
  BY <1>1, <1>3, <1>4, <1>5, <1>6 DEF Checked

\* The warnings play no part in what is checked.
LEMMA WarningsApart ==
  ASSUME NEW p, Checked(p), NEW warnings, NEW q, q = [p EXCEPT !.warnings = warnings]
  PROVE  Checked(q) /\ q.tasks = p.tasks /\ (Isolated(p) => Isolated(q))
<1>1. {"tasks", "max_parallel", "circuit_breaker", "watch", "workspace_root", "warnings"} \subseteq DOMAIN p
  BY PlanNames DEF Checked
<1>2. /\ q.tasks = p.tasks /\ q.max_parallel = p.max_parallel /\ q.circuit_breaker = p.circuit_breaker
      /\ q.watch = p.watch /\ q.workspace_root = p.workspace_root /\ DOMAIN q = DOMAIN p
  BY <1>1
<1> QED
  BY <1>2 DEF Checked, Isolated
-----------------------------------------------------------------------------
(* The search for cycles.                                                  *)

LEMMA TaskIsOne ==
  ASSUME NEW list, NEW id \in Ids(list)
  PROVE  \E i \in DOMAIN list : TaskOf(list, id) = list[i] /\ list[i].id = id
<1>1. \E t \in ToSet(list) : t.id = id
  BY DEF Ids
<1>2. TaskOf(list, id) \in ToSet(list) /\ TaskOf(list, id).id = id
  BY <1>1 DEF TaskOf
<1> QED
  BY <1>2 DEF ToSet

LEMMA DepsIn ==
  ASSUME NEW list, WellFormedList(list), Graphlike(list), NEW id \in Ids(list)
  PROVE  IsSeq(Deps(list, id)) /\ ToSet(Deps(list, id)) \subseteq Ids(list)
<1>1. PICK i \in DOMAIN list : TaskOf(list, id) = list[i]
  BY TaskIsOne
<1>2. WellFormed(list[i]) /\ Waits(list, i)
  BY DEF WellFormedList, Graphlike
<1>3. IsSeq(list[i].depends_on)
  BY <1>2, WellFormedFields DEF Listed
<1> QED
  BY <1>1, <1>2, <1>3 DEF Deps, Waits

LEMMA SearchBegins == ASSUME NEW list PROVE Searching(list, <<>>, {})
BY EmptyIsSeq DEF Searching

LEMMA SearchEnters ==
  ASSUME NEW list, NEW done, Searching(list, <<>>, done), NEW id \in Ids(list)
  PROVE  Searching(list, <<Enter(id)>>, done)
<1>1. PICK q : q = <<Enter(id)>>
  OBVIOUS
<1>2. PICK entry : entry = Enter(id)
  OBVIOUS
<1>3. IsSeq(q) /\ Len(q) = 1 /\ DOMAIN q = {1} /\ q[1] = Enter(id)
  <2>1. <<entry>> \in Seq({entry}) /\ Len(<<entry>>) = 1 /\ DOMAIN <<entry>> = {1} /\ <<entry>>[1] = entry
    OBVIOUS
  <2> QED
    BY <1>1, <1>2, <2>1 DEF IsSeq
<1>4. q[1] \in [node : Ids(list), next : Nat \ {0}] /\ q[1].next = 1
  BY <1>3 DEF Enter
<1>5. IsSeq(Deps(list, id)) => \A k \in DOMAIN Deps(list, id) : ~(k < 1)
  BY SeqDomain
<1> QED
  BY <1>1, <1>3, <1>4, <1>5 DEF Searching

\* A dependency that is on the path closes a circle.
LEMMA PathCloses ==
  ASSUME NEW list, NEW q, NEW done, Searching(list, q, done),
         NEW j \in DOMAIN q, NEW k, k \in DOMAIN Deps(list, q[Len(q)].node),
         Deps(list, q[Len(q)].node)[k] = q[j].node
  PROVE  HasCycle(list)
<1> DEFINE S == {q[i].node : i \in j .. Len(q)}
<1>1. Len(q) \in Nat /\ DOMAIN q = 1 .. Len(q) /\ j .. Len(q) \subseteq DOMAIN q /\ j \in j .. Len(q)
  BY SeqDomain DEF Searching
<1>2. \A i \in DOMAIN q : q[i].node \in Ids(list)
  BY DEF Searching
<1>3. S \in SUBSET Ids(list) /\ S # {}
  BY <1>1, <1>2
<1>4. ASSUME NEW i \in j .. Len(q)
      PROVE  \E d \in S : Depends(TaskOf(list, q[i].node), d)
  <2>1. CASE i = Len(q)
    <3>1. q[j].node \in S
      BY <1>1
    <3>2. Depends(TaskOf(list, q[i].node), q[j].node)
      BY <2>1 DEF Depends, Deps, ToSet
    <3> QED
      BY <3>1, <3>2
  <2>2. CASE i # Len(q)
    <3>1. j \in Nat /\ i \in Nat /\ Len(q) \in Nat /\ j <= i /\ i <= Len(q)
      BY <1>1
    <3>4. i < Len(q) /\ i + 1 \in j .. Len(q)
      BY <2>2, <3>1
    <3>5. i \in DOMAIN q
      BY <1>1
    <3>2. /\ q[i].next - 1 \in DOMAIN Deps(list, q[i].node)
          /\ Deps(list, q[i].node)[q[i].next - 1] = q[i + 1].node
      BY <3>4, <3>5 DEF Searching
    <3>3. q[i + 1].node \in S
      BY <3>4
    <3>6. Depends(TaskOf(list, q[i].node), q[i + 1].node)
      BY <3>2 DEF Depends, Deps, ToSet
    <3> QED
      BY <3>3, <3>6
  <2> QED
    BY <2>1, <2>2
<1>5. \A id \in S : \E d \in S : Depends(TaskOf(list, id), d)
  BY <1>4
<1> HIDE DEF S
<1> QED
  BY <1>3, <1>5 DEF HasCycle

LEMMA AppendedIsSeq ==
  ASSUME NEW s, IsSeq(s), NEW e, NEW r, r = Append(s, e)
  PROVE  /\ IsSeq(r) /\ Len(r) = Len(s) + 1 /\ DOMAIN r = 1 .. Len(s) + 1
         /\ \A i \in 1 .. Len(s) : r[i] = s[i]
         /\ r[Len(s) + 1] = e
BY AppendSeq

LEMMA FrontIsSeq ==
  ASSUME NEW q, IsSeq(q), q # <<>>
  PROVE  /\ IsSeq(Front(q)) /\ Len(Front(q)) = Len(q) - 1 /\ DOMAIN Front(q) = 1 .. Len(q) - 1
         /\ \A i \in DOMAIN Front(q) : Front(q)[i] = q[i]
<1>1. PICK n : n = Len(q) - 1
  OBVIOUS
<1>2. PICK S : q \in Seq(S)
  BY DEF IsSeq
<1>3. n \in Nat /\ 1 \in Int /\ n \in Int
  BY <1>1, SeqDomain, EmptyDomain
<1>4. \A i \in 1 .. n : q[i] \in S
  BY <1>1, <1>2, <1>3
<1>5. PICK f : f = SubSeq(q, 1, n)
  OBVIOUS
<1>6. f \in Seq(S) /\ Len(f) = (IF 1 <= n THEN n - 1 + 1 ELSE 0) /\ \A i \in 1 .. n - 1 + 1 : f[i] = q[1 + i - 1]
  BY <1>3, <1>4, <1>5, SubSeqProperties
<1>7. Len(f) = n /\ DOMAIN f = 1 .. n
  BY <1>3, <1>6
<1>8. \A i \in 1 .. n : f[i] = q[i]
  BY <1>3, <1>6
<1>9. Front(q) = f
  BY <1>1, <1>5 DEF Front
<1> QED
  BY <1>1, <1>6, <1>7, <1>8, <1>9 DEF IsSeq

\* A dependency that has not been looked at is entered.
LEMMA SearchPushes ==
  ASSUME NEW list, NEW done, NEW rest, IsSeq(rest), rest # <<>>,
         \A i \in DOMAIN rest : rest[i] \in [node : Ids(list), next : Nat \ {0}],
         \A i \in DOMAIN rest : i < Len(rest) =>
            /\ rest[i].next - 1 \in DOMAIN Deps(list, rest[i].node)
            /\ Deps(list, rest[i].node)[rest[i].next - 1] = rest[i + 1].node,
         NEW dep \in Ids(list), IsSeq(Deps(list, dep)),
         rest[Len(rest)].next - 1 \in DOMAIN Deps(list, rest[Len(rest)].node),
         Deps(list, rest[Len(rest)].node)[rest[Len(rest)].next - 1] = dep,
         \A i \in DOMAIN rest : \A k \in DOMAIN Deps(list, rest[i].node) :
            k < rest[i].next => Deps(list, rest[i].node)[k] \in done \/ k = rest[i].next - 1,
         \A S \in SUBSET Ids(list) : Circular(list, S) => S \cap done = {}
  PROVE  Searching(list, Append(rest, Enter(dep)), done)
<1>1. PICK entry : entry = Enter(dep)
  OBVIOUS
<1>2. PICK more : more = Append(rest, entry)
  OBVIOUS
<1>3. PICK n : n = Len(rest)
  OBVIOUS
<1>4. n \in Nat /\ n \in DOMAIN rest /\ DOMAIN rest = 1 .. n
  BY <1>3, SeqDomain, EmptyDomain
<1>5. IsSeq(more) /\ Len(more) = n + 1 /\ DOMAIN more = 1 .. n + 1
  BY <1>2, <1>3, AppendedIsSeq
<1>6. (\A i \in DOMAIN rest : more[i] = rest[i]) /\ more[n + 1] = entry
  BY <1>2, <1>3, <1>4, AppendedIsSeq
<1>7. entry \in [node : Ids(list), next : Nat \ {0}] /\ entry.node = dep /\ entry.next = 1
  BY <1>1 DEF Enter
<1>8. \A i \in DOMAIN more : i \in DOMAIN rest \/ i = n + 1
  BY <1>4, <1>5
<1>9. \A i \in DOMAIN more : more[i] \in [node : Ids(list), next : Nat \ {0}]
  BY <1>6, <1>7, <1>8
<1>10. ASSUME NEW i \in DOMAIN more, i < Len(more)
       PROVE  /\ more[i].next - 1 \in DOMAIN Deps(list, more[i].node)
              /\ Deps(list, more[i].node)[more[i].next - 1] = more[i + 1].node
  <2>1. i \in DOMAIN rest /\ (i < n \/ i = n) /\ (i < n => i + 1 \in DOMAIN rest)
    BY <1>4, <1>5, <1>10
  <2>2. more[i] = rest[i]
    BY <1>6, <2>1
  <2>3. CASE i < n
    BY <1>3, <1>6, <2>1, <2>2, <2>3
  <2>4. CASE i = n
    BY <1>3, <1>6, <1>7, <2>2, <2>4
  <2> QED
    BY <2>1, <2>3, <2>4
<1>11. ASSUME NEW i \in DOMAIN more, NEW k \in DOMAIN Deps(list, more[i].node), k < more[i].next
       PROVE  \/ Deps(list, more[i].node)[k] \in done
              \/ i < Len(more) /\ k = more[i].next - 1
  <2>1. CASE i \in DOMAIN rest
    <3>1. more[i] = rest[i] /\ i < Len(more)
      BY <1>4, <1>5, <1>6, <2>1
    <3> QED
      BY <1>11, <2>1, <3>1
  <2>2. CASE i = n + 1
    <3>1. more[i].node = dep /\ more[i].next = 1
      BY <1>6, <1>7, <2>2
    <3>2. k \in Nat \ {0}
      BY <3>1, SeqDomain
    <3> QED
      BY <1>11, <3>1, <3>2
  <2> QED
    BY <1>8, <2>1, <2>2
<1>12. Searching(list, more, done)
  BY <1>5, <1>9, <1>10, <1>11 DEF Searching
<1> QED
  BY <1>1, <1>2, <1>12

\* The next dependency of the node on top is looked at.
LEMMA SearchAdvances ==
  ASSUME NEW list, WellFormedList(list), Graphlike(list),
         NEW q, NEW done, Searching(list, q, done), q # <<>>,
         NEW top, top = q[Len(q)], top.next <= Len(Deps(list, top.node)),
         NEW dep, dep = Deps(list, top.node)[top.next],
         NEW rest, rest = [q EXCEPT ![Len(q)].next = @ + 1]
  PROVE  /\ dep \in Ids(list)
         /\ dep \in done => Searching(list, rest, done)
         /\ Searching(list, Append(rest, Enter(dep)), done)
<1>1. IsSeq(q) /\ Len(q) \in Nat /\ DOMAIN q = 1 .. Len(q) /\ Len(q) \in DOMAIN q
  BY SeqDomain, EmptyDomain DEF Searching
<1>2. top \in [node : Ids(list), next : Nat \ {0}]
  BY <1>1 DEF Searching
<1>3. IsSeq(Deps(list, top.node)) /\ ToSet(Deps(list, top.node)) \subseteq Ids(list)
  BY <1>2, DepsIn
<1>4. top.next \in DOMAIN Deps(list, top.node)
  BY <1>2, <1>3, SeqDomain
<1>5. dep \in Ids(list)
  BY <1>3, <1>4 DEF ToSet
<1>6. PICK e : e = [top EXCEPT !.next = @ + 1]
  OBVIOUS
<1>7. e \in [node : Ids(list), next : Nat \ {0}] /\ e.node = top.node /\ e.next = top.next + 1
  BY <1>2, <1>6
<1>8. rest = [q EXCEPT ![Len(q)] = e]
  BY <1>6
<1>9. IsSeq(rest) /\ Len(rest) = Len(q) /\ DOMAIN rest = DOMAIN q
  <2>1. PICK n \in DOMAIN q : n = Len(q)
    BY <1>1
  <2>2. LET s == [q EXCEPT ![n] = e] IN IsSeq(s) /\ Len(s) = Len(q) /\ DOMAIN s = DOMAIN q
    BY <1>1, ExceptIsSeq
  <2> QED
    BY <1>8, <2>1, <2>2
<1>10. \A i \in DOMAIN q : rest[i] = IF i = Len(q) THEN e ELSE q[i]
  BY <1>8
<1>11. /\ \A i \in DOMAIN rest : rest[i] \in [node : Ids(list), next : Nat \ {0}]
       /\ \A i \in DOMAIN rest : rest[i].node = q[i].node
  BY <1>7, <1>9, <1>10 DEF Searching
<1>12. \A i \in DOMAIN rest : i < Len(rest) =>
          /\ rest[i].next - 1 \in DOMAIN Deps(list, rest[i].node)
          /\ Deps(list, rest[i].node)[rest[i].next - 1] = rest[i + 1].node
  <2> SUFFICES ASSUME NEW i \in DOMAIN q, i < Len(q)
               PROVE  /\ q[i].next - 1 \in DOMAIN Deps(list, q[i].node)
                      /\ Deps(list, q[i].node)[q[i].next - 1] = rest[i + 1].node
    BY <1>1, <1>9, <1>10
  <2>1. i + 1 \in DOMAIN rest
    BY <1>1, <1>9
  <2> QED
    BY <1>11, <2>1 DEF Searching
<1>13. \A i \in DOMAIN rest : \A k \in DOMAIN Deps(list, rest[i].node) :
          k < rest[i].next => \/ Deps(list, rest[i].node)[k] \in done
                              \/ i < Len(q) /\ k = rest[i].next - 1
                              \/ i = Len(q) /\ k = top.next
  <2> SUFFICES ASSUME NEW i \in DOMAIN q, NEW k \in DOMAIN Deps(list, q[i].node), k < rest[i].next
               PROVE  \/ Deps(list, q[i].node)[k] \in done
                      \/ i < Len(q) /\ k = rest[i].next - 1
                      \/ i = Len(q) /\ k = top.next
    BY <1>9, <1>11
  <2>1. CASE i # Len(q)
    <3>1. rest[i] = q[i] /\ i < Len(q)
      BY <1>1, <1>10, <2>1
    <3> QED
      BY <3>1 DEF Searching
  <2>2. CASE i = Len(q)
    <3>1. rest[i] = e /\ q[i] = top
      BY <1>10, <2>2
    <3>2. k \in Nat
      BY <1>3, <3>1, SeqDomain
    <3>3. k = top.next \/ k < q[i].next
      BY <1>2, <1>7, <3>1, <3>2
    <3>4. k < q[i].next => Deps(list, q[i].node)[k] \in done
      BY <2>2, <1>1 DEF Searching
    <3> QED
      BY <2>2, <3>3, <3>4
  <2> QED
    BY <2>1, <2>2
<1>14. \A S \in SUBSET Ids(list) : Circular(list, S) => S \cap done = {}
  BY DEF Searching
<1>15. ASSUME dep \in done PROVE Searching(list, rest, done)
  <2>1. \A i \in DOMAIN rest : \A k \in DOMAIN Deps(list, rest[i].node) :
          k < rest[i].next => \/ Deps(list, rest[i].node)[k] \in done
                              \/ i < Len(rest) /\ k = rest[i].next - 1
    BY <1>9, <1>11, <1>13, <1>15
  <2> QED
    BY <1>9, <1>11, <1>12, <1>14, <2>1 DEF Searching
<1>16. Searching(list, Append(rest, Enter(dep)), done)
  <2>1. /\ rest # <<>> /\ rest[Len(rest)].next - 1 \in DOMAIN Deps(list, rest[Len(rest)].node)
        /\ Deps(list, rest[Len(rest)].node)[rest[Len(rest)].next - 1] = dep
    <3>1. rest[Len(rest)] = e /\ e.next - 1 = top.next
      BY <1>1, <1>2, <1>7, <1>9, <1>10
    <3>2. rest # <<>>
      BY <1>1, <1>9, EmptyIsSeq
    <3> QED
      BY <1>4, <1>7, <3>1, <3>2
  <2>2. \A i \in DOMAIN rest : \A k \in DOMAIN Deps(list, rest[i].node) :
          k < rest[i].next => Deps(list, rest[i].node)[k] \in done \/ k = rest[i].next - 1
    <3>1. rest[Len(q)].next - 1 = top.next
      BY <1>1, <1>2, <1>7, <1>10
    <3> QED
      BY <1>13, <3>1
  <2> QED
    BY <1>3, <1>5, <1>9, <1>11, <1>12, <1>14, <2>1, <2>2, DepsIn, SearchPushes
<1> QED
  BY <1>5, <1>15, <1>16

\* A node whose dependencies are done with is done with.
LEMMA SearchLeaves ==
  ASSUME NEW list, WellFormedList(list), Graphlike(list),
         NEW q, NEW done, Searching(list, q, done), q # <<>>,
         NEW top, top = q[Len(q)], top.next > Len(Deps(list, top.node))
  PROVE  Searching(list, Front(q), done \cup {top.node})
<1>1. IsSeq(q) /\ Len(q) \in Nat /\ DOMAIN q = 1 .. Len(q) /\ Len(q) \in DOMAIN q
  BY SeqDomain, EmptyDomain DEF Searching
<1>2. top \in [node : Ids(list), next : Nat \ {0}]
  BY <1>1 DEF Searching
<1>3. PICK f : f = Front(q)
  OBVIOUS
<1>4. IsSeq(f) /\ Len(f) = Len(q) - 1 /\ DOMAIN f = 1 .. Len(q) - 1 /\ \A i \in DOMAIN f : f[i] = q[i]
  BY <1>1, <1>3, FrontIsSeq
<1>5. \A i \in DOMAIN f : i \in DOMAIN q /\ i < Len(q) /\ (i < Len(f) => i + 1 \in DOMAIN f)
  BY <1>1, <1>4
<1>6. \A i \in DOMAIN f : f[i] \in [node : Ids(list), next : Nat \ {0}]
  BY <1>4, <1>5 DEF Searching
<1>7. \A i \in DOMAIN f : i < Len(f) =>
          /\ f[i].next - 1 \in DOMAIN Deps(list, f[i].node)
          /\ Deps(list, f[i].node)[f[i].next - 1] = f[i + 1].node
  BY <1>4, <1>5 DEF Searching
<1>8. \A i \in DOMAIN f : \A k \in DOMAIN Deps(list, f[i].node) :
        k < f[i].next => \/ Deps(list, f[i].node)[k] \in done \cup {top.node}
                         \/ i < Len(f) /\ k = f[i].next - 1
  <2> SUFFICES ASSUME NEW i \in DOMAIN f, NEW k \in DOMAIN Deps(list, q[i].node), k < q[i].next
               PROVE  \/ Deps(list, q[i].node)[k] \in done \cup {top.node}
                      \/ i < Len(f) /\ k = q[i].next - 1
    BY <1>4
  <2>1. \/ Deps(list, q[i].node)[k] \in done \/ k = q[i].next - 1
    BY <1>5 DEF Searching
  <2>2. i < Len(f) \/ i + 1 = Len(q)
    BY <1>1, <1>4
  <2>3. ASSUME i + 1 = Len(q), k = q[i].next - 1 PROVE Deps(list, q[i].node)[k] = top.node
    BY <1>5, <2>3 DEF Searching
  <2> QED
    BY <2>1, <2>2, <2>3
<1>9. ASSUME NEW S \in SUBSET Ids(list), Circular(list, S)
      PROVE  S \cap (done \cup {top.node}) = {}
  <2>1. S \cap done = {}
    BY <1>9 DEF Searching
  <2>2. ASSUME top.node \in S PROVE FALSE
    <3>1. PICK d \in S : Depends(TaskOf(list, top.node), d)
      BY <1>9, <2>2 DEF Circular
    <3>2. PICK k \in DOMAIN Deps(list, top.node) : d = Deps(list, top.node)[k]
      BY <3>1 DEF Depends, Deps, ToSet
    <3>3. k < top.next
      BY <1>2, DepsIn, SeqDomain
    <3>4. d \in done
      BY <1>1, <3>2, <3>3 DEF Searching
    <3> QED
      BY <2>1, <3>4
  <2> QED
    BY <2>1, <2>2
<1> QED
  BY <1>3, <1>4, <1>6, <1>7, <1>8, <1>9 DEF Searching

LEMMA SearchEnds ==
  ASSUME NEW list, NEW q, NEW done, Searching(list, q, done), Ids(list) \subseteq done
  PROVE  ~HasCycle(list)
<1> SUFFICES ASSUME NEW S \in SUBSET Ids(list), S # {}, Circular(list, S) PROVE FALSE
  BY DEF HasCycle, Circular
<1>1. S \cap done = {}
  BY DEF Searching
<1> QED
  BY <1>1
-----------------------------------------------------------------------------
(* The imports.                                                            *)

LEMMA CallBegins == \A r : Calling(r, <<[file |-> "main", next |-> 1]>>)
<1>1. PICK frame : frame = [file |-> "main", next |-> 1]
  OBVIOUS
<1>2. PICK q : q = <<frame>>
  OBVIOUS
<1>3. <<frame>> \in Seq({frame}) /\ Len(<<frame>>) = 1 /\ DOMAIN <<frame>> = {1} /\ <<frame>>[1] = frame
  OBVIOUS
<1>4. IsSeq(q) /\ Len(q) = 1 /\ DOMAIN q = {1} /\ q[1] = frame
  BY <1>2, <1>3 DEF IsSeq
<1>5. \A r : frame \in [file : DOMAIN r.files \cup {"main"}, next : Nat \ {0}]
  BY <1>1
<1>6. \A r : Calling(r, q)
  BY <1>4, <1>5 DEF Calling
<1> QED
  BY <1>1, <1>2, <1>6

LEMMA CallPushes ==
  ASSUME NEW r, NEW q, Calling(r, q), q # <<>>, NEW f \in DOMAIN r.files,
         q[Len(q)].next \in DOMAIN ImportsIn(r, q[Len(q)].file).entries
  PROVE  Calling(r, Append(q, [file |-> f, next |-> 1])) /\ Append(q, [file |-> f, next |-> 1]) # <<>>
<1>1. PICK frame : frame = [file |-> f, next |-> 1]
  OBVIOUS
<1>2. PICK more : more = Append(q, frame)
  OBVIOUS
<1>3. PICK n : n = Len(q)
  OBVIOUS
<1>4. n \in Nat /\ DOMAIN q = 1 .. n /\ n \in DOMAIN q
  BY <1>3, SeqDomain, EmptyDomain DEF Calling
<1>5. IsSeq(more) /\ Len(more) = n + 1 /\ DOMAIN more = 1 .. n + 1
  BY <1>2, <1>3, AppendedIsSeq DEF Calling
<1>6. (\A i \in DOMAIN q : more[i] = q[i]) /\ more[n + 1] = frame
  BY <1>2, <1>3, <1>4, AppendedIsSeq DEF Calling
<1>7. frame \in [file : DOMAIN r.files \cup {"main"}, next : Nat \ {0}] /\ frame.file = f
  BY <1>1
<1>8. \A i \in DOMAIN more : i \in DOMAIN q \/ i = n + 1
  BY <1>4, <1>5
<1>9. \A i \in DOMAIN q : i < n \/ i = n
  BY <1>4
<1>10. ASSUME NEW i \in DOMAIN more
       PROVE  /\ more[i] \in [file : DOMAIN r.files \cup {"main"}, next : Nat \ {0}]
              /\ i > 1 => more[i].file \in DOMAIN r.files
              /\ i < Len(more) => more[i].next \in DOMAIN ImportsIn(r, more[i].file).entries
  <2>1. CASE i \in DOMAIN q
    BY <1>3, <1>6, <1>9, <2>1 DEF Calling
  <2>2. CASE i = n + 1
    BY <1>4, <1>5, <1>6, <1>7, <2>2
  <2> QED
    BY <1>8, <2>1, <2>2
<1>11. Calling(r, more)
  BY <1>5, <1>10 DEF Calling
<1>12. more # <<>>
  BY <1>4, <1>5, EmptyIsSeq
<1> QED
  BY <1>1, <1>2, <1>11, <1>12

LEMMA CallReturns ==
  ASSUME NEW r, NEW q, Calling(r, q), Len(q) > 1,
         NEW new, new = [Front(q) EXCEPT ![Len(q) - 1].next = @ + 1]
  PROVE  Calling(r, new) /\ new # <<>>
<1>1. PICK f : f = Front(q)
  OBVIOUS
<1>2. PICK n : n = Len(q) - 1
  OBVIOUS
<1>3. IsSeq(q) /\ Len(q) \in Nat /\ n \in Nat /\ n >= 1 /\ Len(q) = n + 1 /\ DOMAIN q = 1 .. n + 1
  BY <1>2, SeqDomain DEF Calling
<1>4. q # <<>>
  BY EmptyIsSeq
<1>5. IsSeq(f) /\ Len(f) = n /\ DOMAIN f = 1 .. n /\ \A i \in DOMAIN f : f[i] = q[i]
  BY <1>1, <1>2, <1>3, <1>4, FrontIsSeq
<1>6. n \in DOMAIN f /\ \A i \in DOMAIN f : i \in DOMAIN q /\ i < Len(q)
  BY <1>3, <1>5
<1>7. PICK e : e = [f[n] EXCEPT !.next = @ + 1]
  OBVIOUS
<1>8. q[n] \in [file : DOMAIN r.files \cup {"main"}, next : Nat \ {0}]
  BY <1>6 DEF Calling
<1>9. e \in [file : DOMAIN r.files \cup {"main"}, next : Nat \ {0}] /\ e.file = q[n].file
  BY <1>5, <1>6, <1>7, <1>8
<1>10. new = [f EXCEPT ![n] = e]
  BY <1>1, <1>2, <1>7
<1>11. IsSeq(new) /\ Len(new) = n /\ DOMAIN new = DOMAIN f
  <2>1. LET s == [f EXCEPT ![n] = e] IN IsSeq(s) /\ Len(s) = Len(f) /\ DOMAIN s = DOMAIN f
    BY <1>5, <1>6, ExceptIsSeq
  <2> QED
    BY <1>5, <1>10, <2>1
<1>12. \A i \in DOMAIN f : new[i] = IF i = n THEN e ELSE f[i]
  BY <1>10
<1>13. ASSUME NEW i \in DOMAIN f
       PROVE  /\ new[i] \in [file : DOMAIN r.files \cup {"main"}, next : Nat \ {0}]
              /\ i > 1 => new[i].file \in DOMAIN r.files
              /\ i < n => new[i].next \in DOMAIN ImportsIn(r, new[i].file).entries
  <2>1. /\ q[i] \in [file : DOMAIN r.files \cup {"main"}, next : Nat \ {0}]
        /\ i > 1 => q[i].file \in DOMAIN r.files
        /\ q[i].next \in DOMAIN ImportsIn(r, q[i].file).entries
    BY <1>6 DEF Calling
  <2>2. CASE i = n
    <3>1. new[i] = e /\ ~(i < n)
      BY <1>3, <1>12, <2>2
    <3> QED
      BY <1>9, <2>1, <2>2, <3>1
  <2>3. CASE i # n
    BY <1>5, <1>12, <2>1, <2>3
  <2> QED
    BY <2>2, <2>3
<1>14. Calling(r, new)
  BY <1>11, <1>13 DEF Calling
<1>15. new # <<>>
  BY <1>3, <1>11, EmptyIsSeq
<1> QED
  BY <1>14, <1>15

\* Two lists of tasks, one behind the other.
LEMMA BothWellFormed ==
  ASSUME NEW s, NEW t, WellFormedList(s), WellFormedList(t)
  PROVE  WellFormedList(s \o t)
<1>1. PICK b : b = s \o t
  OBVIOUS
<1>2. IsSeq(b) /\ ToSet(b) = ToSet(s) \cup ToSet(t)
  BY <1>1, ConcatSeq, ConcatElements DEF WellFormedList
<1>3. \A i \in DOMAIN b : b[i] \in ToSet(b)
  BY DEF ToSet
<1>4. \A u \in ToSet(s) \cup ToSet(t) : WellFormed(u)
  BY DEF ToSet, WellFormedList
<1> QED
  BY <1>1, <1>2, <1>3, <1>4 DEF WellFormedList

\* A fragment's tasks under its prefix.
LEMMA FragmentWellFormed ==
  ASSUME NEW own, WellFormedList(own), NEW imp, \A k \in DOMAIN imp.overrides : GoodValue(k, imp.overrides[k]),
         NEW new, new = [i \in DOMAIN own |-> Overridden(Prefixed(imp.prefix, own[i]), imp.overrides)]
  PROVE  WellFormedList(new)
<1>1. IsSeq(new) /\ DOMAIN new = DOMAIN own
  BY MapIsSeq DEF WellFormedList
<1>2. \A i \in DOMAIN own : WellFormed(new[i])
  BY SplicedWellFormed DEF WellFormedList
<1> QED
  BY <1>1, <1>2 DEF WellFormedList

LEMMA SpliceHarmless ==
  ASSUME NEW own, IsSeq(own), NEW bad
  PROVE  Harmless(Refuse(bad, "E026") \o InTurn(own, FragmentRefusals))
<1> DEFINE each == [i \in DOMAIN own |-> FragmentRefusals(own[i])]
<1>1. each = [i \in DOMAIN own |-> each[i]] /\ \A i \in DOMAIN own : Harmless(each[i])
  BY FragmentHarmless
<1>2. InTurn(own, FragmentRefusals) = FlattenSeq(each)
  BY DEF InTurn
<1> HIDE DEF each
<1>3. Harmless(FlattenSeq(each))
  BY <1>1, EachHarmless
<1>4. Harmless(Refuse(bad, "E026"))
  BY RefuseHarmless
<1> QED
  BY <1>2, <1>3, <1>4, BothHarmless

LEMMA FilledWellFormed ==
  ASSUME NEW all, WellFormedList(all), NEW defaults,
         NEW new, new = [i \in DOMAIN all |-> WithEngineDefaults(all[i], defaults)]
  PROVE  /\ WellFormedList(new)
         /\ (\A i \in DOMAIN all : Parsed(all[i])) => \A i \in DOMAIN new : Parsed(new[i])
<1>1. IsSeq(new) /\ DOMAIN new = DOMAIN all
  BY MapIsSeq DEF WellFormedList
<1>2. \A i \in DOMAIN all : WellFormed(new[i]) /\ new[i].judge = all[i].judge
                            /\ new[i].max_retries = all[i].max_retries
  BY DefaultsWellFormed DEF WellFormedList
<1>3. \A i \in DOMAIN all : Parsed(all[i]) => Parsed(new[i])
  BY <1>2 DEF Parsed
<1> QED
  BY <1>1, <1>2, <1>3 DEF WellFormedList
-----------------------------------------------------------------------------
(* The steps.                                                              *)

\* A stage refuses the plan with a code that is neither a cycle nor an
\* acceptance, or hands it on.
LEMMA Settled ==
  ASSUME NEW refusals, Harmless(refusals), NEW next, Settle(refusals, next)
  PROVE  \/ refusals # <<>> /\ phase' = "done" /\ verdict' \notin {"E004", "accepted"}
         \/ refusals = <<>> /\ phase' = next /\ verdict' = verdict
<1>1. CASE refusals # <<>>
  <2>1. 1 \in DOMAIN refusals
    BY <1>1, SeqDomain, EmptyDomain DEF Harmless
  <2>2. refusals[1] \notin {"E004", "accepted"}
    BY <2>1 DEF Harmless
  <2> QED
    BY <1>1, <2>2 DEF Settle
<1>2. CASE refusals = <<>>
  BY <1>2 DEF Settle
<1> QED
  BY <1>1, <1>2

\* Nothing is claimed of a plan that is neither accepted nor refused for a cycle.
LEMMA NoVerdict == ASSUME verdict' \notin {"E004", "accepted"} PROVE VerdictInv'
BY DEF VerdictInv

LEMMA DoneStage == ASSUME phase' = "done" PROVE StageInv' /\ SearchInv'
BY DEF StageInv, SearchInv

LEMMA InitHolds == ASSUME Init PROVE LoaderInv
<1>1. PICK c \in Cases : raw = RawPlan(c)
  BY DEF Init
<1>2. WellFormedFiles(raw)
  BY <1>1, FilesWellFormed
<1>3. /\ phase = "read" /\ verdict = "open" /\ frames = <<>> /\ tasks = <<>>
      /\ path = <<>> /\ visited = {}
  BY DEF Init
<1>4. WellFormedList(tasks) /\ Calling(raw, frames)
  BY <1>3, EmptyIsSeq DEF WellFormedList, Calling
<1>5. FramesInv
  BY <1>2, <1>3, <1>4 DEF FramesInv
<1>6. StageInv /\ SearchInv /\ VerdictInv
  BY <1>3 DEF StageInv, SearchInv, VerdictInv
<1> QED
  BY <1>5, <1>6 DEF LoaderInv

LEMMA ReadPlanKeeps == ASSUME LoaderInv, ReadPlan PROVE LoaderInv'
<1> DEFINE refusals == Refuse(raw.self = "unreadable", "uncoded")
                       \o Refuse(raw.self # "map", "E018") \o VersionRefusals(raw)
                       \o EnterRefusals(raw.imports, 0)
<1>1. /\ phase = "read" /\ Settle(refusals, "import")
      /\ frames' = <<[file |-> "main", next |-> 1]>>
      /\ raw' = raw /\ tasks' = tasks /\ plan' = plan /\ path' = path /\ visited' = visited
  BY DEF ReadPlan
<1>2. Harmless(refusals)
  BY RefuseHarmless, SpecHarmless, EnterHarmless, BothHarmless
<1> HIDE DEF refusals
<1>3. \/ phase' = "done" /\ verdict' \notin {"E004", "accepted"}
      \/ phase' = "import" /\ verdict' = verdict
  BY <1>1, <1>2, Settled
<1>4. verdict \notin {"E004", "accepted"} /\ path = <<>> /\ visited = {}
  BY <1>1 DEF LoaderInv, VerdictInv, StageInv
<1>5. FramesInv'
  <2>1. Calling(raw', frames')
    BY <1>1, CallBegins
  <2>2. frames' # <<>>
    BY <1>1
  <2> QED
    BY <1>1, <2>1, <2>2 DEF LoaderInv, FramesInv
<1>6. VerdictInv'
  BY <1>3, <1>4, NoVerdict
<1>7. StageInv' /\ SearchInv'
  BY <1>1, <1>3, <1>4, DoneStage DEF StageInv, SearchInv
<1> QED
  BY <1>5, <1>6, <1>7 DEF LoaderInv

LEMMA ImportKeeps == ASSUME LoaderInv, Import PROVE LoaderInv'
<1> DEFINE imp == Entries[Frame.next]
           refusals == ImportRefusals(imp, SubSeq(Entries, 1, Frame.next - 1))
<1>1. /\ phase = "import" /\ Pending /\ Settle(refusals, "import")
      /\ frames' = Append(frames, [file |-> imp.path, next |-> 1])
      /\ raw' = raw /\ tasks' = tasks /\ plan' = plan /\ path' = path /\ visited' = visited
  BY DEF Import
<1>2. Harmless(refusals)
  BY RefuseHarmless, EnterHarmless, BothHarmless DEF ImportRefusals
<1> HIDE DEF refusals
<1>3. \/ phase' = "done" /\ verdict' \notin {"E004", "accepted"}
      \/ phase' = "import" /\ verdict' = verdict
  BY <1>1, <1>2, Settled
<1>4. verdict \notin {"E004", "accepted"} /\ path = <<>> /\ visited = {}
  BY <1>1 DEF LoaderInv, VerdictInv, StageInv
<1>5. WellFormedFiles(raw) /\ Calling(raw, frames) /\ frames # <<>>
  BY <1>1 DEF LoaderInv, FramesInv
<1>6. Len(frames) \in DOMAIN frames
  BY <1>5, SeqDomain, EmptyDomain DEF Calling
<1>7. /\ Frame.file \in DOMAIN raw.files \cup {"main"} /\ Frame.next \in Nat \ {0}
      /\ Entries = ImportsIn(raw, Frame.file).entries
  BY <1>5, <1>6 DEF Calling, Frame, Entries, Imports, ImportsIn
<1>8. IsSeq(Entries) /\ \A i \in DOMAIN Entries : WellFormedImport(raw, Entries[i])
  BY <1>5, <1>7 DEF WellFormedFiles
<1>9. Frame.next \in DOMAIN Entries
  BY <1>1, <1>7, <1>8, SeqDomain DEF Pending
<1>10. imp.path \in DOMAIN raw.files
  BY <1>8, <1>9 DEF WellFormedImport
<1> HIDE DEF imp
<1>11. Calling(raw', frames') /\ frames' # <<>>
  <2>1. frames[Len(frames)].next \in DOMAIN ImportsIn(raw, frames[Len(frames)].file).entries
    BY <1>7, <1>9 DEF Frame
  <2> QED
    BY <1>1, <1>5, <1>10, <2>1, CallPushes
<1>12. FramesInv'
  BY <1>1, <1>11 DEF LoaderInv, FramesInv
<1>13. VerdictInv'
  BY <1>3, <1>4, NoVerdict
<1>14. StageInv' /\ SearchInv'
  BY <1>1, <1>3, <1>4, DoneStage DEF StageInv, SearchInv
<1> QED
  BY <1>12, <1>13, <1>14 DEF LoaderInv

LEMMA SpliceKeeps == ASSUME LoaderInv, Splice PROVE LoaderInv'
<1> DEFINE caller == frames[Len(frames) - 1]
           imp == Imports(caller.file).entries[caller.next]
           own == raw.files[Frame.file].tasks
           refusals == Refuse(imp.shape \notin {"none", "map"}, "E026") \o InTurn(own, FragmentRefusals)
           added == [i \in DOMAIN own |-> Overridden(Prefixed(imp.prefix, own[i]), imp.overrides)]
<1>1. /\ phase = "import" /\ Len(frames) > 1 /\ Settle(refusals, "import")
      /\ tasks' = tasks \o added
      /\ frames' = [Front(frames) EXCEPT ![Len(frames) - 1].next = @ + 1]
      /\ raw' = raw /\ plan' = plan /\ path' = path /\ visited' = visited
  BY DEF Splice
<1>2. WellFormedFiles(raw) /\ Calling(raw, frames) /\ WellFormedList(tasks)
  BY DEF LoaderInv, FramesInv
<1>3. /\ Len(frames) \in Nat /\ DOMAIN frames = 1 .. Len(frames)
      /\ Len(frames) \in DOMAIN frames /\ Len(frames) - 1 \in DOMAIN frames
      /\ Len(frames) - 1 < Len(frames)
  <2>1. PICK n : n = Len(frames)
    OBVIOUS
  <2>2. n \in Nat /\ DOMAIN frames = 1 .. n /\ n > 1
    BY <1>1, <1>2, <2>1, SeqDomain DEF Calling
  <2> QED
    BY <2>1, <2>2
<1>4. Frame.file \in DOMAIN raw.files
  BY <1>1, <1>2, <1>3 DEF Calling, Frame
<1>5. WellFormedList(own)
  BY <1>2, <1>4 DEF WellFormedFiles
<1>6. /\ caller.file \in DOMAIN raw.files \cup {"main"}
      /\ caller.next \in DOMAIN ImportsIn(raw, caller.file).entries
  BY <1>2, <1>3 DEF Calling
<1>7. WellFormedImport(raw, imp)
  BY <1>2, <1>6 DEF WellFormedFiles, Imports, ImportsIn
<1>8. \A k \in DOMAIN imp.overrides : GoodValue(k, imp.overrides[k])
  BY <1>7 DEF WellFormedImport
<1> HIDE DEF own, imp, caller
<1>9. WellFormedList(added)
  BY <1>5, <1>8, FragmentWellFormed
<1>10. Harmless(refusals)
  BY <1>5, SpliceHarmless DEF WellFormedList
<1> HIDE DEF refusals, added
<1>11. \/ phase' = "done" /\ verdict' \notin {"E004", "accepted"}
       \/ phase' = "import" /\ verdict' = verdict
  BY <1>1, <1>10, Settled
<1>12. verdict \notin {"E004", "accepted"} /\ path = <<>> /\ visited = {}
  BY <1>1 DEF LoaderInv, VerdictInv, StageInv
<1>13. WellFormedList(tasks')
  BY <1>1, <1>2, <1>9, BothWellFormed
<1>14. Calling(raw', frames') /\ frames' # <<>>
  BY <1>1, <1>2, CallReturns
<1>15. FramesInv'
  BY <1>1, <1>2, <1>13, <1>14 DEF FramesInv
<1>16. VerdictInv'
  BY <1>11, <1>12, NoVerdict
<1>17. StageInv' /\ SearchInv'
  BY <1>1, <1>11, <1>12, DoneStage DEF StageInv, SearchInv
<1> QED
  BY <1>15, <1>16, <1>17 DEF LoaderInv

LEMMA ParseKeeps == ASSUME LoaderInv, Parse PROVE LoaderInv'
<1> DEFINE all == tasks \o raw.tasks
           refusals == Refuse(raw.shape \notin Lists \cup {"none"}, "E018")
                       \o DefaultsRefusals(raw) \o Refuse(all = <<>>, "E001")
                       \o FlattenSeq([i \in DOMAIN all |-> TaskRefusals(all[i], raw.defaults.retry_strategy)])
<1>1. /\ phase = "import" /\ Settle(refusals, "expand")
      /\ tasks' = [i \in DOMAIN all |-> WithEngineDefaults(all[i], raw.defaults)]
      /\ raw' = raw /\ frames' = frames /\ plan' = plan /\ path' = path /\ visited' = visited
  BY DEF Parse, ImportsDone, InTurn
<1>2. WellFormedFiles(raw) /\ Calling(raw, frames) /\ WellFormedList(tasks) /\ frames # <<>>
  BY <1>1 DEF LoaderInv, FramesInv
<1>3. WellFormedList(raw.tasks)
  BY <1>2 DEF WellFormedFiles
<1>4. WellFormedList(all)
  BY <1>2, <1>3, BothWellFormed
<1> HIDE DEF all
<1>5. Harmless(refusals) /\ (refusals = <<>> => \A i \in DOMAIN all : Parsed(all[i]))
  BY <1>4, ParsePasses
<1> HIDE DEF refusals
<1>6. \/ phase' = "done" /\ verdict' \notin {"E004", "accepted"}
      \/ refusals = <<>> /\ phase' = "expand" /\ verdict' = verdict
  BY <1>1, <1>5, Settled
<1>7. verdict \notin {"E004", "accepted"} /\ path = <<>> /\ visited = {}
  BY <1>1 DEF LoaderInv, VerdictInv, StageInv
<1>8. WellFormedList(tasks') /\ (refusals = <<>> => \A i \in DOMAIN tasks' : Parsed(tasks'[i]))
  BY <1>1, <1>4, <1>5, FilledWellFormed
<1>9. FramesInv'
  BY <1>1, <1>2, <1>8 DEF FramesInv
<1>10. VerdictInv'
  BY <1>6, <1>7, NoVerdict
<1>11. StageInv' /\ SearchInv'
  BY <1>1, <1>6, <1>7, <1>8, DoneStage DEF StageInv, SearchInv
<1> QED
  BY <1>9, <1>10, <1>11 DEF LoaderInv

LEMMA ExpandKeeps == ASSUME LoaderInv, Expand PROVE LoaderInv'
<1>1. /\ phase = "expand" /\ phase' = "specify" /\ verdict' = verdict
      /\ tasks' = ResolveDependencies(ExpandMatrixTasks(tasks))
      /\ raw' = raw /\ frames' = frames /\ plan' = plan /\ path' = path /\ visited' = visited
  BY DEF Expand
<1>2. WellFormedFiles(raw) /\ Calling(raw, frames) /\ WellFormedList(tasks)
  BY DEF LoaderInv, FramesInv
<1>3. /\ \A i \in DOMAIN tasks : Parsed(tasks[i])
      /\ verdict \notin {"E004", "accepted"} /\ path = <<>> /\ visited = {}
  BY <1>1 DEF LoaderInv, VerdictInv, StageInv
<1>4. PICK mid : mid = ExpandMatrixTasks(tasks)
  OBVIOUS
<1>5. WellFormedList(mid) /\ \A i \in DOMAIN mid : Parsed(mid[i])
  BY <1>2, <1>3, <1>4, MatricesWellFormed
<1>6. PICK new : new = ResolveDependencies(mid)
  OBVIOUS
<1>7. WellFormedList(new) /\ Resolved(new) /\ \A i \in DOMAIN new : Parsed(new[i])
  BY <1>5, <1>6, ResolvedWellFormed
<1>8. tasks' = new
  BY <1>1, <1>4, <1>6
<1>9. FramesInv'
  BY <1>1, <1>2, <1>7, <1>8 DEF FramesInv
<1>10. VerdictInv'
  BY <1>1, <1>3, NoVerdict
<1>11. StageInv' /\ SearchInv'
  BY <1>1, <1>3, <1>7, <1>8 DEF StageInv, SearchInv
<1> QED
  BY <1>9, <1>10, <1>11 DEF LoaderInv

LEMMA SpecifyKeeps == ASSUME LoaderInv, Specify PROVE LoaderInv'
<1> DEFINE refusals == WatchRefusals(raw.watch) \o BreakerRefusals(raw.circuit_breaker) \o SpecRefusals(raw)
<1>1. /\ phase = "specify" /\ Settle(refusals, "validate")
      /\ plan' = <<[raw EXCEPT !.tasks = tasks]>>
      /\ raw' = raw /\ frames' = frames /\ tasks' = tasks /\ path' = path /\ visited' = visited
  BY DEF Specify
<1>2. WellFormedFiles(raw) /\ Calling(raw, frames) /\ WellFormedList(tasks)
  BY DEF LoaderInv, FramesInv
<1>3. /\ Resolved(tasks) /\ \A i \in DOMAIN tasks : Parsed(tasks[i])
      /\ verdict \notin {"E004", "accepted"} /\ path = <<>> /\ visited = {}
  BY <1>1 DEF LoaderInv, VerdictInv, StageInv
<1>4. Harmless(refusals) /\ (refusals = <<>> => BreakerCounts(raw.circuit_breaker))
  BY <1>2, SpecifyPasses DEF WellFormedFiles
<1> HIDE DEF refusals
<1>5. \/ phase' = "done" /\ verdict' \notin {"E004", "accepted"}
      \/ refusals = <<>> /\ phase' = "validate" /\ verdict' = verdict
  BY <1>1, <1>4, Settled
<1>6. FramesInv'
  <2>1. phase' # "import"
    BY <1>5
  <2> QED
    BY <1>1, <1>2, <2>1 DEF FramesInv
<1>7. VerdictInv'
  BY <1>3, <1>5, NoVerdict
<1>8. SearchInv'
  BY <1>5 DEF SearchInv
<1>9. StageInv'
  <2>1. CASE phase' = "done"
    BY <2>1, DoneStage
  <2>2. CASE phase' = "validate"
    BY <1>1, <1>3, <1>4, <1>5, <2>2 DEF StageInv
  <2> QED
    BY <1>5, <2>1, <2>2
<1> QED
  BY <1>6, <1>7, <1>8, <1>9 DEF LoaderInv
LEMMA ValidateKeeps == ASSUME LoaderInv, Validate PROVE LoaderInv'
<1>1. PICK p : p = [raw EXCEPT !.tasks = tasks]
  OBVIOUS
<1>2. phase = "validate"
  BY DEF Validate
<1>3. WellFormedFiles(raw) /\ Calling(raw, frames) /\ WellFormedList(tasks)
  BY DEF LoaderInv, FramesInv
<1>4. /\ Resolved(tasks) /\ \A i \in DOMAIN tasks : Parsed(tasks[i])
      /\ plan = <<[raw EXCEPT !.tasks = tasks]>> /\ BreakerCounts(raw.circuit_breaker)
      /\ verdict \notin {"E004", "accepted"} /\ path = <<>> /\ visited = {}
  BY <1>2 DEF LoaderInv, VerdictInv, StageInv
<1>5. plan = <<p>> /\ Loaded = p
  BY <1>1, <1>4 DEF Loaded
<1>6. p.tasks = tasks /\ "tasks" \in DOMAIN p
  <2>1. "tasks" \in DOMAIN raw
    BY <1>3, PlanNames DEF WellFormedFiles
  <2> QED
    BY <1>1, <2>1
<1>7. PICK new : new = [i \in DOMAIN tasks |-> Fresh(tasks[i])]
  OBVIOUS
<1>8. PICK q : q = [p EXCEPT !.tasks = new]
  OBVIOUS
<1>9. plan' = <<q>>
  <2>1. plan' = [plan EXCEPT ![1].tasks = [i \in DOMAIN @ |-> Fresh(@[i])]]
    BY DEF Validate
  <2>2. plan[1] = p /\ p.tasks = tasks
    BY <1>5, <1>6
  <2> QED
    BY <1>5, <1>7, <1>8, <2>1, <2>2
<1>10. /\ Settle(PlanRefusals(p), "search")
       /\ raw' = raw /\ frames' = frames /\ tasks' = tasks /\ path' = path /\ visited' = visited
  BY <1>5 DEF Validate
<1>11. Harmless(PlanRefusals(p))
  BY <1>3, <1>6, PlanHarmless DEF WellFormedList
<1>12. \/ phase' = "done" /\ verdict' \notin {"E004", "accepted"}
       \/ PlanRefusals(p) = <<>> /\ phase' = "search" /\ verdict' = verdict
  BY <1>10, <1>11, Settled
<1>13. PlanRefusals(p) = <<>> => Checked(q)
  BY <1>1, <1>3, <1>4, <1>7, <1>8, ValidatedIsChecked
<1>14. IsSeq(plan') /\ Len(plan') = 1 /\ plan'[1] = q
  <2>1. <<q>> \in Seq({q}) /\ Len(<<q>>) = 1 /\ <<q>>[1] = q
    OBVIOUS
  <2> QED
    BY <1>9, <2>1 DEF IsSeq
<1>15. FramesInv'
  <2>1. phase' # "import"
    BY <1>12
  <2> QED
    BY <1>3, <1>10, <2>1 DEF FramesInv
<1>16. VerdictInv'
  BY <1>4, <1>12, NoVerdict
<1>17. StageInv'
  <2>1. CASE phase' = "done"
    BY <2>1, DoneStage
  <2>2. CASE phase' = "search"
    BY <1>12, <1>13, <1>14, <2>2 DEF StageInv
  <2> QED
    BY <1>12, <2>1, <2>2
<1>18. SearchInv'
  BY <1>4, <1>10, SearchBegins DEF SearchInv
<1> QED
  BY <1>15, <1>16, <1>17, <1>18 DEF LoaderInv

\* During the search the plan, the files and the frames stand still.
LEMMA SearchStands ==
  ASSUME LoaderInv, phase = "search", phase' = "search", verdict' = verdict,
         raw' = raw, frames' = frames, tasks' = tasks, plan' = plan,
         Searching(plan[1].tasks, path', visited')
  PROVE  LoaderInv'
<1>1. FramesInv'
  BY DEF LoaderInv, FramesInv
<1>2. StageInv'
  BY DEF LoaderInv, StageInv
<1>3. SearchInv'
  BY DEF SearchInv, Loaded
<1>4. VerdictInv'
  BY NoVerdict DEF LoaderInv, VerdictInv
<1> QED
  BY <1>1, <1>2, <1>3, <1>4 DEF LoaderInv

\* What is known of the plan during the search.
LEMMA DuringSearch ==
  ASSUME LoaderInv, phase = "search"
  PROVE  /\ IsSeq(plan) /\ Len(plan) = 1 /\ Checked(plan[1])
         /\ WellFormedList(plan[1].tasks) /\ Graphlike(plan[1].tasks)
         /\ Searching(plan[1].tasks, path, visited)
         /\ verdict \notin {"E004", "accepted"}
<1>1. IsSeq(plan) /\ Len(plan) = 1 /\ Checked(plan[1])
  BY DEF LoaderInv, StageInv
<1>2. Searching(plan[1].tasks, path, visited)
  BY DEF LoaderInv, SearchInv, Loaded
<1>3. verdict \notin {"E004", "accepted"}
  BY DEF LoaderInv, VerdictInv
<1> QED
  BY <1>1, <1>2, <1>3 DEF Checked

LEMMA SearchFromKeeps == ASSUME LoaderInv, SearchFrom PROVE LoaderInv'
<1>1. PICK list : list = plan[1].tasks
  OBVIOUS
<1>2. /\ phase = "search" /\ path = <<>> /\ phase' = phase /\ verdict' = verdict /\ raw' = raw
      /\ frames' = frames /\ tasks' = tasks /\ plan' = plan /\ visited' = visited
  BY DEF SearchFrom
<1>3. PICK i \in DOMAIN list : path' = <<Enter(list[i].id)>>
  BY <1>1 DEF SearchFrom, Loaded
<1>4. list[i].id \in Ids(list)
  BY DEF Ids, ToSet
<1>5. Searching(list, <<>>, visited)
  BY <1>1, <1>2, DuringSearch
<1>6. Searching(list, path', visited')
  BY <1>2, <1>3, <1>4, <1>5, SearchEnters
<1> QED
  BY <1>1, <1>2, <1>6, SearchStands

LEMMA DescendKeeps == ASSUME LoaderInv, Descend PROVE LoaderInv'
<1>1. PICK list : list = plan[1].tasks
  OBVIOUS
<1>2. PICK top : top = path[Len(path)]
  OBVIOUS
<1>3. PICK rest : rest = [path EXCEPT ![Len(path)].next = @ + 1]
  OBVIOUS
<1>4. PICK dep : dep = Deps(list, top.node)[top.next]
  OBVIOUS
<1>5. \A id : Dependencies(id) = Deps(list, id)
  BY <1>1 DEF Dependencies, Deps, Loaded
<1>6. /\ phase = "search" /\ path # <<>> /\ raw' = raw /\ frames' = frames /\ tasks' = tasks
      /\ plan' = plan /\ visited' = visited
  BY DEF Descend
<1>7. top.next <= Len(Deps(list, top.node))
  BY <1>2, <1>5 DEF Descend
<1>8. /\ Settle(Refuse(dep \notin visited /\ dep \in Visiting, "E004"), "search")
      /\ path' = IF dep \in visited \cup Visiting THEN rest ELSE Append(rest, Enter(dep))
  BY <1>2, <1>3, <1>4, <1>5 DEF Descend
<1>9. /\ WellFormedList(list) /\ Graphlike(list) /\ Searching(list, path, visited)
      /\ verdict \notin {"E004", "accepted"}
  BY <1>1, <1>6, DuringSearch
<1>10. /\ dep \in visited => Searching(list, rest, visited)
       /\ Searching(list, Append(rest, Enter(dep)), visited)
  BY <1>2, <1>3, <1>4, <1>6, <1>7, <1>9, SearchAdvances
<1>11. CASE dep \notin visited /\ dep \in Visiting
  <2>1. phase' = "done" /\ verdict' = "E004"
    <3>1. Refuse(dep \notin visited /\ dep \in Visiting, "E004") = <<"E004">>
      BY <1>11 DEF Refuse
    <3>2. <<"E004">> # <<>> /\ <<"E004">>[1] = "E004"
      OBVIOUS
    <3> QED
      BY <1>8, <3>1, <3>2 DEF Settle
  <2>2. PICK j \in DOMAIN path : dep = path[j].node
    BY <1>11 DEF Visiting
  <2>3. Len(path) \in DOMAIN path /\ top \in [node : Ids(list), next : Nat \ {0}]
    BY <1>2, <1>6, <1>9, EmptyDomain, SeqDomain DEF Searching
  <2>4. top.next \in DOMAIN Deps(list, top.node)
    BY <1>7, <1>9, <2>3, DepsIn, SeqDomain
  <2>5. HasCycle(list)
    BY <1>2, <1>4, <1>9, <2>2, <2>4, PathCloses
  <2>6. VerdictInv'
    BY <1>1, <1>6, <2>1, <2>5 DEF VerdictInv, Loaded
  <2>7. FramesInv'
    BY <1>6, <2>1 DEF LoaderInv, FramesInv
  <2> QED
    BY <2>1, <2>6, <2>7, DoneStage DEF LoaderInv
<1>12. CASE ~(dep \notin visited /\ dep \in Visiting)
  <2>1. phase' = "search" /\ verdict' = verdict
    BY <1>8, <1>12 DEF Settle, Refuse
  <2>2. Searching(list, path', visited')
    <3>1. CASE dep \in visited
      BY <1>6, <1>8, <1>10, <3>1
    <3>2. CASE dep \notin visited
      BY <1>6, <1>8, <1>10, <1>12, <3>2
    <3> QED
      BY <3>1, <3>2
  <2> QED
    BY <1>1, <1>6, <2>1, <2>2, SearchStands
<1> QED
  BY <1>11, <1>12

LEMMA LeaveNodeKeeps == ASSUME LoaderInv, LeaveNode PROVE LoaderInv'
<1>1. PICK list : list = plan[1].tasks
  OBVIOUS
<1>2. PICK top : top = path[Len(path)]
  OBVIOUS
<1>3. \A id : Dependencies(id) = Deps(list, id)
  BY <1>1 DEF Dependencies, Deps, Loaded
<1>4. /\ phase = "search" /\ path # <<>> /\ phase' = phase /\ verdict' = verdict /\ raw' = raw
      /\ frames' = frames /\ tasks' = tasks /\ plan' = plan
  BY DEF LeaveNode
<1>5. /\ top.next > Len(Deps(list, top.node))
      /\ path' = Front(path) /\ visited' = visited \cup {top.node}
  BY <1>2, <1>3 DEF LeaveNode
<1>6. WellFormedList(list) /\ Graphlike(list) /\ Searching(list, path, visited)
  BY <1>1, <1>4, DuringSearch
<1>7. Searching(list, path', visited')
  BY <1>2, <1>4, <1>5, <1>6, SearchLeaves
<1> QED
  BY <1>1, <1>4, <1>7, SearchStands

LEMMA ConcludeKeeps == ASSUME LoaderInv, Conclude PROVE LoaderInv'
<1>1. PICK p : p = plan[1]
  OBVIOUS
<1>2. PICK warnings : warnings = UNION {TaskWarnings(p, t) : t \in ToSet(p.tasks)}
  OBVIOUS
<1>3. PICK q : q = [p EXCEPT !.warnings = warnings]
  OBVIOUS
<1>4. /\ phase = "search" /\ path = <<>> /\ Ids(p.tasks) \subseteq visited /\ phase' = "done"
      /\ verdict' = IF AfterSearch(p) # <<>> THEN AfterSearch(p)[1] ELSE "accepted"
      /\ plan' = [plan EXCEPT ![1].warnings = warnings]
      /\ raw' = raw /\ frames' = frames /\ tasks' = tasks
  BY <1>1, <1>2 DEF Conclude, Loaded
<1>5. /\ IsSeq(plan) /\ Len(plan) = 1 /\ Checked(p) /\ WellFormedList(p.tasks)
      /\ Searching(p.tasks, path, visited)
  BY <1>1, <1>4, DuringSearch
<1>6. IsSeq(plan') /\ Len(plan') = 1 /\ plan'[1] = q
  <2>1. 1 \in DOMAIN plan
    BY <1>5, SeqDomain
  <2>2. plan' = [plan EXCEPT ![1] = q]
    BY <1>1, <1>3, <1>4
  <2>3. LET s == [plan EXCEPT ![1] = q] IN
          IsSeq(s) /\ Len(s) = Len(plan) /\ \A j \in DOMAIN plan : s[j] = IF j = 1 THEN q ELSE plan[j]
    BY <1>5, <2>1, ExceptIsSeq
  <2> QED
    BY <1>5, <2>1, <2>2, <2>3
<1>7. IsSeq(p.tasks) /\ Harmless(AfterSearch(p))
  BY <1>5, PlanHarmless DEF WellFormedList
<1>8. Checked(q) /\ q.tasks = p.tasks /\ (Isolated(p) => Isolated(q))
  BY <1>3, <1>5, WarningsApart
<1>9. ~HasCycle(q.tasks)
  BY <1>4, <1>5, <1>8, SearchEnds
<1>10. verdict' # "E004"
  <2>1. AfterSearch(p) # <<>> => 1 \in DOMAIN AfterSearch(p)
    BY <1>7, SeqDomain, EmptyDomain DEF Harmless
  <2> QED
    BY <1>4, <1>7, <2>1 DEF Harmless
<1>11. verdict' = "accepted" => Isolated(q)
  <2>1. AfterSearch(p) # <<>> => 1 \in DOMAIN AfterSearch(p)
    BY <1>7, SeqDomain, EmptyDomain DEF Harmless
  <2>2. verdict' = "accepted" => AfterSearch(p) = <<>>
    BY <1>4, <1>7, <2>1 DEF Harmless
  <2>3. AfterSearch(p) = <<>> => Isolated(p)
    BY <1>7, AfterSearchPasses
  <2> QED
    BY <1>8, <2>2, <2>3
<1>12. VerdictInv'
  BY <1>4, <1>6, <1>8, <1>9, <1>10, <1>11 DEF VerdictInv
<1>13. FramesInv'
  BY <1>4 DEF LoaderInv, FramesInv
<1> QED
  BY <1>4, <1>12, <1>13, DoneStage DEF LoaderInv

LEMMA StaysPut == ASSUME LoaderInv, UNCHANGED vars PROVE LoaderInv'
<1>1. /\ raw' = raw /\ phase' = phase /\ verdict' = verdict /\ frames' = frames /\ seen' = seen
      /\ tasks' = tasks /\ plan' = plan /\ path' = path /\ visited' = visited
  BY DEF vars
<1>2. FramesInv' /\ StageInv'
  BY <1>1 DEF LoaderInv, FramesInv, StageInv
<1>3. SearchInv' /\ VerdictInv'
  BY <1>1 DEF LoaderInv, SearchInv, VerdictInv, Loaded
<1> QED
  BY <1>2, <1>3 DEF LoaderInv

-----------------------------------------------------------------------------
(* The theorems.                                                           *)

\* The invariant: files and tasks keep their shape through imports, matrices and
\* resolution; what each stage has established holds until the verdict; the
\* search knows which nodes no circle reaches.  (load_plan and validate_plan.)
THEOREM LoaderInvariant == Spec => []LoaderInv
<1>1. Init => LoaderInv
  BY InitHolds
<1>2. LoaderInv /\ [Next]_vars => LoaderInv'
  <2> SUFFICES ASSUME LoaderInv, [Next]_vars PROVE LoaderInv'
    OBVIOUS
  <2>1. CASE ReadPlan
    BY <2>1, ReadPlanKeeps
  <2>2. CASE Import
    BY <2>2, ImportKeeps
  <2>3. CASE Splice
    BY <2>3, SpliceKeeps
  <2>4. CASE Parse
    BY <2>4, ParseKeeps
  <2>5. CASE Expand
    BY <2>5, ExpandKeeps
  <2>6. CASE Specify
    BY <2>6, SpecifyKeeps
  <2>7. CASE Validate
    BY <2>7, ValidateKeeps
  <2>8. CASE SearchFrom
    BY <2>8, SearchFromKeeps
  <2>9. CASE Descend
    BY <2>9, DescendKeeps
  <2>10. CASE LeaveNode
    BY <2>10, LeaveNodeKeeps
  <2>11. CASE Conclude
    BY <2>11, ConcludeKeeps
  <2>12. CASE UNCHANGED vars
    BY <2>12, StaysPut
  <2> QED
    BY <2>1, <2>2, <2>3, <2>4, <2>5, <2>6, <2>7, <2>8, <2>9, <2>10, <2>11, <2>12 DEF Next
<1> QED
  BY <1>1, <1>2, PTL DEF Spec

\* The depth-first search of validate_plan refuses the plans in which some tasks
\* wait for each other in a circle, whatever the graph, and accepts no other.
THEOREM CyclesAreRefused == Spec => []SearchIsExact
<1>1. LoaderInv => SearchIsExact
  BY DEF LoaderInv, VerdictInv, SearchIsExact, Accepted, Loaded
<1> QED
  BY <1>1, LoaderInvariant, PTL
\* A plan that load_plan accepts is one the scheduler can run: its names are
\* unique, its tasks wait for everything they read, consume or reconcile, and its
\* limits can be met.
THEOREM AcceptedPlansRun == Spec => []AcceptedIsRunnable
<1>1. ASSUME LoaderInv, Accepted PROVE AcceptedIsRunnable
  <2>1. PICK p : p = plan[1]
    OBVIOUS
  <2>2. Checked(p) /\ Isolated(p)
    BY <1>1, <2>1 DEF LoaderInv, VerdictInv, Accepted
  <2>3. PICK list : list = p.tasks
    OBVIOUS
  <2>4. Graphlike(list) /\ \A i \in DOMAIN list : SaneTask(list[i])
    BY <2>2, <2>3 DEF Checked
  <2>5. \A i, k \in DOMAIN list : i # k => list[i].id # list[k].id
    BY <2>4 DEF Graphlike
  <2>6. ASSUME NEW t \in ToSet(list)
        PROVE  /\ ToSet(t.depends_on) \subseteq Ids(list)
               /\ \A c \in ToSet(t.context_from) \ {Everyone} : Depends(t, c)
               /\ \A r \in t.when : Plain(r) => Depends(t, r)
               /\ \A c \in ToSet(t.consumes_contracts) : Depends(t, c)
               /\ \A u \in ToSet(list) \ {t} :
                     ToSet(u.consistency_group) \cap ToSet(t.reconcile_after) # {}
                         => Depends(t, u.id)
    <3>1. PICK i \in DOMAIN list : t = list[i]
      BY DEF ToSet
    <3>2. Waits(list, i)
      BY <2>4 DEF Graphlike
    <3>3. ASSUME NEW u \in ToSet(list) \ {t}, Shares(u, t) PROVE Depends(t, u.id)
      <4>1. PICK k \in DOMAIN list : u = list[k]
        BY DEF ToSet
      <4>2. k # i
        BY <3>1, <4>1
      <4> QED
        BY <3>1, <3>2, <3>3, <4>1, <4>2 DEF Waits
    <3> QED
      BY <3>1, <3>2, <3>3 DEF Waits, Shares
  <2>7. ASSUME NEW t \in ToSet(list)
        PROVE  /\ t.max_retries \in {"none", "zero", "tiny", "number", "flag"}
               /\ Cardinality(Types(t)) = 1
               /\ t.fallback_engine # "none" => t.engine # "none"
               /\ t.judge.self # "none" /\ t.judge.quorum_strategy # "none"
                     => Count(t.judge.quorum) >= 2
               /\ t.worktree => ~NoText(p.workspace_root)
               /\ t.worktree /\ t.engine = "none" => t.group = "blank" \/ Falsy(t.command)
               /\ t.dynamic_group => ~t.cache
    <3>1. PICK i \in DOMAIN list : t = list[i]
      BY DEF ToSet
    <3>2. SaneTask(t)
      BY <2>4, <3>1
    <3>3. /\ t.worktree => ~NoText(p.workspace_root)
          /\ t.worktree /\ t.engine = "none" => t.group = "blank" \/ Falsy(t.command)
      BY <2>2, <2>3, <3>1 DEF Isolated
    <3>4. t.dynamic_group => ~t.cache
      BY <2>2, <2>3, <3>1 DEF Checked
    <3> QED
      BY <3>2, <3>3, <3>4 DEF SaneTask
  <2>8. /\ Count(p.max_parallel) >= 1
        /\ p.circuit_breaker.self # "none" => Count(p.circuit_breaker.max_total_failures) >= 1
        /\ p.watch.self # "none" => WarmUp(p.watch) \in 0 .. Count(p.watch.max_iterations) - 1
    BY <2>2 DEF Checked, Isolated, BreakerCounts
  <2>9. Loaded = p /\ Loaded.tasks = list
    BY <2>1, <2>3 DEF Loaded
  <2> QED
    BY <2>5, <2>6, <2>7, <2>8, <2>9 DEF AcceptedIsRunnable
<1>2. LoaderInv => AcceptedIsRunnable
  BY <1>1 DEF AcceptedIsRunnable
<1> QED
  BY <1>2, LoaderInvariant, PTL

-----------------------------------------------------------------------------
(* The dependencies between the files and the plan.                        *)

LEMMA SeqIsFunction ==
  ASSUME NEW s, IsSeq(s) PROVE s = [i \in 1 .. Len(s) |-> s[i]]
BY DEF IsSeq

LEMMA SameSeq ==
  ASSUME NEW s, NEW t, IsSeq(s), IsSeq(t), Len(s) = Len(t), \A i \in 1 .. Len(s) : s[i] = t[i]
  PROVE  s = t
<1>1. s = [i \in 1 .. Len(s) |-> s[i]] /\ t = [i \in 1 .. Len(s) |-> t[i]]
  BY SeqIsFunction
<1> QED
  BY <1>1

\* A cell so far, with a value of one more dimension, is one of the cells.
LEMMA CrossedElements ==
  ASSUME NEW cells, IsSeq(cells), NEW d, IsSeq(d.values), NEW cell \in ToSet(cells), NEW k \in DOMAIN d.values
  PROVE  Append(cell, <<d.key, Sanitize[d.values[k]]>>) \in ToSet(Crossed(cells, d))
<1> DEFINE With(c) == [n \in DOMAIN d.values |-> Append(c, <<d.key, Sanitize[d.values[n]]>>)]
           each == [i \in DOMAIN cells |-> With(cells[i])]
<1>1. \A c : IsSeq(With(c))
  BY MapIsSeq
<1>2. Append(cell, <<d.key, Sanitize[d.values[k]]>>) \in ToSet(With(cell))
  BY DEF ToSet
<1>3. Crossed(cells, d) = FlattenSeq(each)
  BY DEF Crossed, InTurn
<1> HIDE DEF With
<1>4. IsSeq(each) /\ DOMAIN each = DOMAIN cells /\ \A i \in DOMAIN each : IsSeq(each[i])
  BY <1>1, MapIsSeq
<1>5. PICK i \in DOMAIN cells : cell = cells[i]
  BY DEF ToSet
<1>6. each[i] = With(cell)
  BY <1>5
<1> HIDE DEF each
<1>7. ToSet(FlattenSeq(each)) = UNION {ToSet(each[n]) : n \in DOMAIN each}
  BY <1>4, FlattenElements
<1> QED
  BY <1>2, <1>3, <1>4, <1>5, <1>6, <1>7

\* Every choice of a value for each dimension is a cell of the matrix.
LEMMA CellElements ==
  ASSUME NEW x, IsSeq(x.dims), \A n \in DOMAIN x.dims : IsSeq(x.dims[n].values), NEW c \in Cell(x)
  PROVE  [i \in DOMAIN c |-> <<x.dims[i].key, Sanitize[c[i]]>>] \in ToSet(Cells(x))
<1> DEFINE N == Len(x.dims)
           cells == CHOOSE g : CellsFit(x, g, N)
           Part(m) == [i \in 1 .. m |-> <<x.dims[i].key, Sanitize[c[i]]>>]
           Upto == {m \in Nat : m <= N => IsSeq(cells[m]) /\ Part(m) \in ToSet(cells[m])}
<1>1. N \in Nat /\ DOMAIN x.dims = 1 .. N
  BY SeqDomain
<1>2. CellsFit(x, cells, N)
  BY <1>1, CellsExist
<1>3. Cells(x) = cells[N]
  BY DEF Cells, CellsFit
<1> HIDE DEF cells
<1>4. \A m \in 0 .. N : cells[m] = IF m = 0 THEN <<(<<>>)>> ELSE Crossed(cells[m - 1], x.dims[m])
  BY <1>2 DEF CellsFit
<1>5. DOMAIN c = 1 .. N /\ \A i \in 1 .. N : c[i] \in ToSet(x.dims[i].values)
  BY <1>1 DEF Cell
<1>6. \A m \in Nat : IsSeq(Part(m)) /\ Len(Part(m)) = m
  <2> SUFFICES ASSUME NEW m \in Nat PROVE IsSeq(Part(m)) /\ Len(Part(m)) = m
    OBVIOUS
  <2>1. Part(m) = [i \in 1 .. m |-> Part(m)[i]]
    OBVIOUS
  <2> HIDE DEF Part
  <2> QED
    BY <2>1, DomainIsSeq
<1>7. 0 \in Upto
  <2>1. <<(<<>>)>> \in Seq({<<>>}) /\ ToSet(<<(<<>>)>>) = {<<>>}
    BY DEF ToSet
  <2>2. cells[0] = <<(<<>>)>>
    BY <1>1, <1>4
  <2>3. Part(0) = <<>>
    BY <1>6, EmptyDomain
  <2> QED
    BY <2>1, <2>2, <2>3 DEF IsSeq
<1>8. ASSUME NEW m \in Nat, m \in Upto PROVE m + 1 \in Upto
  <2> SUFFICES ASSUME m + 1 <= N
               PROVE  IsSeq(cells[m + 1]) /\ Part(m + 1) \in ToSet(cells[m + 1])
    OBVIOUS
  <2>1. m + 1 \in DOMAIN x.dims /\ m + 1 \in 0 .. N /\ m + 1 # 0 /\ (m + 1) - 1 = m /\ m <= N
    BY <1>1
  <2>2. PICK d : d = x.dims[m + 1]
    OBVIOUS
  <2>3. cells[m + 1] = Crossed(cells[m], d) /\ IsSeq(d.values) /\ IsSeq(cells[m]) /\ Part(m) \in ToSet(cells[m])
    BY <1>4, <1>8, <2>1, <2>2
  <2>4. PICK k \in DOMAIN d.values : c[m + 1] = d.values[k]
    BY <1>1, <1>5, <2>1, <2>2 DEF ToSet
  <2>5. PICK e : e = <<d.key, Sanitize[c[m + 1]]>>
    OBVIOUS
  <2>6. PICK more : more = Append(Part(m), e)
    OBVIOUS
  <2>7. more \in ToSet(Crossed(cells[m], d))
    BY <2>3, <2>4, <2>5, <2>6, CrossedElements
  <2>8. /\ \A i \in 1 .. m : Part(m + 1)[i] = Part(m)[i]
        /\ Part(m + 1)[m + 1] = e
    BY <2>2, <2>5
  <2> HIDE DEF Part
  <2>9. IsSeq(more) /\ Len(more) = m + 1 /\ (\A i \in 1 .. m : more[i] = Part(m)[i]) /\ more[m + 1] = e
    BY <1>6, <2>6, AppendSeq
  <2>10. \A i \in 1 .. m + 1 : Part(m + 1)[i] = more[i]
    BY <2>8, <2>9
  <2>11. Part(m + 1) = more
    BY <1>6, <2>9, <2>10, SameSeq
  <2> QED
    BY <2>3, <2>7, <2>11, CrossedIsSeq
<1>9. Nat \subseteq Upto
  <2> HIDE DEF Upto
  <2> QED
    BY <1>7, <1>8, SetInduction
<1>10. Part(N) \in ToSet(cells[N])
  BY <1>1, <1>9
<1> QED
  BY <1>3, <1>5, <1>10

\* A task of the expansion for each of the names its cells get.
LEMMA OffspringElements ==
  ASSUME NEW t, WellFormed(t), NEW a \in Offspring(t)
  PROVE  \E y \in ToSet(Children(t)) : y.id = a /\ y.depends_on = t.depends_on /\ WellFormed(y)
<1>1. CASE t.matrix.self = "none"
  <2>1. Children(t) = <<t>> /\ a = t.id
    BY <1>1 DEF Children, Offspring
  <2>2. t \in ToSet(<<t>>)
    BY DEF ToSet
  <2> QED
    BY <2>1, <2>2
<1>2. CASE t.matrix.self # "none"
  <2> DEFINE x == t.matrix
             cells == Cells(x)
  <2>1. IsSeq(x.dims) /\ \A n \in DOMAIN x.dims : IsSeq(x.dims[n].values)
    BY WellFormedFields
  <2>2. PICK c \in Cell(x) :
          a = [t.id EXCEPT !.cell = [i \in DOMAIN c |-> <<x.dims[i].key, Sanitize[c[i]]>>]]
    BY <1>2 DEF Offspring
  <2>3. PICK cell : cell = [i \in DOMAIN c |-> <<x.dims[i].key, Sanitize[c[i]]>>]
    OBVIOUS
  <2>4. cell \in ToSet(Cells(x))
    BY <2>1, <2>3, CellElements
  <2>5. PICK n \in DOMAIN cells : cell = cells[n]
    BY <2>4 DEF ToSet
  <2>6. Children(t) = [i \in DOMAIN cells |-> Child(t, cells[i])]
    BY <1>2 DEF Children
  <2>7. Child(t, cell) \in ToSet(Children(t))
    BY <2>5, <2>6 DEF ToSet
  <2>8. "id" \in DOMAIN t /\ "depends_on" \in DOMAIN t
    BY WellFormedFields DEF Names
  <2>9. Child(t, cell).id = [t.id EXCEPT !.cell = cell] /\ Child(t, cell).depends_on = t.depends_on
    BY <2>8 DEF Child
  <2>10. WellFormed(Child(t, cell))
    BY ChildWellFormed
  <2> QED
    BY <2>2, <2>3, <2>7, <2>9, <2>10
<1> QED
  BY <1>1, <1>2

\* A name stands for all the children of the task it is the name of.
LEMMA ExpandedElements ==
  ASSUME NEW list, WellFormedList(list), NEW u,
         \E y \in ToSet(list) : y.id = u.id /\ y.matrix = u.matrix,
         \A y \in ToSet(list) : y.id = u.id /\ y.matrix.self # "none" => y.matrix = u.matrix,
         NEW b \in Offspring(u)
  PROVE  b \in ToSet(Expanded(u.id, list))
<1> DEFINE owners == {i \in DOMAIN list : list[i].id = u.id /\ list[i].matrix.self # "none"}
           children == Children(list[Max(owners)])
           ids == [i \in DOMAIN children |-> children[i].id]
<1>1. Expanded(u.id, list) = IF owners = {} THEN <<u.id>> ELSE ids
  BY DEF Expanded
<1>2. CASE owners = {}
  <2>1. u.matrix.self = "none"
    BY <1>2 DEF ToSet
  <2>2. b = u.id
    BY <2>1 DEF Offspring
  <2>3. b \in ToSet(<<b>>)
    BY DEF ToSet
  <2> QED
    BY <1>1, <1>2, <2>2, <2>3
<1>3. CASE owners # {}
  <2>1. Len(list) \in Nat /\ owners \subseteq 0 .. Len(list)
    BY SeqDomain DEF WellFormedList
  <2>2. \E m \in owners : \A k \in owners : k <= m
    BY <1>3, <2>1, GreatestNumber
  <2>3. \E m \in owners : \A k \in owners : m >= k
    BY <2>1, <2>2
  <2>4. Max(owners) \in owners
    BY <2>3 DEF Max
  <2>5. PICK w : w = list[Max(owners)]
    OBVIOUS
  <2>6. WellFormed(w) /\ w.id = u.id /\ w.matrix = u.matrix
    BY <2>4, <2>5 DEF WellFormedList, ToSet
  <2>7. b \in Offspring(w)
    BY <2>6 DEF Offspring
  <2>8. PICK y \in ToSet(Children(w)) : y.id = b
    BY <2>6, <2>7, OffspringElements
  <2>9. PICK n \in DOMAIN children : y = children[n]
    BY <2>5, <2>8 DEF ToSet
  <2> HIDE DEF children, owners
  <2>10. ids[n] = b /\ n \in DOMAIN ids
    BY <2>8, <2>9
  <2> QED
    BY <1>1, <1>3, <2>10 DEF ToSet
<1> QED
  BY <1>2, <1>3

\* What a task waits for, its children wait for, with every child of it.
LEMMA ExpansionWaits ==
  ASSUME NEW list, WellFormedList(list), NEW new, new = ExpandMatrixTasks(list),
         NEW x \in ToSet(list), NEW d \in ToSet(x.depends_on), NEW a \in Offspring(x),
         NEW b \in ToSet(Expanded(d, list))
  PROVE  \E v \in ToSet(new) : v.id = a /\ Depends(v, b)
<1> DEFINE each == [i \in DOMAIN list |-> Children(list[i])]
           flat == FlattenSeq(each)
           All(ids) == FlattenSeq([n \in DOMAIN ids |-> Expanded(ids[n], list)])
<1>1. new = [i \in DOMAIN flat |-> [flat[i] EXCEPT !.depends_on = All(@), !.context_from = All(@)]]
  BY DEF ExpandMatrixTasks, InTurn
<1>2. \A i \in DOMAIN list : WellFormed(list[i])
  BY DEF WellFormedList
<1>3. IsSeq(each) /\ \A i \in DOMAIN each : IsSeq(each[i])
  BY <1>2, ChildrenWellFormed, MapIsSeq DEF WellFormedList
<1>4. PICK i \in DOMAIN list : x = list[i]
  BY DEF ToSet
<1>5. PICK y \in ToSet(Children(x)) : y.id = a /\ y.depends_on = x.depends_on /\ WellFormed(y)
  BY <1>2, <1>4, OffspringElements
<1>6. y \in ToSet(each[i]) /\ i \in DOMAIN each
  BY <1>4, <1>5
<1> HIDE DEF each
<1>7. ToSet(flat) = UNION {ToSet(each[k]) : k \in DOMAIN each}
  BY <1>3, FlattenElements
<1>8. y \in ToSet(flat)
  BY <1>6, <1>7
<1> HIDE DEF flat
<1>9. PICK k \in DOMAIN flat : y = flat[k]
  BY <1>8 DEF ToSet
<1>10. b \in ToSet(All(y.depends_on))
  <2> DEFINE parts == [n \in DOMAIN y.depends_on |-> Expanded(y.depends_on[n], list)]
  <2>1. IsSeq(y.depends_on)
    BY <1>5, WellFormedFields DEF Listed
  <2>2. IsSeq(parts) /\ \A n \in DOMAIN parts : IsSeq(parts[n])
    BY <2>1, MapIsSeq, ExpandedIsSeq
  <2>3. PICK n \in DOMAIN y.depends_on : d = y.depends_on[n]
    BY <1>5 DEF ToSet
  <2>4. n \in DOMAIN parts /\ parts[n] = Expanded(d, list)
    BY <2>3
  <2> HIDE DEF parts
  <2>5. ToSet(FlattenSeq(parts)) = UNION {ToSet(parts[m]) : m \in DOMAIN parts}
    BY <2>2, FlattenElements
  <2>6. b \in ToSet(FlattenSeq(parts))
    BY <2>4, <2>5
  <2> QED
    BY <2>6 DEF parts
<1> HIDE DEF All
<1>11. "depends_on" \in DOMAIN y /\ "id" \in DOMAIN y
  BY <1>5, WellFormedFields DEF Names
<1>12. new[k].depends_on = All(y.depends_on) /\ new[k].id = a /\ k \in DOMAIN new
  BY <1>1, <1>5, <1>9, <1>11
<1>13. new[k] \in ToSet(new)
  BY <1>12 DEF ToSet
<1> QED
  BY <1>10, <1>12, <1>13 DEF Depends

\* Resolving contracts and groups takes no dependency away.
LEMMA ResolutionWaits ==
  ASSUME NEW list, WellFormedList(list), NEW new, new = ResolveDependencies(list),
         NEW w \in ToSet(list), NEW b, Depends(w, b)
  PROVE  \E v \in ToSet(new) : v.id = w.id /\ Depends(v, b)
<1>1. PICK i \in DOMAIN list : w = list[i]
  BY DEF ToSet
<1>2. WellFormed(w)
  BY <1>1 DEF WellFormedList
<1> DEFINE ids == w.depends_on \o Implied(list, w)
<1>3. IsSeq(w.depends_on) /\ IsSeq(Implied(list, w)) /\ Names \subseteq DOMAIN w
  BY <1>2, ImpliedElements, WellFormedFields DEF Listed
<1>4. IsSeq(ids) /\ ToSet(ids) = ToSet(w.depends_on) \cup ToSet(Implied(list, w))
  BY <1>3, ConcatSeq, ConcatElements
<1>5. new[i] = [w EXCEPT !.depends_on = Once(ids)] /\ i \in DOMAIN new
  BY <1>1 DEF ResolveDependencies
<1> HIDE DEF ids
<1>6. new[i].depends_on = Once(ids) /\ new[i].id = w.id
  BY <1>3, <1>5 DEF Names
<1>7. ToSet(Once(ids)) = ToSet(ids)
  BY <1>4, OnceElements
<1>8. Depends(new[i], b)
  BY <1>4, <1>6, <1>7 DEF Depends
<1>9. new[i] \in ToSet(new)
  BY <1>5 DEF ToSet
<1> QED
  BY <1>6, <1>8, <1>9

\* What the imports have collected: the tasks of every entry that no call is still
\* before, each as its import makes it, and nothing else.
Brought(e, t) == Overridden(Prefixed(e.prefix, t), e.overrides)
Past(q, f, i) == \A k \in DOMAIN q : q[k].file = f => i < q[k].next
Chained(r, q, reached) ==
  \A k \in DOMAIN q :
     /\ q[k].file \in reached
     /\ k > 1 => q[k].file = ImportsIn(r, q[k - 1].file).entries[q[k - 1].next].path
Collected(r, q, reached, list) ==
  /\ \A f \in reached : \A i \in DOMAIN ImportsIn(r, f).entries :
        Past(q, f, i) =>
          \A t \in ToSet(r.files[ImportsIn(r, f).entries[i].path].tasks) :
             Brought(ImportsIn(r, f).entries[i], t) \in ToSet(list)
  /\ \A x \in ToSet(list) : \E f \in reached : \E e \in ToSet(ImportsIn(r, f).entries) :
        \E t \in ToSet(r.files[e.path].tasks) : x = Brought(e, t)

\* What a task of a file has become in the list of all: its name, its matrix, what
\* it waits for.
Became(s, t, x) ==
  /\ x.id = InPlan(s, t).id /\ x.matrix = InPlan(s, t).matrix
  /\ DOMAIN s.overrides \cap {"id", "depends_on"} = {} =>
       \A u \in ToSet(s.tasks) :
          u.id \in ToSet(t.depends_on) /\ u.id.pre = <<>> => Depends(x, InPlan(s, u).id)
Gathered(sources, list) ==
  /\ \A s \in sources : \A t \in ToSet(s.tasks) : \E x \in ToSet(list) : Became(s, t, x)
  /\ \A x \in ToSet(list) : \E s \in sources : \E t \in ToSet(s.tasks) : Became(s, t, x)

Reached == seen \cup {"main"}
EdgesInv ==
  /\ \A t \in ToSet(raw.tasks) : IsName(t.id)
  /\ phase = "read" => seen = {} /\ tasks = <<>>
  /\ phase = "import" => /\ Chained(raw, frames, Reached) /\ Collected(raw, frames, Reached, tasks)
                         /\ seen \subseteq DOMAIN raw.files
  /\ phase = "expand" => Gathered(Sources, tasks)
  /\ phase \in {"specify", "validate"} => EdgesIn(Sources, tasks)
  /\ phase \in {"read", "import", "expand", "specify"} => plan = <<>>
  /\ phase \in {"search", "done"} /\ plan # <<>> => EdgesIn(Sources, Loaded.tasks)

LEMMA OneMore ==
  ASSUME NEW n \in Nat, NEW s, NEW t, s = 1 .. n, t = 1 .. n + 1
  PROVE  s \subseteq t /\ n + 1 \in t
OBVIOUS

LEMMA CollectingBegins ==
  ASSUME NEW r, WellFormedFiles(r), NEW q, q = <<[file |-> "main", next |-> 1]>>
  PROVE  Chained(r, q, {"main"}) /\ Collected(r, q, {"main"}, <<>>)
<1>1. DOMAIN q = {1} /\ q[1].file = "main" /\ q[1].next = 1
  OBVIOUS
<1>2. IsSeq(ImportsIn(r, "main").entries)
  BY DEF WellFormedFiles
<1>3. \A i \in DOMAIN ImportsIn(r, "main").entries : ~Past(q, "main", i)
  BY <1>1, <1>2, SeqDomain DEF Past
<1>4. ToSet(<<>>) = {}
  BY EmptyIsSeq DEF ToSet
<1> QED
  BY <1>1, <1>3, <1>4 DEF Chained, Collected

\* A call is pushed: nothing of the file it reads is collected yet.
LEMMA CollectingPushes ==
  ASSUME NEW r, WellFormedFiles(r), NEW q, Calling(r, q), q # <<>>, NEW reached, NEW list,
         Chained(r, q, reached), Collected(r, q, reached, list),
         NEW path_, path_ = ImportsIn(r, q[Len(q)].file).entries[q[Len(q)].next].path,
         path_ \in DOMAIN r.files,
         NEW more, more = Append(q, [file |-> path_, next |-> 1])
  PROVE  Chained(r, more, reached \cup {path_}) /\ Collected(r, more, reached \cup {path_}, list)
<1>1. PICK n : n = Len(q)
  OBVIOUS
<1>2. PICK frame : frame = [file |-> path_, next |-> 1]
  OBVIOUS
<1>3. n \in Nat /\ DOMAIN q = 1 .. n /\ n \in DOMAIN q
  BY <1>1, SeqDomain, EmptyDomain DEF Calling
<1>4. /\ DOMAIN more = 1 .. n + 1
      /\ (\A i \in DOMAIN q : more[i] = q[i]) /\ more[n + 1] = frame
  BY <1>1, <1>2, <1>3, AppendedIsSeq DEF Calling
<1>5. frame.file = path_ /\ frame.next = 1
  BY <1>2
<1>6. ASSUME NEW k \in DOMAIN more
      PROVE  /\ more[k].file \in reached \cup {path_}
             /\ k > 1 => more[k].file = ImportsIn(r, more[k - 1].file).entries[more[k - 1].next].path
  <2>1. CASE k \in DOMAIN q
    <3>1. k > 1 => k - 1 \in DOMAIN q
      BY <1>3, <2>1
    <3> QED
      BY <1>4, <2>1, <3>1 DEF Chained
  <2>2. CASE k = n + 1
    <3>1. k - 1 = n
      BY <1>3, <2>2
    <3>2. more[n] = q[n]
      BY <1>3, <1>4
    <3>3. more[k] = frame
      BY <1>4, <2>2
    <3> QED
      BY <1>1, <1>5, <3>1, <3>2, <3>3
  <2>3. k \in DOMAIN q \/ k = n + 1
    <3>1. k \in 1 .. n + 1
      BY <1>4
    <3> QED
      BY <1>3, <3>1
  <2> QED
    BY <2>1, <2>2, <2>3
<1>7. \A f, i : Past(more, f, i) => Past(q, f, i)
  <2>1. \A k \in DOMAIN q : k \in DOMAIN more
    BY <1>3, <1>4, OneMore, Zenon
  <2> QED
    BY <1>4, <2>1 DEF Past
<1>8. \A i \in DOMAIN ImportsIn(r, path_).entries : ~Past(more, path_, i)
  <2>1. IsSeq(ImportsIn(r, path_).entries)
    BY DEF WellFormedFiles
  <2>2. \A i \in DOMAIN ImportsIn(r, path_).entries : ~(i < 1)
    <3>1. PICK s : s = ImportsIn(r, path_).entries
      OBVIOUS
    <3>2. Len(s) \in Nat /\ DOMAIN s = 1 .. Len(s)
      BY <2>1, <3>1, SeqDomain
    <3>3. \A i \in 1 .. Len(s) : ~(i < 1)
      BY <3>2
    <3> QED
      BY <3>1, <3>2, <3>3
  <2>3. n + 1 \in DOMAIN more
    BY <1>3, <1>4, OneMore, Zenon
  <2> QED
    BY <1>4, <1>5, <2>2, <2>3 DEF Past
<1> QED
  BY <1>6, <1>7, <1>8 DEF Chained, Collected

\* The call on top returns: its caller goes on to the next entry.
Returned(q) == [Front(q) EXCEPT ![Len(q) - 1].next = @ + 1]
Advances(r, q, n, new) ==
  /\ DOMAIN q = 1 .. n + 1 /\ DOMAIN new = 1 .. n
  /\ \A i \in 1 .. n : i # n => new[i] = q[i]
  /\ new[n].file = q[n].file /\ new[n].next = q[n].next + 1
  /\ q[n].file \in DOMAIN r.files \cup {"main"} /\ q[n].next \in Nat \ {0}
  /\ q[n].next \in DOMAIN ImportsIn(r, q[n].file).entries
  /\ q[n + 1].file \in DOMAIN r.files /\ q[n + 1].next \in Nat \ {0}
LEMMA CallerAdvances ==
  ASSUME NEW r, NEW q, Calling(r, q), Len(q) > 1, NEW n, n = Len(q) - 1,
         NEW new, new = Returned(q)
  PROVE  Advances(r, q, n, new)
<1>1. PICK f : f = Front(q)
  OBVIOUS
<1>2. IsSeq(q) /\ n \in Nat \ {0} /\ Len(q) = n + 1
  BY SeqDomain DEF Calling
<1>3. DOMAIN q = 1 .. n + 1 /\ q # <<>>
  BY <1>2, SeqDomain, EmptyIsSeq
<1>4. (n + 1) - 1 = n /\ n < n + 1 /\ n + 1 > 1 /\ n \in 1 .. n /\ n \in 1 .. n + 1 /\ n + 1 \in 1 .. n + 1
  BY <1>2
<1>5. IsSeq(f) /\ DOMAIN f = 1 .. n /\ \A i \in DOMAIN f : f[i] = q[i]
  BY <1>1, <1>2, <1>3, <1>4, FrontIsSeq
<1>6. /\ \A i \in DOMAIN q : q[i] \in [file : DOMAIN r.files \cup {"main"}, next : Nat \ {0}]
      /\ \A i \in DOMAIN q : i > 1 => q[i].file \in DOMAIN r.files
      /\ \A i \in DOMAIN q : i < n + 1 => q[i].next \in DOMAIN ImportsIn(r, q[i].file).entries
  BY <1>2 DEF Calling
<1>7. PICK caller : caller = q[n]
  OBVIOUS
<1>8. PICK e : e = [caller EXCEPT !.next = @ + 1]
  OBVIOUS
<1>9. caller \in [file : DOMAIN r.files \cup {"main"}, next : Nat \ {0}]
  BY <1>3, <1>4, <1>6, <1>7, Zenon
<1>10. e.file = caller.file /\ e.next = caller.next + 1
  BY <1>8, <1>9
<1>11. f[n] = caller
  BY <1>4, <1>5, <1>7
<1>12. new = [f EXCEPT ![n] = e]
  BY <1>1, <1>8, <1>11 DEF Returned
<1>13. DOMAIN new = 1 .. n /\ new[n] = e /\ \A i \in 1 .. n : i # n => new[i] = q[i]
  BY <1>4, <1>5, <1>12
<1>14. /\ q[n].next \in DOMAIN ImportsIn(r, q[n].file).entries /\ q[n + 1].file \in DOMAIN r.files
       /\ q[n + 1] \in [file : DOMAIN r.files \cup {"main"}, next : Nat \ {0}]
  BY <1>3, <1>4, <1>6, Zenon
<1> QED
  BY <1>3, <1>7, <1>9, <1>10, <1>13, <1>14 DEF Advances

\* A call returns: its tasks are added, and its caller goes on to the next entry.
Splicing(r, q) == ImportsIn(r, q[Len(q) - 1].file).entries[q[Len(q) - 1].next]
Spliced(r, q) == [i \in DOMAIN r.files[q[Len(q)].file].tasks |->
                    Brought(Splicing(r, q), r.files[q[Len(q)].file].tasks[i])]
LEMMA CollectingReturns ==
  ASSUME NEW r, WellFormedFiles(r), NEW q, Calling(r, q), Len(q) > 1, NEW reached, NEW list, IsSeq(list),
         Chained(r, q, reached), Collected(r, q, reached, list),
         q[Len(q)].next > Len(ImportsIn(r, q[Len(q)].file).entries)
  PROVE  Chained(r, Returned(q), reached) /\ Collected(r, Returned(q), reached, list \o Spliced(r, q))
<1> SUFFICES ASSUME NEW imp, imp = ImportsIn(r, q[Len(q) - 1].file).entries[q[Len(q) - 1].next],
                    NEW own, own = r.files[q[Len(q)].file].tasks,
                    NEW added, added = [i \in DOMAIN own |-> Brought(imp, own[i])],
                    NEW new, new = Returned(q)
             PROVE  Chained(r, new, reached) /\ Collected(r, new, reached, list \o added)
  BY Zenon DEF Splicing, Spliced
<1>1. PICK n : n = Len(q) - 1
  OBVIOUS
<1>2. PICK caller : caller = q[n]
  OBVIOUS
<1>3. IsSeq(q) /\ n \in Nat \ {0} /\ Len(q) = n + 1
  BY <1>1, SeqDomain DEF Calling
<1>4. /\ DOMAIN q = 1 .. n + 1 /\ DOMAIN new = 1 .. n
      /\ \A i \in 1 .. n : i # n => new[i] = q[i]
      /\ new[n].file = caller.file /\ new[n].next = caller.next + 1
      /\ caller.file \in DOMAIN r.files \cup {"main"} /\ caller.next \in Nat \ {0}
      /\ caller.next \in DOMAIN ImportsIn(r, caller.file).entries
      /\ q[n + 1].file \in DOMAIN r.files /\ q[n + 1].next \in Nat \ {0}
  <2>1. Advances(r, q, n, new)
    BY <1>1, CallerAdvances, Zenon
  <2> QED
    BY <1>2, <2>1 DEF Advances
<1>5. n \in 1 .. n /\ n \in 1 .. n + 1 /\ n + 1 \in 1 .. n + 1 /\ n + 1 > 1 /\ (n + 1) - 1 = n
  BY <1>3
<1>6. \A i \in 1 .. n : new[i].file = q[i].file
  BY <1>2, <1>4
<1>7. Chained(r, new, reached)
  <2> SUFFICES ASSUME NEW k \in 1 .. n
               PROVE  /\ new[k].file \in reached
                      /\ k > 1 => new[k].file = ImportsIn(r, new[k - 1].file).entries[new[k - 1].next].path
    BY <1>4 DEF Chained
  <2>1. k \in DOMAIN q /\ (k > 1 => k - 1 \in 1 .. n /\ k - 1 # n)
    BY <1>3, <1>4
  <2>2. k > 1 => new[k - 1] = q[k - 1]
    BY <1>4, <2>1
  <2>3. q[k].file \in reached /\ (k > 1 => q[k].file = ImportsIn(r, q[k - 1].file).entries[q[k - 1].next].path)
    BY <2>1 DEF Chained
  <2> QED
    BY <1>6, <2>2, <2>3
<1>8. imp = ImportsIn(r, caller.file).entries[caller.next] /\ imp.path = q[n + 1].file
  <2>1. q[n + 1].file = ImportsIn(r, q[(n + 1) - 1].file).entries[q[(n + 1) - 1].next].path
    BY <1>4, <1>5, Zenon DEF Chained
  <2> QED
    BY <1>1, <1>2, <1>5, <2>1
<1>9. caller.file \in reached
  BY <1>2, <1>4, <1>5, Zenon DEF Chained
<1>10. IsSeq(own)
  BY <1>3, <1>4 DEF WellFormedFiles, WellFormedList
<1>11. ToSet(added) = {Brought(imp, t) : t \in ToSet(own)} /\ IsSeq(added)
  <2>1. IsSeq(added)
    BY <1>10, MapIsSeq
  <2>2. DOMAIN added = DOMAIN own /\ \A i \in DOMAIN own : added[i] = Brought(imp, own[i])
    OBVIOUS
  <2>3. ToSet(added) = {added[i] : i \in DOMAIN own}
    BY <2>2 DEF ToSet
  <2>4. {added[i] : i \in DOMAIN own} = {Brought(imp, own[i]) : i \in DOMAIN own}
    BY <2>2
  <2>5. {Brought(imp, own[i]) : i \in DOMAIN own} = {Brought(imp, t) : t \in ToSet(own)}
    BY DEF ToSet
  <2> QED
    BY <2>1, <2>3, <2>4, <2>5
<1>12. ToSet(list \o added) = ToSet(list) \cup ToSet(added)
  BY <1>11, ConcatElements
<1>13. own = r.files[imp.path].tasks
  BY <1>3, <1>8
<1>14. ASSUME NEW g \in reached, NEW i \in DOMAIN ImportsIn(r, g).entries, Past(new, g, i),
              g # caller.file \/ i # caller.next
       PROVE  Past(q, g, i)
  <2> SUFFICES ASSUME NEW k \in DOMAIN q, q[k].file = g PROVE i < q[k].next
    BY DEF Past
  <2>1. CASE k = n + 1
    <3>1. IsSeq(ImportsIn(r, g).entries)
      BY <1>4, <2>1 DEF WellFormedFiles
    <3>2. i <= Len(ImportsIn(r, g).entries) /\ i \in Nat /\ Len(ImportsIn(r, g).entries) \in Nat
      BY <3>1, SeqDomain
    <3> QED
      BY <1>3, <1>4, <2>1, <3>2
  <2>2. CASE k = n
    <3>1. g = caller.file /\ n \in DOMAIN new /\ new[n].file = g /\ new[n].next = caller.next + 1
      BY <1>2, <1>4, <1>5, <2>2
    <3>2. i < new[n].next
      BY <1>14, <3>1, Zenon DEF Past
    <3>3. IsSeq(ImportsIn(r, g).entries)
      BY <1>4, <3>1 DEF WellFormedFiles
    <3>4. i \in Nat /\ caller.next \in Nat
      BY <1>4, <3>3, SeqDomain
    <3> QED
      BY <1>2, <1>14, <2>2, <3>1, <3>2, <3>4
  <2>3. CASE k \in 1 .. n /\ k # n
    <3>1. k \in DOMAIN new /\ new[k] = q[k]
      BY <1>4, <2>3
    <3> QED
      BY <1>14, <3>1, Zenon DEF Past
  <2>4. k = n + 1 \/ k = n \/ (k \in 1 .. n /\ k # n)
    BY <1>3, <1>4
  <2> QED
    BY <2>1, <2>2, <2>3, <2>4
<1>15. ASSUME NEW g \in reached, NEW i \in DOMAIN ImportsIn(r, g).entries, Past(new, g, i),
              NEW t \in ToSet(r.files[ImportsIn(r, g).entries[i].path].tasks)
       PROVE  Brought(ImportsIn(r, g).entries[i], t) \in ToSet(list \o added)
  <2>1. CASE g = caller.file /\ i = caller.next
    BY <1>8, <1>11, <1>12, <1>13, <1>15, <2>1
  <2>2. CASE ~(g = caller.file /\ i = caller.next)
    <3>1. Past(q, g, i)
      BY <1>14, <1>15, <2>2
    <3>2. Brought(ImportsIn(r, g).entries[i], t) \in ToSet(list)
      BY <1>15, <3>1 DEF Collected
    <3> QED
      BY <1>12, <3>2
  <2> QED
    BY <2>1, <2>2
<1>16. ASSUME NEW x \in ToSet(list \o added)
       PROVE  \E g \in reached : \E entry \in ToSet(ImportsIn(r, g).entries) :
                \E t \in ToSet(r.files[entry.path].tasks) : x = Brought(entry, t)
  <2>1. CASE x \in ToSet(list)
    BY <2>1 DEF Collected
  <2>2. CASE x \in ToSet(added)
    <3>1. imp \in ToSet(ImportsIn(r, caller.file).entries)
      BY <1>4, <1>8 DEF ToSet
    <3>2. PICK t \in ToSet(r.files[imp.path].tasks) : x = Brought(imp, t)
      BY <1>11, <1>13, <2>2
    <3> QED
      BY <1>9, <3>1, <3>2
  <2> QED
    BY <1>12, <2>1, <2>2
<1> QED
  BY <1>7, <1>15, <1>16 DEF Collected

\* What an import makes of a task.
LEMMA BroughtBecomes ==
  ASSUME NEW e, NEW tasks_, \A u \in ToSet(tasks_) : WellFormed(u), NEW s,
         s = [prefix |-> <<e.prefix>>, tasks |-> tasks_, overrides |-> e.overrides],
         NEW t \in ToSet(tasks_)
  PROVE  Became(s, t, Brought(e, t))
<1>1. ASSUME NEW u \in ToSet(tasks_)
      PROVE  /\ {"id", "matrix", "depends_on"} \subseteq DOMAIN u /\ IsSeq(u.depends_on)
             /\ Brought(e, u).id = InPlan(s, u).id /\ Brought(e, u).matrix = InPlan(s, u).matrix
             /\ "id" \notin DOMAIN e.overrides => InPlan(s, u).id = [u.id EXCEPT !.pre = <<e.prefix>> \o @]
             /\ "depends_on" \notin DOMAIN e.overrides =>
                  Brought(e, u).depends_on = [i \in DOMAIN u.depends_on |-> QualifyDep(e.prefix, u.depends_on[i])]
  <2>1. {"id", "matrix", "depends_on", "context_from"} \subseteq DOMAIN u /\ IsSeq(u.depends_on)
    BY WellFormedFields DEF Names, Listed
  <2>2. PICK v : v = Prefixed(e.prefix, u)
    OBVIOUS
  <2>3. /\ DOMAIN v = DOMAIN u /\ v.matrix = u.matrix
        /\ v.id = [u.id EXCEPT !.pre = <<e.prefix>> \o @]
        /\ v.depends_on = [i \in DOMAIN u.depends_on |-> QualifyDep(e.prefix, u.depends_on[i])]
    BY <2>1, <2>2 DEF Prefixed
  <2>4. PICK w : w = [u EXCEPT !.id.pre = <<e.prefix>> \o @]
    OBVIOUS
  <2>5. DOMAIN w = DOMAIN u /\ w.matrix = u.matrix /\ w.id = [u.id EXCEPT !.pre = <<e.prefix>> \o @]
    BY <2>1, <2>4
  <2>6. s.prefix = <<e.prefix>> /\ s.overrides = e.overrides
    OBVIOUS
  <2>7. InPlan(s, u) = Overridden(w, e.overrides) /\ Brought(e, u) = Overridden(v, e.overrides)
    BY <2>2, <2>4, <2>6 DEF InPlan, Brought
  <2>8. \A k \in DOMAIN u : /\ Overridden(w, e.overrides)[k] = IF k \in DOMAIN e.overrides THEN e.overrides[k] ELSE w[k]
                            /\ Overridden(v, e.overrides)[k] = IF k \in DOMAIN e.overrides THEN e.overrides[k] ELSE v[k]
    BY <2>3, <2>5 DEF Overridden
  <2>9. \A k \in {"id", "matrix", "depends_on"} :
           /\ InPlan(s, u)[k] = IF k \in DOMAIN e.overrides THEN e.overrides[k] ELSE w[k]
           /\ Brought(e, u)[k] = IF k \in DOMAIN e.overrides THEN e.overrides[k] ELSE v[k]
    BY <2>1, <2>7, <2>8, Zenon
  <2>10. Brought(e, u).id = InPlan(s, u).id
    BY <2>3, <2>5, <2>9, Zenon
  <2>11. Brought(e, u).matrix = InPlan(s, u).matrix
    BY <2>3, <2>5, <2>9, Zenon
  <2>12. "id" \notin DOMAIN e.overrides => InPlan(s, u).id = w.id
    BY <2>9, Zenon
  <2>13. "depends_on" \notin DOMAIN e.overrides => Brought(e, u).depends_on = v.depends_on
    BY <2>9, Zenon
  <2> QED
    BY <2>1, <2>3, <2>5, <2>10, <2>11, <2>12, <2>13, Zenon
<1>2. ASSUME NEW u \in ToSet(tasks_), u.id \in ToSet(t.depends_on), u.id.pre = <<>>,
             DOMAIN e.overrides \cap {"id", "depends_on"} = {}
      PROVE  Depends(Brought(e, t), InPlan(s, u).id)
  <2>1. PICK i \in DOMAIN t.depends_on : u.id = t.depends_on[i]
    BY <1>2 DEF ToSet
  <2>2. Brought(e, t).depends_on = [n \in DOMAIN t.depends_on |-> QualifyDep(e.prefix, t.depends_on[n])]
    BY <1>1, <1>2
  <2>3. Brought(e, t).depends_on[i] = QualifyDep(e.prefix, u.id) /\ i \in DOMAIN Brought(e, t).depends_on
    BY <2>1, <2>2
  <2>4. QualifyDep(e.prefix, u.id) = [u.id EXCEPT !.pre = <<e.prefix>>]
    BY <1>2 DEF QualifyDep
  <2>5. <<e.prefix>> \o <<>> = <<e.prefix>>
    BY ConcatEmptySeq
  <2>6. InPlan(s, u).id = [u.id EXCEPT !.pre = <<e.prefix>> \o @]
    BY <1>1, <1>2
  <2>7. InPlan(s, u).id = [u.id EXCEPT !.pre = <<e.prefix>>]
    BY <1>2, <2>5, <2>6
  <2> QED
    BY <2>3, <2>4, <2>7 DEF Depends, ToSet
<1>3. s.tasks = tasks_ /\ s.overrides = e.overrides
  OBVIOUS
<1> QED
  BY <1>1, <1>2, <1>3 DEF Became

\* All files are read: the lists are gathered, with the main file's tasks last.
LEMMA CollectingEnds ==
  ASSUME NEW r, WellFormedFiles(r), \A t \in ToSet(r.tasks) : IsName(t.id),
         NEW q, Calling(r, q), Len(q) = 1, q[1].next > Len(ImportsIn(r, q[1].file).entries),
         NEW reached, NEW list, IsSeq(list), Collected(r, q, reached, list),
         NEW main, main = [prefix |-> <<>>, tasks |-> r.tasks, overrides |-> <<>>],
         NEW sources,
         sources = {main} \cup UNION {{[prefix |-> <<e.prefix>>, tasks |-> r.files[e.path].tasks,
                                        overrides |-> e.overrides] : e \in ToSet(ImportsIn(r, f).entries)}
                                      : f \in reached},
         \A f \in reached : f \in DOMAIN r.files \cup {"main"}
  PROVE  Gathered(sources, list \o r.tasks)
<1>1. DOMAIN q = {1}
  <2>1. DOMAIN q = 1 .. 1
    BY SeqDomain DEF Calling
  <2> QED
    BY <2>1
<1>2. ASSUME NEW f \in reached, NEW i \in DOMAIN ImportsIn(r, f).entries PROVE Past(q, f, i)
  <2> SUFFICES ASSUME q[1].file = f PROVE i < q[1].next
    BY <1>1 DEF Past
  <2>1. PICK s : s = ImportsIn(r, f).entries
    OBVIOUS
  <2>2. IsSeq(s)
    BY <2>1 DEF WellFormedFiles
  <2>3. Len(s) \in Nat /\ i \in 1 .. Len(s)
    BY <2>1, <2>2, SeqDomain
  <2>4. q[1].next > Len(s) /\ q[1].next \in Nat
    BY <1>1, <2>1 DEF Calling
  <2> QED
    BY <2>3, <2>4
<1>3. IsSeq(r.tasks) /\ \A t \in ToSet(r.tasks) : WellFormed(t)
  BY DEF WellFormedFiles, WellFormedList, ToSet
<1>4. ToSet(list \o r.tasks) = ToSet(list) \cup ToSet(r.tasks)
  BY <1>3, ConcatElements
<1>5. ASSUME NEW t \in ToSet(r.tasks) PROVE Became(main, t, t)
  <2>1. \A u \in ToSet(r.tasks) : InPlan(main, u).id = u.id /\ InPlan(main, u).matrix = u.matrix
    <3> SUFFICES ASSUME NEW u \in ToSet(r.tasks)
                 PROVE  InPlan(main, u).id = u.id /\ InPlan(main, u).matrix = u.matrix
      OBVIOUS
    <3>1. "id" \in DOMAIN u /\ "matrix" \in DOMAIN u
      BY <1>3, WellFormedFields DEF Names
    <3>2. PICK pre : pre = u.id.pre
      OBVIOUS
    <3>3. IsSeq(pre) /\ u.id = [pre |-> pre, base |-> u.id.base, cell |-> u.id.cell]
      BY <3>2, ListIsSeq DEF IsName
    <3>4. <<>> \o pre = pre
      BY <3>3 DEF IsSeq
    <3>5. PICK v : v = [u EXCEPT !.id.pre = <<>> \o @]
      OBVIOUS
    <3>6. DOMAIN v = DOMAIN u /\ v.matrix = u.matrix /\ v.id = [u.id EXCEPT !.pre = <<>> \o @]
      BY <3>1, <3>5
    <3>7. v.id = [u.id EXCEPT !.pre = pre]
      BY <3>2, <3>4, <3>6
    <3>8. v.id = u.id
      BY <3>3, <3>7
    <3>9. InPlan(main, u) = Overridden(v, <<>>)
      BY <3>5 DEF InPlan
    <3>10. Overridden(v, <<>>) = [k \in DOMAIN v |-> v[k]]
      BY EmptyIsSeq DEF Overridden
    <3> QED
      BY <3>1, <3>6, <3>8, <3>9, <3>10
  <2> QED
    BY <2>1 DEF Became, Depends
<1>6. ASSUME NEW f \in reached, NEW e \in ToSet(ImportsIn(r, f).entries), NEW s,
             s = [prefix |-> <<e.prefix>>, tasks |-> r.files[e.path].tasks, overrides |-> e.overrides],
             NEW t \in ToSet(s.tasks)
      PROVE  Brought(e, t) \in ToSet(list) /\ Became(s, t, Brought(e, t))
  <2>1. PICK i \in DOMAIN ImportsIn(r, f).entries : e = ImportsIn(r, f).entries[i]
    BY DEF ToSet
  <2>2. Brought(e, t) \in ToSet(list)
    BY <1>2, <1>6, <2>1 DEF Collected
  <2>3. e.path \in DOMAIN r.files
    BY <2>1 DEF WellFormedFiles, WellFormedImport
  <2>4. \A u \in ToSet(s.tasks) : WellFormed(u)
    BY <1>6, <2>3 DEF WellFormedFiles, WellFormedList, ToSet
  <2>5. Became(s, t, Brought(e, t))
    BY <1>6, <2>4, BroughtBecomes
  <2> QED
    BY <2>2, <2>5
<1>7. ASSUME NEW s \in sources, NEW t \in ToSet(s.tasks)
      PROVE  \E x \in ToSet(list \o r.tasks) : Became(s, t, x)
  <2>1. CASE s = main
    BY <1>4, <1>5, <1>7, <2>1
  <2>2. CASE s # main
    BY <1>4, <1>6, <1>7, <2>2
  <2> QED
    BY <2>1, <2>2
<1>8. ASSUME NEW x \in ToSet(list \o r.tasks)
      PROVE  \E s \in sources : \E t \in ToSet(s.tasks) : Became(s, t, x)
  <2>1. CASE x \in ToSet(r.tasks)
    BY <1>5, <2>1
  <2>2. CASE x \in ToSet(list)
    <3>0. PICK f \in reached : \E e \in ToSet(ImportsIn(r, f).entries) :
                                  \E t \in ToSet(r.files[e.path].tasks) : x = Brought(e, t)
      BY <2>2 DEF Collected
    <3>1. PICK e \in ToSet(ImportsIn(r, f).entries) :
            \E t \in ToSet(r.files[e.path].tasks) : x = Brought(e, t)
      BY <3>0
    <3>5. PICK t \in ToSet(r.files[e.path].tasks) : x = Brought(e, t)
      BY <3>1
    <3>2. PICK s : s = [prefix |-> <<e.prefix>>, tasks |-> r.files[e.path].tasks, overrides |-> e.overrides]
      OBVIOUS
    <3>3. s \in sources /\ t \in ToSet(s.tasks)
      <4> DEFINE Of(g) == {[prefix |-> <<entry.prefix>>, tasks |-> r.files[entry.path].tasks,
                            overrides |-> entry.overrides] : entry \in ToSet(ImportsIn(r, g).entries)}
      <4>1. s \in Of(f)
        BY <3>2
      <4>2. sources = {main} \cup UNION {Of(g) : g \in reached}
        OBVIOUS
      <4>3. s.tasks = r.files[e.path].tasks
        BY <3>2
      <4> HIDE DEF Of
      <4> QED
        BY <4>1, <4>2, <4>3
    <3>4. Became(s, t, x)
      BY <1>6, <3>2, <3>3, <3>5
    <3> QED
      BY <3>3, <3>4
  <2> QED
    BY <1>4, <2>1, <2>2
<1> QED
  BY <1>7, <1>8 DEF Gathered

\* Engine defaults touch neither a name nor a matrix nor a dependency.
LEMMA DefaultsGathered ==
  ASSUME NEW sources, NEW all, WellFormedList(all), Gathered(sources, all), NEW defaults,
         NEW new, new = [i \in DOMAIN all |-> WithEngineDefaults(all[i], defaults)]
  PROVE  Gathered(sources, new)
<1>1. ASSUME NEW i \in DOMAIN all
      PROVE  new[i].id = all[i].id /\ new[i].matrix = all[i].matrix /\ new[i].depends_on = all[i].depends_on
  <2>1. {"id", "matrix", "depends_on"} \subseteq DOMAIN all[i]
    BY WellFormedFields DEF Names, WellFormedList
  <2>2. new[i] = WithEngineDefaults(all[i], defaults)
    OBVIOUS
  <2> QED
    BY <2>1, <2>2 DEF WithEngineDefaults
<1>2. DOMAIN new = DOMAIN all
  OBVIOUS
<1>3. \A i \in DOMAIN all : \A s, t : Became(s, t, all[i]) => Became(s, t, new[i])
  BY <1>1 DEF Became, Depends
<1>4. \A s \in sources : \A t \in ToSet(s.tasks) : \E x \in ToSet(new) : Became(s, t, x)
  <2> SUFFICES ASSUME NEW s \in sources, NEW t \in ToSet(s.tasks)
               PROVE  \E x \in ToSet(new) : Became(s, t, x)
    OBVIOUS
  <2>1. PICK x \in ToSet(all) : Became(s, t, x)
    BY DEF Gathered
  <2>2. PICK i \in DOMAIN all : x = all[i]
    BY DEF ToSet
  <2>3. Became(s, t, new[i]) /\ new[i] \in ToSet(new)
    BY <1>2, <1>3, <2>1, <2>2 DEF ToSet
  <2> QED
    BY <2>3
<1>5. \A x \in ToSet(new) : \E s \in sources : \E t \in ToSet(s.tasks) : Became(s, t, x)
  <2> SUFFICES ASSUME NEW i \in DOMAIN all
               PROVE  \E s \in sources : \E t \in ToSet(s.tasks) : Became(s, t, new[i])
    BY <1>2 DEF ToSet
  <2>1. \E s \in sources : \E t \in ToSet(s.tasks) : Became(s, t, all[i])
    BY DEF Gathered, ToSet
  <2> QED
    BY <1>3, <2>1
<1> QED
  BY <1>4, <1>5 DEF Gathered

\* Expansion and resolution keep every edge.
LEMMA GatheredWaits ==
  ASSUME NEW sources, NEW list, WellFormedList(list), Gathered(sources, list),
         NEW mid, mid = ExpandMatrixTasks(list), WellFormedList(mid),
         NEW new, new = ResolveDependencies(mid)
  PROVE  EdgesIn(sources, new)
<1> SUFFICES ASSUME NEW s \in sources, DOMAIN s.overrides \cap {"id", "depends_on"} = {},
                    NEW t \in ToSet(s.tasks), NEW u \in ToSet(s.tasks),
                    u.id \in ToSet(t.depends_on), u.id.pre = <<>>, ~Shadowed(sources, InPlan(s, u)),
                    NEW a \in Offspring(InPlan(s, t)), NEW b \in Offspring(InPlan(s, u))
             PROVE  \E v \in ToSet(new) : v.id = a /\ Depends(v, b)
  BY DEF EdgesIn
<1>1. PICK x \in ToSet(list) : Became(s, t, x)
  BY DEF Gathered
<1>2. PICK w : w = InPlan(s, u)
  OBVIOUS
<1>3. w.id \in ToSet(x.depends_on)
  BY <1>1, <1>2 DEF Became, Depends
<1>4. a \in Offspring(x)
  BY <1>1 DEF Became, Offspring
<1>5. \E y \in ToSet(list) : y.id = w.id /\ y.matrix = w.matrix
  BY <1>2 DEF Gathered, Became
<1>6. ASSUME NEW y \in ToSet(list), y.id = w.id, y.matrix.self # "none" PROVE y.matrix = w.matrix
  <2>1. PICK r \in sources : \E z \in ToSet(r.tasks) : Became(r, z, y)
    BY DEF Gathered
  <2>2. PICK z \in ToSet(r.tasks) : Became(r, z, y)
    BY <2>1
  <2> QED
    BY <1>2, <1>6, <2>2 DEF Became, Shadowed
<1>7. b \in ToSet(Expanded(w.id, list))
  BY <1>2, <1>5, <1>6, ExpandedElements
<1>8. PICK v \in ToSet(mid) : v.id = a /\ Depends(v, b)
  BY <1>3, <1>4, <1>7, ExpansionWaits
<1> QED
  BY <1>8, ResolutionWaits

\* Whether a task is cached plays no part in what it waits for.
LEMMA FreshWaits ==
  ASSUME NEW sources, NEW list, WellFormedList(list), EdgesIn(sources, list),
         NEW new, new = [i \in DOMAIN list |-> Fresh(list[i])]
  PROVE  EdgesIn(sources, new)
<1>1. ASSUME NEW v \in ToSet(list) PROVE \E w \in ToSet(new) : w.id = v.id /\ w.depends_on = v.depends_on
  <2>1. PICK i \in DOMAIN list : v = list[i]
    BY DEF ToSet
  <2>2. "id" \in DOMAIN v /\ "depends_on" \in DOMAIN v
    BY <2>1, WellFormedFields DEF Names, WellFormedList
  <2>3. Fresh(v).id = v.id /\ Fresh(v).depends_on = v.depends_on
    BY <2>2 DEF Fresh
  <2>4. Fresh(v) \in ToSet(new)
    BY <2>1 DEF ToSet
  <2> QED
    BY <2>3, <2>4
<1>2. \A a, b : (\E v \in ToSet(list) : v.id = a /\ Depends(v, b))
                => \E w \in ToSet(new) : w.id = a /\ Depends(w, b)
  BY <1>1 DEF Depends
<1> SUFFICES ASSUME NEW s \in sources, DOMAIN s.overrides \cap {"id", "depends_on"} = {},
                    NEW t \in ToSet(s.tasks), NEW u \in ToSet(s.tasks),
                    u.id \in ToSet(t.depends_on), u.id.pre = <<>>, ~Shadowed(sources, InPlan(s, u)),
                    NEW a \in Offspring(InPlan(s, t)), NEW b \in Offspring(InPlan(s, u))
             PROVE  \E w \in ToSet(new) : w.id = a /\ Depends(w, b)
  BY DEF EdgesIn
<1>3. \E v \in ToSet(list) : v.id = a /\ Depends(v, b)
  BY DEF EdgesIn
<1> QED
  BY <1>2, <1>3

\* What the parts of the invariant speak of, while files and imports stand still.
LEMMA SourcesStay == ASSUME raw' = raw, seen' = seen PROVE Sources' = Sources /\ Reached' = Reached
BY DEF Sources, Reached, Imports

LEMMA SourcesAre ==
  Sources = {[prefix |-> <<>>, tasks |-> raw.tasks, overrides |-> <<>>]}
            \cup UNION {{[prefix |-> <<e.prefix>>, tasks |-> raw.files[e.path].tasks,
                           overrides |-> e.overrides] : e \in ToSet(ImportsIn(raw, f).entries)}
                         : f \in Reached}
BY DEF Sources, Reached, Imports, ImportsIn

LEMMA EdgesBegin == ASSUME Init PROVE EdgesInv
<1>1. PICK c \in Cases : raw = RawPlan(c)
  BY DEF Init
<1>2. IsFile(raw)
  BY <1>1, FilesAssumption DEF FilesAssumption
<1>3. \A t \in ToSet(raw.tasks) : IsName(t.id)
  BY <1>2, TaskNames DEF IsFile, IsTask, IsField, Names
<1> QED
  BY <1>3 DEF Init, EdgesInv

LEMMA EdgesRead == ASSUME LoaderInv, EdgesInv, ReadPlan PROVE EdgesInv'
<1>1. /\ phase = "read" /\ phase' \in {"done", "import"}
      /\ frames' = <<[file |-> "main", next |-> 1]>>
      /\ raw' = raw /\ seen' = seen /\ tasks' = tasks /\ plan' = plan
  BY DEF ReadPlan, Settle
<1>2. seen = {} /\ tasks = <<>> /\ plan = <<>> /\ \A t \in ToSet(raw.tasks) : IsName(t.id)
  BY <1>1 DEF EdgesInv
<1>3. WellFormedFiles(raw)
  BY DEF LoaderInv, FramesInv
<1>4. PICK q : q = <<[file |-> "main", next |-> 1]>>
  OBVIOUS
<1>5. Chained(raw, q, {"main"}) /\ Collected(raw, q, {"main"}, <<>>)
  BY <1>3, <1>4, CollectingBegins
<1>6. Reached' = {"main"}
  BY <1>1, <1>2 DEF Reached
<1> QED
  BY <1>1, <1>2, <1>4, <1>5, <1>6 DEF EdgesInv

LEMMA EdgesImport == ASSUME LoaderInv, EdgesInv, Import PROVE EdgesInv'
<1>1. PICK imp : imp = Entries[Frame.next]
  OBVIOUS
<1>2. /\ phase = "import" /\ phase' \in {"done", "import"} /\ Pending
      /\ frames' = Append(frames, [file |-> imp.path, next |-> 1]) /\ seen' = seen \cup {imp.path}
      /\ raw' = raw /\ tasks' = tasks /\ plan' = plan
  BY <1>1 DEF Import, Settle
<1>3. /\ plan = <<>> /\ \A t \in ToSet(raw.tasks) : IsName(t.id)
      /\ Chained(raw, frames, Reached) /\ Collected(raw, frames, Reached, tasks)
      /\ seen \subseteq DOMAIN raw.files
  BY <1>2 DEF EdgesInv
<1>4. WellFormedFiles(raw) /\ Calling(raw, frames) /\ frames # <<>>
  BY <1>2 DEF LoaderInv, FramesInv
<1>5. Len(frames) \in DOMAIN frames
  BY <1>4, SeqDomain, EmptyDomain DEF Calling
<1>6. /\ Frame.file \in DOMAIN raw.files \cup {"main"} /\ Frame.next \in Nat \ {0}
      /\ Entries = ImportsIn(raw, Frame.file).entries
  BY <1>4, <1>5 DEF Calling, Frame, Entries, Imports, ImportsIn
<1>7. IsSeq(Entries) /\ \A i \in DOMAIN Entries : WellFormedImport(raw, Entries[i])
  BY <1>4, <1>6 DEF WellFormedFiles
<1>8. Frame.next \in DOMAIN Entries
  BY <1>2, <1>6, <1>7, SeqDomain DEF Pending
<1>9. imp.path \in DOMAIN raw.files
  BY <1>1, <1>7, <1>8 DEF WellFormedImport
<1>10. imp.path = ImportsIn(raw, frames[Len(frames)].file).entries[frames[Len(frames)].next].path
  BY <1>1, <1>6 DEF Frame
<1>11. /\ Chained(raw, frames', Reached \cup {imp.path})
       /\ Collected(raw, frames', Reached \cup {imp.path}, tasks)
  BY <1>2, <1>3, <1>4, <1>9, <1>10, CollectingPushes
<1>12. Reached' = Reached \cup {imp.path}
  BY <1>2 DEF Reached
<1> QED
  BY <1>2, <1>3, <1>9, <1>11, <1>12 DEF EdgesInv

LEMMA EdgesSplice == ASSUME LoaderInv, EdgesInv, Splice PROVE EdgesInv'
<1> DEFINE caller == frames[Len(frames) - 1]
           imp == Imports(caller.file).entries[caller.next]
           own == raw.files[Frame.file].tasks
           added == [i \in DOMAIN own |-> Overridden(Prefixed(imp.prefix, own[i]), imp.overrides)]
<1>1. /\ phase = "import" /\ phase' \in {"done", "import"} /\ ~Pending /\ Len(frames) > 1
      /\ tasks' = tasks \o added
      /\ frames' = [Front(frames) EXCEPT ![Len(frames) - 1].next = @ + 1]
      /\ raw' = raw /\ seen' = seen /\ plan' = plan
  BY DEF Splice, Settle
<1>2. /\ plan = <<>> /\ \A t \in ToSet(raw.tasks) : IsName(t.id)
      /\ Chained(raw, frames, Reached) /\ Collected(raw, frames, Reached, tasks)
      /\ seen \subseteq DOMAIN raw.files
  BY <1>1 DEF EdgesInv
<1>3. WellFormedFiles(raw) /\ Calling(raw, frames) /\ frames # <<>> /\ IsSeq(tasks)
  BY <1>1 DEF LoaderInv, FramesInv, WellFormedList
<1>4. Len(frames) \in DOMAIN frames
  BY <1>3, SeqDomain, EmptyDomain DEF Calling
<1>5. /\ Frame.file \in DOMAIN raw.files \cup {"main"} /\ Frame.next \in Nat
      /\ Entries = ImportsIn(raw, Frame.file).entries
  <2>1. Frame \in [file : DOMAIN raw.files \cup {"main"}, next : Nat \ {0}]
    BY <1>3, <1>4, Zenon DEF Calling, Frame
  <2> QED
    BY <2>1 DEF Entries, Imports, ImportsIn
<1>6. IsSeq(Entries)
  BY <1>3, <1>5 DEF WellFormedFiles
<1>7. Frame.next > Len(Entries)
  <2>1. Len(Entries) \in Nat /\ ~(Frame.next <= Len(Entries))
    BY <1>1, <1>6, SeqDomain DEF Pending
  <2> QED
    BY <1>5, <2>1
<1>8. frames[Len(frames)].next > Len(ImportsIn(raw, frames[Len(frames)].file).entries)
  BY <1>5, <1>7 DEF Frame
<1>9. imp = Splicing(raw, frames) /\ own = raw.files[frames[Len(frames)].file].tasks
  BY DEF Splicing, Imports, ImportsIn, Frame
<1>10. added = [i \in DOMAIN own |-> Brought(imp, own[i])]
  BY DEF Brought
<1> HIDE DEF imp, own, added
<1>11. Chained(raw, frames', Reached) /\ Collected(raw, frames', Reached, tasks')
  <2>1. frames' = Returned(frames)
    BY <1>1 DEF Returned
  <2>2. added = Spliced(raw, frames)
    BY <1>9, <1>10 DEF Spliced
  <2>3. Chained(raw, Returned(frames), Reached) /\ Collected(raw, Returned(frames), Reached, tasks \o Spliced(raw, frames))
    BY <1>1, <1>2, <1>3, <1>8, CollectingReturns, Zenon
  <2> QED
    BY <1>1, <2>1, <2>2, <2>3
<1>12. Reached' = Reached
  BY <1>1, SourcesStay
<1> QED
  BY <1>1, <1>2, <1>11, <1>12 DEF EdgesInv

LEMMA EdgesParse == ASSUME LoaderInv, EdgesInv, Parse PROVE EdgesInv'
<1> DEFINE all == tasks \o raw.tasks
<1>1. /\ phase = "import" /\ phase' \in {"done", "expand"} /\ ~Pending /\ Len(frames) = 1
      /\ tasks' = [i \in DOMAIN all |-> WithEngineDefaults(all[i], raw.defaults)]
      /\ raw' = raw /\ seen' = seen /\ plan' = plan
  BY DEF Parse, ImportsDone, Settle
<1>2. /\ plan = <<>> /\ \A t \in ToSet(raw.tasks) : IsName(t.id)
      /\ Chained(raw, frames, Reached) /\ Collected(raw, frames, Reached, tasks)
  BY <1>1 DEF EdgesInv
<1>3. WellFormedFiles(raw) /\ Calling(raw, frames) /\ WellFormedList(tasks)
  BY DEF LoaderInv, FramesInv
<1>4. DOMAIN frames = 1 .. 1 /\ Frame = frames[1]
  BY <1>1, <1>3, SeqDomain DEF Calling, Frame
<1>5. /\ Frame.file \in DOMAIN raw.files \cup {"main"} /\ Frame.next \in Nat
      /\ Entries = ImportsIn(raw, Frame.file).entries
  <2>1. 1 \in DOMAIN frames
    BY <1>4
  <2> QED
    BY <1>3, <1>4, <2>1 DEF Calling, Entries, Imports, ImportsIn
<1>6. IsSeq(Entries)
  BY <1>3, <1>5 DEF WellFormedFiles
<1>7. frames[1].next > Len(ImportsIn(raw, frames[1].file).entries)
  <2>1. Frame.next > Len(Entries)
    <3>1. Len(Entries) \in Nat /\ ~(Frame.next <= Len(Entries))
      BY <1>1, <1>6, SeqDomain DEF Pending
    <3> QED
      BY <1>5, <3>1
  <2> QED
    BY <1>4, <1>5, <2>1
<1>8. \A f \in Reached : f \in DOMAIN raw.files \cup {"main"}
  BY <1>1 DEF EdgesInv, Reached
<1>9. Gathered(Sources, all)
  BY <1>1, <1>2, <1>3, <1>7, <1>8, SourcesAre, CollectingEnds DEF WellFormedList
<1>10. WellFormedList(all)
  BY <1>3, BothWellFormed DEF WellFormedFiles
<1> HIDE DEF all
<1>11. Gathered(Sources, tasks')
  BY <1>1, <1>9, <1>10, DefaultsGathered
<1>12. Sources' = Sources
  BY <1>1, SourcesStay
<1> QED
  BY <1>1, <1>2, <1>11, <1>12 DEF EdgesInv

LEMMA EdgesExpand == ASSUME LoaderInv, EdgesInv, Expand PROVE EdgesInv'
<1>1. /\ phase = "expand" /\ phase' = "specify"
      /\ tasks' = ResolveDependencies(ExpandMatrixTasks(tasks))
      /\ raw' = raw /\ seen' = seen /\ plan' = plan
  BY DEF Expand
<1>2. plan = <<>> /\ (\A t \in ToSet(raw.tasks) : IsName(t.id)) /\ Gathered(Sources, tasks)
  BY <1>1 DEF EdgesInv
<1>3. WellFormedList(tasks) /\ \A i \in DOMAIN tasks : Parsed(tasks[i])
  BY <1>1 DEF LoaderInv, FramesInv, StageInv
<1>4. WellFormedList(ExpandMatrixTasks(tasks))
  BY <1>3, MatricesWellFormed
<1>5. EdgesIn(Sources, tasks')
  BY <1>1, <1>2, <1>3, <1>4, GatheredWaits
<1>6. Sources' = Sources
  BY <1>1, SourcesStay
<1> QED
  BY <1>1, <1>2, <1>5, <1>6 DEF EdgesInv

LEMMA EdgesSpecify == ASSUME LoaderInv, EdgesInv, Specify PROVE EdgesInv'
<1>1. /\ phase = "specify" /\ phase' \in {"done", "validate"} /\ plan' = <<[raw EXCEPT !.tasks = tasks]>>
      /\ raw' = raw /\ seen' = seen /\ tasks' = tasks
  BY DEF Specify, Settle
<1>2. (\A t \in ToSet(raw.tasks) : IsName(t.id)) /\ EdgesIn(Sources, tasks)
  BY <1>1 DEF EdgesInv
<1>3. "tasks" \in DOMAIN raw
  BY PlanNames DEF LoaderInv, FramesInv, WellFormedFiles
<1>4. PICK p : p = [raw EXCEPT !.tasks = tasks]
  OBVIOUS
<1>5. p.tasks = tasks /\ plan' = <<p>>
  BY <1>1, <1>3, <1>4
<1>6. Loaded'.tasks = tasks
  BY <1>5 DEF Loaded
<1>7. Sources' = Sources
  BY <1>1, SourcesStay
<1> QED
  BY <1>1, <1>2, <1>6, <1>7 DEF EdgesInv

LEMMA EdgesValidate == ASSUME LoaderInv, EdgesInv, Validate PROVE EdgesInv'
<1>1. /\ phase = "validate" /\ phase' \in {"done", "search"}
      /\ plan' = [plan EXCEPT ![1].tasks = [i \in DOMAIN @ |-> Fresh(@[i])]]
      /\ raw' = raw /\ seen' = seen /\ tasks' = tasks
  BY DEF Validate, Settle
<1>2. (\A t \in ToSet(raw.tasks) : IsName(t.id)) /\ EdgesIn(Sources, tasks)
  BY <1>1 DEF EdgesInv
<1>3. "tasks" \in DOMAIN raw /\ WellFormedList(tasks) /\ plan = <<[raw EXCEPT !.tasks = tasks]>>
  BY <1>1, PlanNames DEF LoaderInv, FramesInv, StageInv, WellFormedFiles
<1>4. PICK p : p = [raw EXCEPT !.tasks = tasks]
  OBVIOUS
<1>5. p.tasks = tasks /\ plan = <<p>> /\ "tasks" \in DOMAIN p
  BY <1>3, <1>4
<1>6. PICK new : new = [i \in DOMAIN tasks |-> Fresh(tasks[i])]
  OBVIOUS
<1>7. PICK q : q = [p EXCEPT !.tasks = new]
  OBVIOUS
<1>8. plan' = <<q>>
  BY <1>1, <1>5, <1>6, <1>7
<1>9. Loaded'.tasks = new
  BY <1>5, <1>7, <1>8 DEF Loaded
<1>10. EdgesIn(Sources, new)
  BY <1>2, <1>3, <1>6, FreshWaits
<1>11. Sources' = Sources
  BY <1>1, SourcesStay
<1> QED
  BY <1>1, <1>2, <1>9, <1>10, <1>11 DEF EdgesInv

LEMMA EdgesSearch == ASSUME LoaderInv, EdgesInv, SearchFrom \/ Descend \/ LeaveNode PROVE EdgesInv'
<1>1. /\ phase = "search" /\ phase' \in {"done", "search"} /\ plan' = plan
      /\ raw' = raw /\ seen' = seen /\ tasks' = tasks
  BY DEF SearchFrom, Descend, LeaveNode, Settle
<1>2. Sources' = Sources /\ Loaded' = Loaded
  BY <1>1, SourcesStay DEF Loaded
<1> QED
  BY <1>1, <1>2 DEF EdgesInv

LEMMA EdgesConclude == ASSUME LoaderInv, EdgesInv, Conclude PROVE EdgesInv'
<1>1. PICK p : p = plan[1]
  OBVIOUS
<1>2. PICK warnings : warnings = UNION {TaskWarnings(p, t) : t \in ToSet(p.tasks)}
  OBVIOUS
<1>3. PICK q : q = [p EXCEPT !.warnings = warnings]
  OBVIOUS
<1>4. /\ phase = "search" /\ phase' = "done" /\ plan' = [plan EXCEPT ![1].warnings = warnings]
      /\ raw' = raw /\ seen' = seen /\ tasks' = tasks
  BY <1>1, <1>2 DEF Conclude, Loaded
<1>5. IsSeq(plan) /\ Len(plan) = 1 /\ Checked(p)
  BY <1>1, <1>4 DEF LoaderInv, StageInv
<1>6. 1 \in DOMAIN plan /\ plan # <<>>
  BY <1>5, SeqDomain, EmptyIsSeq
<1>7. plan'[1] = q
  BY <1>1, <1>3, <1>4, <1>6
<1>8. Loaded'.tasks = Loaded.tasks
  BY <1>1, <1>3, <1>5, <1>7, WarningsApart DEF Loaded
<1>9. Sources' = Sources
  BY <1>4, SourcesStay
<1> QED
  BY <1>4, <1>6, <1>8, <1>9 DEF EdgesInv

LEMMA EdgesStay == ASSUME EdgesInv, UNCHANGED vars PROVE EdgesInv'
<1>1. /\ raw' = raw /\ phase' = phase /\ frames' = frames /\ seen' = seen
      /\ tasks' = tasks /\ plan' = plan
  BY DEF vars
<1>2. Sources' = Sources /\ Reached' = Reached /\ Loaded' = Loaded
  BY <1>1, SourcesStay DEF Loaded
<1> QED
  BY <1>1, <1>2 DEF EdgesInv

\* The invariant of the edges: what the imports in progress have collected, what
\* each task of each file has become in the list of all, and then, stage by stage,
\* that every task still waits for what its file says.  (load_plan.)
THEOREM EdgesInvariant == Spec => []EdgesInv
<1>1. Init => EdgesInv
  BY EdgesBegin
<1>2. LoaderInv /\ EdgesInv /\ [Next]_vars => EdgesInv'
  <2> SUFFICES ASSUME LoaderInv, EdgesInv, [Next]_vars PROVE EdgesInv'
    OBVIOUS
  <2>1. CASE ReadPlan
    BY <2>1, EdgesRead
  <2>2. CASE Import
    BY <2>2, EdgesImport
  <2>3. CASE Splice
    BY <2>3, EdgesSplice
  <2>4. CASE Parse
    BY <2>4, EdgesParse
  <2>5. CASE Expand
    BY <2>5, EdgesExpand
  <2>6. CASE Specify
    BY <2>6, EdgesSpecify
  <2>7. CASE Validate
    BY <2>7, EdgesValidate
  <2>8. CASE SearchFrom \/ Descend \/ LeaveNode
    BY <2>8, EdgesSearch
  <2>9. CASE Conclude
    BY <2>9, EdgesConclude
  <2>10. CASE UNCHANGED vars
    BY <2>10, EdgesStay
  <2> QED
    BY <2>1, <2>2, <2>3, <2>4, <2>5, <2>6, <2>7, <2>8, <2>9, <2>10 DEF Next
<1> QED
  BY <1>1, <1>2, LoaderInvariant, PTL DEF Spec

\* No dependency that a file states is lost on the way to the accepted plan,
\* whatever files import each other under whatever prefixes and overrides, and
\* whatever matrices stand for the two tasks.
THEOREM DependenciesAreKept == Spec => []EdgesKept
<1>1. ASSUME LoaderInv, EdgesInv, Accepted PROVE EdgesIn(Sources, Loaded.tasks)
  <2>1. phase = "done" /\ IsSeq(plan) /\ Len(plan) = 1
    BY <1>1 DEF LoaderInv, VerdictInv, Accepted
  <2>2. plan # <<>>
    BY <2>1, EmptyIsSeq
  <2> QED
    BY <1>1, <2>1, <2>2 DEF EdgesInv
<1>2. LoaderInv /\ EdgesInv => EdgesKept
  BY <1>1 DEF EdgesKept
<1> QED
  BY <1>2, LoaderInvariant, EdgesInvariant, PTL

=============================================================================
