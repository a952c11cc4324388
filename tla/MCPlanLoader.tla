---------------------------- MODULE MCPlanLoader ----------------------------
(* The loader over a family of plan files: every dependency graph on three   *)
(* tasks, one field at a time with every kind of value, and plans with       *)
(* matrices, contracts, groups and imports.                                  *)
EXTENDS PlanLoader

Sane == [v \in {"x", "y", "y?"} |-> IF v = "y?" THEN "y" ELSE v]

A == Name("a")  B == Name("b")  C == Name("c")  M == Name("m")
Task(id, deps) == [TaskSpec EXCEPT !.id = id, !.depends_on = deps,
                                   !.engine = "codex", !.prompt = "word"]
NoFiles == [f \in {"none"} |-> PlanSpec]
Files(f, g) == [k \in {"f", "g", "main"} |->
                   IF k = "f" THEN f ELSE IF k = "g" THEN g ELSE PlanSpec]
Fragment(tasks_, imports_) == [PlanSpec EXCEPT !.tasks = tasks_,
                               !.imports = [self |-> "list", entries |-> imports_]]
Raw(tasks_) == [PlanSpec EXCEPT !.tasks = tasks_] @@ [files |-> NoFiles]
RawWith(tasks_, imports_, files_) == Fragment(tasks_, imports_) @@ [files |-> files_]
Imp(prefix, file) == [PlanImport EXCEPT !.prefix = prefix, !.path = file]

\* every graph on three tasks, self loops included
Ordered(S) == SetToSortSeq(S, LAMBDA x, y : x = A \/ (x = B /\ y = C))
Graph(f) == Raw(<<Task(A, Ordered(f[1])), Task(B, Ordered(f[2])), Task(C, Ordered(f[3]))>>)

Pair == Raw(<<Task(A, <<>>), [Task(B, <<A>>) EXCEPT !.context_from = <<A>>]>>)
Full == [Pair EXCEPT
    !.defaults.self = "map", !.defaults.engines["codex"].self = "map",
    !.tasks[2].judge = [JudgeSpec EXCEPT !.self = "map", !.criteria = "list",
                            !.quorum = "number", !.quorum_strategy = "word"],
    !.tasks[2].population = [PopulationSpec EXCEPT !.self = "map", !.candidates = "list"],
    !.tasks[2].trajectory_guard.self = "map",
    !.tasks[2].council = [CouncilSpec EXCEPT !.self = "map", !.participants = "list"],
    !.tasks[2].context_mode = "council",
    !.watch = [WatchFields EXCEPT !.self = "map", !.metric = "word",
                   !.metric_pattern = "word", !.max_iterations = "number"],
    !.circuit_breaker.self = "map",
    !.mcp_servers = <<[MCPServerSpec EXCEPT !.name = "s"]>>,
    !.tasks[2].mcp_tools = [self |-> "list", names |-> <<"s">>],
    !.policies = <<PolicySpec>>]
Batched == [Pair EXCEPT !.tasks[2].batch =
                [BatchSpec EXCEPT !.self = "map", !.items = "list", !.template = "word"]]

\* one field of a full plan, with every kind of value and with the words that
\* mean something of their own
Structured == {"id", "depends_on", "context_from", "consumes_contracts", "batch",
               "consistency_group", "reconcile_after", "when", "matrix", "judge",
               "population", "council", "trajectory_guard", "mcp_tools",
               "requires_approval", "worktree", "dynamic_group", "cache", "engine",
               "context_mode", "fallback_engine"}
PlanFields_ == {"version", "name", "secrets", "audit_packs", "max_parallel",
                "max_cost_usd", "budget_warning_pct", "budget_period",
                "routing_strategy", "self", "shape", "workspace_root"}
Tweaks ==
         {"task"} \X (DOMAIN TaskSpec \ Structured) \X Kinds
    \cup {"task"} \X {"engine", "fallback_engine"} \X {"none", "odd", "claude"}
    \cup {"task"} \X {"context_mode"} \X {"none", "odd", "layered", "scip"}
    \cup {"judge"} \X (DOMAIN JudgeSpec) \X Kinds
    \cup {"population"} \X (DOMAIN PopulationSpec) \X Kinds
    \cup {"council"} \X (DOMAIN CouncilSpec) \X (Kinds \cup {"graph", "no role", "unknown role"})
    \cup {"trajectory_guard"} \X (DOMAIN TrajectoryGuardSpec) \X Kinds
    \cup {"batch"} \X (DOMAIN BatchSpec) \X Kinds
    \cup {"plan"} \X PlanFields_ \X Kinds
    \cup {"plan"} \X {"audit_pack"} \X {"missing"}
    \cup {"defaults"} \X (DOMAIN PlanDefaults \ {"engines"}) \X Kinds
    \cup {"codex"} \X (DOMAIN EngineDefaults) \X Kinds
    \cup {"watch"} \X (DOMAIN WatchFields) \X (Kinds \cup {"improve", "json_field", "manifest"})
    \cup {"breaker"} \X (DOMAIN CircuitBreakerSpec) \X Kinds
    \cup {"server"} \X (DOMAIN MCPServerSpec) \X (Kinds \cup {"stdio", "http"})
    \cup {"policy"} \X (DOMAIN PolicySpec) \X {"none", "word", "odd", "p", "q"}
Tweaked(at, k, v) ==
    CASE at = "task" -> [Full EXCEPT !.tasks[2][k] = v]
      [] at \in {"judge", "population", "council", "trajectory_guard"} ->
            [Full EXCEPT !.tasks[2][at][k] = v]
      [] at = "batch" -> [Batched EXCEPT !.tasks[2].batch[k] = v]
      [] at = "plan" -> [Full EXCEPT ![k] = v]
      [] at = "defaults" -> [Full EXCEPT !.defaults[k] = v]
      [] at = "codex" -> [Full EXCEPT !.defaults.engines["codex"][k] = v]
      [] at = "watch" -> [Full EXCEPT !.watch[k] = v]
      [] at = "breaker" -> [Full EXCEPT !.circuit_breaker[k] = v]
      [] at = "server" -> [Full EXCEPT !.mcp_servers[1][k] = v]
      [] at = "policy" -> [Full EXCEPT !.policies =
                              <<PolicySpec, [PolicySpec EXCEPT !.name = "q", ![k] = v]>>]

ImproveLoop(w, root) ==
    [Full EXCEPT !.watch.mode = "improve", !.watch.max_iterations = "tiny",
                 !.watch.warmup_iterations = w, !.workspace_root = root]

\* matrices: two by two with a dependent, values that sanitize to one name,
\* one name for two tasks, a batch or a dynamic group beside the matrix
Dims(vs) == [self |-> "map", dims |-> <<[key |-> "k", values |-> vs]>>]
Square == [self |-> "map", dims |-> <<[key |-> "k", values |-> <<"x", "y">>],
                                      [key |-> "l", values |-> <<"x", "y">>]>>]
Wide(id, deps, m) == [Task(id, deps) EXCEPT !.matrix = m, !.worktree = TRUE]
Reads(t, id) == [t EXCEPT !.context_from = <<id>>]
Matrix(m) == Raw(<<Task(A, <<>>), Wide(M, <<A>>, m), Reads(Task(C, <<M>>), M)>>)
Chained(d) == Raw(<<Wide(M, <<>>, Dims(<<"x", "y">>)), Wide(B, <<M>>, Dims(<<"x", "y">>)),
                    Task(C, d)>>)
Namesakes == Raw(<<Wide(M, <<>>, Dims(<<"x">>)), Wide(M, <<>>, Dims(<<"y">>)), Task(C, <<M>>)>>)
Crowded(g, s) == Raw(<<[Wide(M, <<>>, Dims(<<"x", "y">>)) EXCEPT !.output_schema = "map",
                           !.dynamic_group = g, !.batch.self = s, !.batch.items = "list",
                           !.batch.template = "word"]>>)

\* contracts and groups; a when expression; two tasks of one name
Linked(k, d, c, r) ==
    Raw(<<[Task(A, <<>>) EXCEPT !.contract_type = k, !.consistency_group = <<"g">>],
          [Task(B, d) EXCEPT !.consistency_group = <<"g">>],
          [Task(C, <<>>) EXCEPT !.consumes_contracts = c, !.reconcile_after = r,
                                !.consistency_group = r]>>)
Conditional(d, w) == Raw(<<Task(A, <<>>), [Task(B, d) EXCEPT !.when = {w}]>>)
Placed(k, v, dynamic, root) ==
    [Pair EXCEPT !.tasks[2].engine = "none", !.tasks[2].worktree = TRUE, !.tasks[2][k] = v,
                 !.tasks[2].prompt = IF k = "group" THEN "none" ELSE "word",
                 !.tasks[2].dynamic_group = dynamic, !.tasks[2].output_schema = "map",
                 !.workspace_root = root]

\* imports: a chain, one file twice, a cycle, the limit, overrides
Part == <<Task(A, <<>>), Reads(Task(B, <<A>>), A)>>
PB == [B EXCEPT !.pre = <<"p">>]
Tree(d, imp, fs, gs, es) ==
    RawWith(<<Task(C, d)>>, <<Imp("p", "f"), imp>>, Files(Fragment(Part, fs), Fragment(gs, es)))
Over(k, v) == RawWith(<<Task(C, <<>>)>>,
                      <<[Imp("p", "f") EXCEPT !.overrides = [x \in {k} |-> v]]>>,
                      Files(Fragment(Part, <<>>), PlanSpec))
\* a fragment and the one it imports under one prefix, with a task of one name
Nested(m, d) == RawWith(<<Task(C, <<PB>>)>>, <<Imp("p", "f")>>,
                        Files(Fragment(Part, <<Imp("p", "g")>>),
                              Fragment(<<Wide(d, <<>>, m), Task(C, <<d>>)>>, <<>>)))
Odd(k, v) == RawWith(<<Task(C, <<>>)>>, <<[Imp("p", "f") EXCEPT ![k] = v]>>,
                     Files(Fragment(Part, <<>>), PlanSpec))

MCCases ==
         {"graph"} \X [1 .. 3 -> SUBSET {A, B, C}]
    \cup {"tweak"} \X Tweaks
    \cup {"improve"} \X ({"none", "zero", "tiny"} \X {"none", "word"})
    \cup {"matrix"} \X {Square, Dims(<<"x", "y">>), Dims(<<"y", "y?">>), Dims(<<>>), Dims(<<"x">>)}
    \cup {"chained"} \X {<<B, M>>, <<[M EXCEPT !.cell = << <<"k", "x">> >>]>>, <<M, M>>}
    \cup {"namesakes"} \X {0}
    \cup {"crowded"} \X (BOOLEAN \X {"none", "map"})
    \cup {"linked"} \X ({"none", "word"} \X {<<>>, <<C>>} \X {<<>>, <<A>>, <<C>>}
                       \X {<<>>, <<"g">>, <<"h">>})
    \cup {"conditional"} \X ({<<>>, <<A>>} \X {A, C, PB})
    \cup {"list"} \X {<<>>, <<Task(A, <<>>), Task(A, <<>>)>>}
    \cup {"placed"} \X ({"engine", "group", "command"} \X {"codex", "word", "blank", "nothing"}
                       \X BOOLEAN \X {"none", "word"})
    \cup {"tree"} \X ({<<>>, <<PB>>} \X
              {Imp(q, h) : q \in {"p", "q", "Odd"}, h \in {"f", "g"}} \X
              {<<>>, <<Imp("p", "g")>>, <<Imp("r", "g")>>, <<Imp("r", "f")>>} \X
              {Part, <<Task(C, <<A>>)>>, <<Wide(M, <<>>, Dims(<<"x", "y">>)), Task(C, <<M>>)>>} \X
              {<<>>, <<Imp("s", "main")>>, <<Imp("s", "f")>>})
    \cup {"over"} \X {"max_retries", "edges", "id", "depends_on", "matrix"}
    \cup {"nested"} \X ({TaskSpec.matrix, Dims(<<"x", "y">>)} \X {A, M})
    \cup {"odd"} \X {"self", "shape"}

MCRawPlan(c) ==
    LET x == c[2] IN
    CASE c[1] = "graph" -> Graph(x)
      [] c[1] = "tweak" -> Tweaked(x[1], x[2], x[3])
      [] c[1] = "improve" -> ImproveLoop(x[1], x[2])
      [] c[1] = "matrix" -> Matrix(x)
      [] c[1] = "chained" -> Chained(x)
      [] c[1] = "namesakes" -> Namesakes
      [] c[1] = "crowded" -> Crowded(x[1], x[2])
      [] c[1] = "linked" -> Linked(x[1], x[2], x[3], x[4])
      [] c[1] = "conditional" -> Conditional(x[1], x[2])
      [] c[1] = "list" -> Raw(x)
      [] c[1] = "placed" -> Placed(x[1], x[2], x[3], x[4])
      [] c[1] = "tree" -> Tree(x[1], x[2], x[3], x[4], x[5])
      [] c[1] = "over" -> Over(x, CASE x = "id" -> A [] x = "depends_on" -> <<C>>
                                    [] x = "edges" -> "map"
                                    [] x = "matrix" -> Dims(<<"x", "y">>) [] OTHER -> "huge")
      [] c[1] = "nested" -> Nested(x[1], x[2])
      [] c[1] = "odd" -> Odd(x, "list")
=============================================================================
