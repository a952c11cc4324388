----------------------------- MODULE PlanFields -----------------------------
(* What loader.load_plan makes of the fields of a plan file before any task  *)
(* is seen as part of a graph: the _to_* parsers and the checks of the task  *)
(* loop, in the order in which the code runs them.  A raw YAML value is one  *)
(* of Kinds; a parser is the sequence of the codes it would raise, and the   *)
(* first one of a load is the one its caller sees.                           *)
EXTENDS Integers, SequencesExt, TLC

\* "none": missing.  "word": a text the field allows, "odd": another text,
\* "blank": the empty text.  "number": a number within the field's limits,
\* "tiny" (one) and "huge": positive and outside them where it has any.
\* "single" and "mixed": a list of one entry, a list with an entry that is
\* not a text.
Texts == {"word", "odd", "blank"}
Numbers == {"minus", "zero", "tiny", "number", "huge", "flag"}
Lists == {"list", "single", "mixed", "nothing"}
Kinds == {"none", "map"} \cup Texts \cup Numbers \cup Lists

Falsy(v) == v \in {"none", "blank", "zero", "nothing"}
\* after str(): "0" and "[]" are texts; after _to_str_list: <<"">> is a list
NoText(v) == v \in {"none", "blank"}
NoEntries(v) == v \in {"none", "nothing"}
\* int() and float() raise on everything else that is there
NotNumeric(v) == v \notin Numbers \cup {"none"}
BelowOne(v) == v \in {"minus", "zero"}
BelowTwo(v) == v \in {"minus", "zero", "tiny", "flag"}
NotOneOf(v) == v \notin {"none", "word"}
NotObject(v) == v \notin {"none", "map"}

Refuse(bad, code) == IF bad THEN <<code>> ELSE <<>>
InTurn(seq, Refusals(_)) ==
    FlattenSeq([i \in DOMAIN seq |-> Refusals(seq[i])])

----------------------------------------------------------------------------
(* The dataclasses of models.py, with every field the loader reads and the   *)
(* value it has when the file says nothing                                   *)

Unset(fields) == [k \in fields |-> "none"]
Block(fields, given) ==
    [k \in fields \cup DOMAIN given |-> IF k \in DOMAIN given THEN given[k] ELSE "none"]

JudgeSpec == Block({"self", "preset", "criteria", "pass_threshold", "on_fail",
                    "model", "method", "aggregation", "timeout_sec", "quorum",
                    "quorum_strategy", "debate_rounds"}, [item |-> "text"])
BatchSpec == Unset({"self", "items", "template", "max_per_call"})
PopulationSpec == Unset({"self", "candidates", "strategy"})
TrajectoryGuardSpec ==
    Unset({"self", "on_violation", "max_tool_calls", "max_retries_without_progress",
           "scope_pattern"})
CouncilSpec ==
    Block({"self", "participants", "rounds", "topology", "consensus_threshold",
           "connections"}, [item |-> "ok", edge |-> "ok"])
CircuitBreakerSpec == Unset({"self", "max_total_failures", "action"})
MCPServerSpec == Block({"name", "transport", "url", "roles", "timeout_sec"},
                 [self |-> "map", command |-> "word"])
PolicySpec == [name |-> "p", rule |-> "word", action |-> "none"]
EngineDefaults ==
    Unset({"self", "args", "reasoning_effort", "escalation", "fallback_engine",
           "fallback_model", "allowed_tools"})
WatchFields ==
    Unset({"self", "mode", "metric", "metric_direction", "metric_source",
           "metric_pattern", "metric_json_path", "metric_task", "max_iterations",
           "warmup_iterations", "plateau_threshold", "plateau_action", "max_cost_usd",
           "on_regression", "program_md", "iteration_budget_sec", "max_total_steps"})

EngineNames == <<"codex", "claude", "gemini", "copilot", "qwen", "ollama", "llama">>
PlanDefaults ==
    Block({"self", "retry_strategy", "secrets", "secrets_auto", "env", "timeout_sec",
           "stdout_tail_lines", "retry_delay_sec", "budget_warning_pct",
           "context_budget_tokens", "workspace_index_exclude", "context_compaction",
           "edit_policy"},
    [engines |-> [e \in ToSet(EngineNames) |-> EngineDefaults]])

Name(base) == [pre |-> <<>>, base |-> base, cell |-> <<>>]
TaskSpec ==
    Block({"engine", "command", "group", "prompt", "prompt_file", "prompt_md_file",
           "prompt_md_heading", "edges", "args", "env", "timeout_sec", "max_retries",
           "retry_delay_sec", "assert", "contract_type", "max_iterations", "escalation",
           "context_budget_tokens", "stdout_tail_lines", "negative_cache_ttl_sec",
           "tags", "retry_strategy", "context_compaction", "context_trust",
           "output_schema", "deliberation_threshold", "reminders", "reminder",
           "output_redact", "context_allowlist", "allowed_tools", "on_grant_violation",
           "pre_command", "verify_command", "guard_command", "fallback_engine",
           "fallback_model", "agent", "reasoning_effort", "approval_message",
           "edit_policy", "context_mode"},
    [self |-> "map", id |-> Name("blank"), depends_on |-> <<>>, context_from |-> <<>>,
        consumes_contracts |-> <<>>, consistency_group |-> <<>>, reconcile_after |-> <<>>,
        when |-> {}, matrix |-> [self |-> "none", dims |-> <<>>], batch |-> BatchSpec,
        judge |-> JudgeSpec, population |-> PopulationSpec, council |-> CouncilSpec,
        trajectory_guard |-> TrajectoryGuardSpec,
        mcp_tools |-> [self |-> "none", names |-> <<>>],
        requires_approval |-> FALSE, worktree |-> FALSE, dynamic_group |-> FALSE,
        cache |-> TRUE])

NoImports == [self |-> "none", entries |-> <<>>]
PlanImport == [self |-> "map", prefix |-> "p", path |-> "none", shape |-> "none",
               overrides |-> <<>>]
\* "self" is the file's root, "shape" what its "tasks" key holds
PlanSpec ==
    Block({"version", "name", "secrets", "audit_packs", "max_parallel", "max_cost_usd",
           "budget_warning_pct", "budget_period", "routing_strategy"},
    [self |-> "map", shape |-> "list", tasks |-> <<>>, imports |-> NoImports,
        defaults |-> PlanDefaults, watch |-> WatchFields,
        circuit_breaker |-> CircuitBreakerSpec, policies |-> <<>>, mcp_servers |-> <<>>,
        audit_pack |-> "found", workspace_root |-> "word", warnings |-> {}])

----------------------------------------------------------------------------
(* Parsers of one value                                                     *)

ToStrDict(v) == Refuse(NotObject(v), "E018")
ToStrList(v) == Refuse(v \in Numbers \cup {"map"}, "E018")
ToIntOrNone(v) == Refuse(NotNumeric(v), "E018")
ToContextBudget(v) == Refuse(NotNumeric(v) \/ BelowOne(v), "E019")
ToContractType(v) == Refuse(NotOneOf(v), "E018")
ToAssertions(v) == Refuse(v \notin {"none", "list", "single", "nothing"}, "E018")
ToFloat(v) == Refuse(NotNumeric(v), "E018") \o Refuse(BelowOne(v), "E012")
ToPct(v) == Refuse(NotNumeric(v), "E018")
ToDelay(v) == Refuse(v \in Texts \cup {"map", "mixed", "minus"}, "E013")
ParseRetryStrategy(v, default) ==
    Refuse(NotOneOf(IF v # "none" THEN v ELSE default), "E051")
ParseCompaction(v) == Refuse(NotOneOf(v), "E068")
\* a bare int(): its ValueError carries no code
BareInt(v) == Refuse(NotNumeric(v), "uncoded")
\* command, pre_command, verify_command, guard_command
ToCommand(v) == Refuse(v \in Numbers \cup {"map", "mixed"}, "E018")

----------------------------------------------------------------------------
(* Parsers of a block: a record of the kinds of its fields, with the kind of *)
(* the block itself in "self".  "item" is the worst entry of its list.       *)

JudgeCriteria(j) ==
       Refuse(NotObject(j.self), "E020") \o Refuse(NotOneOf(j.preset), "E020")
    \o Refuse(~(j.preset = "word" /\ Falsy(j.criteria))
              /\ j.criteria \notin {"list", "single"}, "E020")
    \o Refuse(j.item \notin {"text", "typed"}, "E020")

JudgeScale(j) ==
       Refuse(NotNumeric(j.pass_threshold)
              \/ j.pass_threshold \in {"minus", "huge"}, "E020")
    \o Refuse(\E v \in {j.method, j.aggregation, j.on_fail} : NotOneOf(v), "E020")
    \o Refuse(j.model = "blank", "E020")
    \o Refuse(NotNumeric(j.timeout_sec) \/ BelowTwo(j.timeout_sec), "E020")

JudgeQuorum(j) ==
       Refuse(NotNumeric(j.quorum) \/ BelowTwo(j.quorum), "E054")
    \o Refuse(NotOneOf(j.quorum_strategy), "E055")
    \o Refuse(j.quorum_strategy # "none" /\ j.quorum = "none", "E056")

ParseDebateRounds(j) ==
    Refuse(NotNumeric(j.debate_rounds) \/ BelowOne(j.debate_rounds), "E020")

ToJudge(j) ==
    IF j.self = "none" THEN <<>>
    ELSE JudgeCriteria(j) \o JudgeScale(j) \o JudgeQuorum(j) \o ParseDebateRounds(j)

ToTrajectoryGuard(g) ==
    IF g.self = "none" THEN <<>> ELSE
       Refuse(NotObject(g.self), "E018")
    \o Refuse(NotOneOf(g.on_violation), "E008")
    \o BareInt(g.max_tool_calls) \o Refuse(BelowOne(g.max_tool_calls), "E012")
    \o BareInt(g.max_retries_without_progress)
    \o Refuse(BelowOne(g.max_retries_without_progress), "E012")
    \o Refuse(g.scope_pattern = "odd", "E008")

ToPopulation(p) ==
    IF p.self = "none" THEN <<>> ELSE
       Refuse(NotObject(p.self), "E018")
    \o Refuse(p.candidates \notin {"list", "mixed"}, "E012")
    \o Refuse(NotOneOf(p.strategy), "E008")

ToCouncil(c) ==
    IF c.self = "none" THEN <<>> ELSE
    LET members == Refuse(NotObject(c.self), "E018")
                \o Refuse(c.participants \notin {"list", "mixed"}, "E012")
                \o Refuse(c.participants = "mixed", "E018")
                \o Refuse(c.item = "unknown engine", "E006")
        debate == BareInt(c.rounds)
               \o Refuse(BelowOne(c.rounds) \/ c.rounds = "huge", "E012")
               \o Refuse(c.topology \notin {"none", "word", "graph"}, "E008")
               \o BareInt(c.consensus_threshold)
               \o Refuse(BelowOne(c.consensus_threshold)
                         \/ c.consensus_threshold = "huge", "E012")
        graph == Refuse(c.connections \notin {"none", "map", "nothing"}, "E072")
              \o Refuse(c.edge \in {"unknown role", "not a list"}, "E072")
              \o Refuse(c.topology = "graph" /\ c.connections # "map", "E072")
              \o Refuse(c.topology = "graph" /\ c.item = "no role", "E072")
    IN members \o debate \o graph

\* the dimensions of a matrix are the values listed under each key
ToMatrix(x) ==
    IF x.self = "none" THEN <<>> ELSE
       Refuse(NotObject(x.self), "E018")
    \o Refuse(\E d \in ToSet(x.dims) : d.values = <<>>, "E018")
    \o Refuse(x.dims = <<>>, "E018")

ToBatch(b) ==
    IF b.self = "none" THEN <<>> ELSE
       Refuse(NotObject(b.self), "E057")
    \o Refuse(b.items \notin Lists \ {"nothing"}, "E057")
    \o Refuse(b.template # "word", "E057")
    \o Refuse(NotNumeric(b.max_per_call) \/ BelowOne(b.max_per_call), "E058")

ToReminders(v, item) ==
       Refuse(v \notin {"none"} \cup Lists, "E018")
    \o Refuse(v = "mixed", "E018")
    \o Refuse(item \in {"no key", "blank"}, "E067")

ToOutputRedact(v) ==
       Refuse(v \in Numbers \cup {"map"}, "E018") \o Refuse(v = "odd", "E008")

----------------------------------------------------------------------------
(* The stages of load_plan                                                  *)

\* int(version) and _migrate_plan: only version 1, "number", is supported
VersionRefusals(raw) ==
    BareInt(raw.version) \o Refuse(raw.version \notin {"none", "number"}, "E002")

\* one engine's block under "defaults"
EngineRefusals(e) == ToStrList(e.args)
ResilienceRefusals(e) == ToStrList(e.escalation) \o ToStrList(e.allowed_tools)

DefaultsRefusals(raw) ==
    LET d == raw.defaults
        engines == [i \in DOMAIN EngineNames |-> d.engines[EngineNames[i]]]
    IN    Refuse(raw.secrets \notin {"none", "word"} \cup Lists, "E024")
       \o Refuse(~Falsy(d.self) /\ d.self # "map", "E018")
       \o Refuse(NotOneOf(d.retry_strategy), "E051")
       \o ToStrList(d.secrets)
       \o Refuse(d.secrets_auto \notin {"none", "flag"}, "E018")
       \o Refuse(\E e \in ToSet(engines) : ~Falsy(e.self) /\ e.self # "map", "E018")
       \o ToStrDict(d.env) \o ToIntOrNone(d.timeout_sec)
       \o BareInt(d.stdout_tail_lines) \o ToDelay(d.retry_delay_sec)
       \o ToPct(d.budget_warning_pct) \o ToContextBudget(d.context_budget_tokens)
       \o ToStrList(d.workspace_index_exclude)
       \o ParseCompaction(d.context_compaction)
       \o InTurn(engines, EngineRefusals) \o InTurn(engines, ResilienceRefusals)
       \o ToStrList(raw.audit_packs)

\* the keyword arguments of TaskSpec(...), in their order
ConstructorRefusals(t, default) ==
       ToStrList(t.edges) \o ToStrList(t.args) \o ToStrDict(t.env)
    \o ToIntOrNone(t.timeout_sec) \o BareInt(t.max_retries)
    \o ToDelay(t.retry_delay_sec) \o ToAssertions(t.assert)
    \o ToContractType(t.contract_type) \o ToIntOrNone(t.max_iterations)
    \o ToStrList(t.escalation) \o ToContextBudget(t.context_budget_tokens)
    \o ToIntOrNone(t.stdout_tail_lines) \o ToIntOrNone(t.negative_cache_ttl_sec)
    \o ToMatrix(t.matrix) \o ToBatch(t.batch) \o ToJudge(t.judge)
    \o ToStrList(t.tags) \o ParseRetryStrategy(t.retry_strategy, default)

\* what the loop sets on the task after it has been constructed
AttributeRefusals(t) ==
       Refuse(NotOneOf(t.context_compaction), "E068")
    \o Refuse(t.negative_cache_ttl_sec = "minus", "E013")
    \o Refuse(NotOneOf(t.context_trust), "E065")
    \o Refuse(NotObject(t.output_schema), "E018")
    \o Refuse(NotNumeric(t.deliberation_threshold)
              \/ t.deliberation_threshold \in {"minus", "huge"}, "E008")
    \o ToReminders(t.reminders, t.reminder) \o ToOutputRedact(t.output_redact)
    \o ToStrList(t.context_allowlist) \o ToTrajectoryGuard(t.trajectory_guard)
    \o ToPopulation(t.population) \o ToStrList(t.mcp_tools.self)
    \o ToStrList(t.allowed_tools)
    \o Refuse(NotOneOf(t.on_grant_violation), "E073")
    \o Refuse(t.on_grant_violation # "none" /\ t.allowed_tools = "none", "E073")
    \o ToCouncil(t.council)

CommandRefusals(t) ==
       ToCommand(t.command) \o ToCommand(t.pre_command)
    \o ToCommand(t.verify_command) \o ToCommand(t.guard_command)

TaskRefusals(t, default) ==
       Refuse(t.self # "map", "E018") \o Refuse(t.id.base = "blank", "E001")
    \o ConstructorRefusals(t, default) \o AttributeRefusals(t)
    \o CommandRefusals(t)

\* the engine's defaults fill what the task leaves open
WithEngineDefaults(t, defaults) ==
    IF t.engine \notin ToSet(EngineNames) THEN t ELSE
    LET e == defaults.engines[t.engine]
    IN [t EXCEPT !.escalation = IF NoEntries(@) THEN e.escalation ELSE @,
                 !.fallback_engine = IF @ = "none" THEN e.fallback_engine ELSE @,
                 !.fallback_model = IF @ = "none" THEN e.fallback_model ELSE @,
                 !.allowed_tools = IF @ = "none" THEN e.allowed_tools ELSE @]

Improves(w) == w.mode = "improve"

WatchRefusals(w) ==
    IF w.self = "none" THEN <<>> ELSE
       Refuse(NotObject(w.self), "E032")
    \o Refuse(w.mode \notin {"none", "custom", "improve"}, "E048")
    \o Refuse(IF Falsy(w.metric) THEN ~Improves(w) ELSE w.metric \notin Texts, "E032")
    \o BareInt(w.max_iterations) \o BareInt(w.iteration_budget_sec)
    \o BareInt(w.warmup_iterations) \o BareInt(w.plateau_threshold)
    \o BareInt(w.max_cost_usd) \o BareInt(w.max_total_steps)

BreakerRefusals(b) ==
    IF b.self = "none" THEN <<>> ELSE
       Refuse(NotObject(b.self), "E050")
    \o Refuse(NotNumeric(b.max_total_failures)
              \/ BelowOne(b.max_total_failures), "E050")
    \o Refuse(NotOneOf(b.action), "E050")

ServerRefusals(s) ==
       Refuse(s.self # "map", "E069") \o Refuse(s.name = "blank", "E069")
    \o Refuse(s.transport \notin {"none", "stdio", "http", "sse"}, "E069")
    \o Refuse(s.transport \in {"none", "stdio"} /\ Falsy(s.command), "E069")
    \o Refuse(s.transport \in {"http", "sse"} /\ Falsy(s.url), "E069")
    \o ToStrList(s.roles) \o BareInt(s.timeout_sec)

\* the PlanSpec(...) call, its policies and its MCP servers
SpecRefusals(raw) ==
       BareInt(raw.max_parallel) \o ToFloat(raw.max_cost_usd)
    \o ToPct(raw.budget_warning_pct)
    \o InTurn(raw.mcp_servers, ServerRefusals)
    \o Refuse(\E i, k \in DOMAIN raw.mcp_servers :
                 i # k /\ raw.mcp_servers[i].name = raw.mcp_servers[k].name, "E069")
=============================================================================
