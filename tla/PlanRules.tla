------------------------------ MODULE PlanRules ------------------------------
(* loader.validate_plan over a plan whose matrices are expanded and whose    *)
(* dependencies are resolved.  Each rule set is the sequence of codes it     *)
(* would raise, in the order of the code; the depth-first search for cycles  *)
(* runs between PlanCheck's task rules and the rules of AfterSearch, and is  *)
(* PlanLoader's.                                                             *)
EXTENDS PlanFields, FiniteSets

Ids(tasks) == {t.id : t \in ToSet(tasks)}
TaskOf(tasks, id) == CHOOSE t \in ToSet(tasks) : t.id = id
GroupNames(tasks) == UNION {ToSet(t.consistency_group) : t \in ToSet(tasks)}

\* identifiers that a {{ ... }} of a when expression can name: letters, digits,
\* "_" and "-", so neither an imported task nor one cell of a matrix
Plain(id) == id.pre = <<>> /\ id.cell = <<>>
Everyone == [pre |-> <<>>, base |-> "*", cell |-> <<>>]

----------------------------------------------------------------------------
(* Before the tasks                                                         *)

HeaderRules(p) ==
       Refuse(p.version \notin {"none", "number"}, "E002")
    \o Refuse(p.name = "odd", "E017")
    \o Refuse(BelowOne(p.max_parallel), "E012")
    \o Refuse(BelowOne(p.defaults.stdout_tail_lines), "E012")
    \o Refuse(p.budget_warning_pct \notin {"none", "number"}, "E023")
    \o Refuse(NotOneOf(p.budget_period), "E014")
    \o Refuse(NotOneOf(p.routing_strategy), "E053")

\* a tool names a server of the plan whose roles, if any, include the agent's
ToolRules(p, t) ==
    LET Serves(s, tool) == s.name = tool
                           /\ (NoEntries(s.roles) \/ (t.agent = "word" /\ s.roles = "list"))
    IN Refuse(\E tool \in ToSet(t.mcp_tools.names) :
                 ~\E s \in ToSet(p.mcp_servers) : Serves(s, tool), "E070")

DefaultsRules(p) ==
    LET d == p.defaults
    IN    Refuse(d.budget_warning_pct \notin {"none", "number"}, "E023")
       \o Refuse(BelowOne(d.context_budget_tokens), "E019")
       \o Refuse(NotOneOf(d.edit_policy), "E008")
       \o Refuse(\E e \in {"codex", "claude"} :
                    d.engines[e].reasoning_effort = "odd", "E008")

PlanWideRules(p) ==
    LET ids == [i \in DOMAIN p.tasks |-> p.tasks[i].id]
    IN Refuse(~IsInjective(ids), "E003") \o Refuse(p.audit_pack = "missing", "E018")

----------------------------------------------------------------------------
(* One task                                                                 *)

Present(v) == v # "none"
Types(t) == {k \in {"command", "engine", "group"} : Present(t[k])}
HasPrompt(t) == \E k \in {"prompt", "prompt_file", "prompt_md_file"} : ~NoText(t[k])

TypeRules(p, t) ==
       Refuse(t.id.base = "odd", "E017")
    \o Refuse(~(ToSet(t.depends_on) \subseteq Ids(p.tasks)), "E005")
    \o Refuse(Types(t) = {}, "E001") \o Refuse(Cardinality(Types(t)) > 1, "E011")
    \o Refuse(Present(t.group) /\ (\/ HasPrompt(t) \/ ~Falsy(t.assert)
                                   \/ Present(t.contract_type)), "E011")

BatchRules(t) ==
    IF t.batch.self = "none" THEN <<>> ELSE
       Refuse(Types(t) # {"engine"}, "E060")
    \o Refuse(t.matrix.self # "none", "E062")

DynamicRules(t) ==
    IF ~t.dynamic_group THEN <<>> ELSE
       Refuse(~Present(t.engine) \/ ~Present(t.output_schema), "E063")
    \o Refuse(\/ Present(t.group) \/ t.batch.self # "none"
              \/ t.matrix.self # "none", "E064")

ContractRules(p, t) ==
    LET Producer(id) == /\ id \in Ids(p.tasks) /\ id # t.id
                        /\ Present(TaskOf(p.tasks, id).contract_type)
    IN    Refuse(~\A id \in ToSet(t.consumes_contracts) : Producer(id), "E018")
       \o Refuse(~(ToSet(t.reconcile_after) \subseteq GroupNames(p.tasks)), "E018")

EngineRules(t) ==
       Refuse(t.engine = "odd", "E006")
    \o Refuse(Present(t.engine) /\ ~Present(t.command) /\ ~HasPrompt(t)
              /\ t.batch.self = "none", "E007")
    \o Refuse(NoText(t.prompt_md_file) # NoText(t.prompt_md_heading), "E011")
    \o Refuse(t.engine \in {"codex", "claude"} /\ t.reasoning_effort = "odd", "E008")

\* mutant: context may come from any task of the plan
ContextRulesLoose(p, t) ==
       Refuse(t.id \in ToSet(t.depends_on), "E016")
    \o Refuse(\E c \in ToSet(t.context_from) \ {Everyone} : c \notin Ids(p.tasks), "E010")

ContextRules(p, t) ==
       Refuse(t.id \in ToSet(t.depends_on), "E016")
    \o Refuse(\E c \in ToSet(t.context_from) \ {Everyone} :
                 c \notin Ids(p.tasks) \cap ToSet(t.depends_on), "E010")

ResilienceRules(t) ==
       Refuse(t.max_retries \in {"minus", "huge"}, "E012")
    \o Refuse(~NoEntries(t.escalation) /\ (\/ ~Present(t.engine)
                                           \/ t.escalation = "blank"), "E031")
    \o Refuse(Present(t.fallback_engine)
              /\ (\/ ~Present(t.engine)
                  \/ t.fallback_engine \notin ToSet(EngineNames)), "E030")
    \o Refuse(Present(t.fallback_model) /\ ~Present(t.fallback_engine), "E030")

\* _validate_allowed_tools; its other branches only warn
AllowedToolsRules(t) ==
    Refuse(Present(t.allowed_tools) /\ ~Present(t.engine), "E071")

LimitRules(t) ==
       Refuse(BelowOne(t.max_iterations), "E022")
    \o Refuse(~NoText(t.approval_message) /\ ~t.requires_approval, "E029")
    \o Refuse(BelowOne(t.stdout_tail_lines), "E012")
    \o Refuse(BelowOne(t.context_budget_tokens), "E019")

\* the parser has established these; the rules hold of every judge it returns
JudgeRules(t) ==
    IF t.judge.self = "none" THEN <<>> ELSE
       Refuse(t.judge.item = "blank", "E020")
    \o Refuse(t.judge.pass_threshold \in {"minus", "huge"}, "E020")
    \o Refuse(NotOneOf(t.judge.on_fail) \/ t.judge.model = "blank", "E020")

NeedsContext == {"summarized", "map_reduce", "layered", "structural", "knowledge_graph"}
NeedsWorkspace == {"recursive", "codebase_map", "scip"}

ModeRules(p, t) ==
       Refuse(NotOneOf(t.edit_policy), "E008") \o Refuse(t.context_mode = "odd", "E008")
    \o Refuse(t.context_mode \in NeedsContext /\ t.context_from = <<>>, "E001")
    \o Refuse(t.context_mode \in NeedsWorkspace /\ p.workspace_root # "word", "E021")
    \o Refuse((t.context_mode = "council") # (t.council.self # "none"), "E001")

WhenRules(p, t) ==
    Refuse(\E r \in t.when : /\ Plain(r)
                             /\ r \notin Ids(p.tasks) \cap ToSet(t.depends_on), "E015")

TaskRules(p, t) ==
       TypeRules(p, t) \o BatchRules(t) \o DynamicRules(t) \o ContractRules(p, t)
    \o EngineRules(t) \o ContextRules(p, t) \o ResilienceRules(t)
    \o AllowedToolsRules(t) \o LimitRules(t) \o JudgeRules(t) \o ModeRules(p, t)
    \o WhenRules(p, t)

PlanRefusals(p) ==
    LET Tools(t) == ToolRules(p, t)
        Rules(t) == TaskRules(p, t)
    IN    HeaderRules(p) \o InTurn(p.tasks, Tools) \o DefaultsRules(p)
       \o PlanWideRules(p) \o InTurn(p.tasks, Rules)

----------------------------------------------------------------------------
(* After the search for cycles                                              *)

\* what the kinds of the watch block's counts stand for
Count(v) == IF v = "minus" THEN -1 ELSE IF v = "zero" THEN 0
            ELSE IF v \in {"tiny", "flag"} THEN 1 ELSE IF v = "number" THEN 5 ELSE 100
WarmUp(w) == IF w.warmup_iterations # "none" THEN Count(w.warmup_iterations)
             ELSE IF Improves(w) THEN 0 ELSE 1
Source(w) == IF w.metric_source # "none" THEN w.metric_source
             ELSE IF Improves(w) THEN "manifest" ELSE "stdout_regex"

WatchRules(p) ==
    LET w == p.watch
    IN IF w.self = "none" THEN <<>> ELSE
          Refuse(NotOneOf(w.metric_direction), "E033")
       \o Refuse(Source(w) \notin {"stdout_regex", "verify_command", "guard_command",
                                   "json_field", "manifest"}, "E033")
       \o Refuse(Source(w) = "stdout_regex" /\ w.metric_pattern # "word", "E034")
       \o Refuse(Source(w) = "json_field" /\ NoText(w.metric_json_path), "E035")
       \o Refuse(Count(w.max_iterations) < 1, "E036")
       \o Refuse(WarmUp(w) \notin 0 .. Count(w.max_iterations) - 1, "E037")
       \o Refuse(BelowOne(w.plateau_threshold), "E038")
       \o Refuse(BelowOne(w.max_cost_usd), "E039")
       \o Refuse(w.metric_task = "odd", "E040") \o Refuse(NotOneOf(w.on_regression), "E041")
       \o Refuse(w.program_md = "odd", "E042") \o Refuse(NotOneOf(w.plateau_action), "E043")
       \o Refuse(BelowOne(w.iteration_budget_sec), "E044")
       \o Refuse(BelowOne(w.max_total_steps), "E066")
       \o Refuse(Improves(w) /\ NoText(p.workspace_root), "E047")

\* mutant: only the group task is refused
WorktreeRulesGroupOnly(p, t) ==
    IF ~t.worktree THEN <<>> ELSE Refuse(~NoText(t.group), "E046")

WorktreeRules(p, t) ==
    IF ~t.worktree THEN <<>> ELSE
       Refuse(NoText(p.workspace_root), "E045")
    \o Refuse(~NoText(t.group) \/ (~Falsy(t.command) /\ ~Present(t.engine)), "E046")

\* compile_policy only parses the rule: "odd" is a syntax error, "call" an
\* expression the evaluator will not take
PolicyRules(policies) ==
       Refuse(\E y \in ToSet(policies) : Falsy(y.name) \/ Falsy(y.rule), "E052")
    \o Refuse(\E y \in ToSet(policies) : NotOneOf(y.action) \/ y.rule = "odd", "E052")
    \o Refuse(\E i, k \in DOMAIN policies :
                 i # k /\ policies[i].name = policies[k].name, "E052")

AfterSearch(p) ==
    LET Worktree(t) == WorktreeRules(p, t)
    IN WatchRules(p) \o InTurn(p.tasks, Worktree) \o PolicyRules(p.policies)

----------------------------------------------------------------------------
(* The advice of _collect_warnings that reads more than one field            *)

Valve(p, t) ==
    \/ t.retry_delay_sec \in {"tiny", "number", "huge", "list", "single"}
    \/ p.defaults.retry_delay_sec \in {"tiny", "number", "huge", "list", "single"}
    \/ ~NoEntries(t.escalation) \/ ~NoText(t.fallback_engine)
    \/ Present(t.verify_command) \/ Present(t.guard_command)
    \/ ~Falsy(t.assert) \/ t.judge.self # "none"

\* -- W20: retries without an escape valve
RetriesAreFutile(p, t) ==
    /\ t.max_retries # "none" /\ ~BelowOne(t.max_retries)
    /\ ~Present(t.group) /\ ~Valve(p, t)

TaskWarnings(p, t) ==
    LET none == t.max_retries \in {"none", "zero"} IN
       (IF RetriesAreFutile(p, t) THEN {"W20"} ELSE {})
    \cup (IF ~NoEntries(t.escalation) /\ none THEN {"W15"} ELSE {})
    \cup (IF Present(t.fallback_engine) /\ t.fallback_engine = t.engine
          THEN {"W13"} ELSE {})
=============================================================================
