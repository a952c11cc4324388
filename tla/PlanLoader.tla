----------------------------- MODULE PlanLoader -----------------------------
(* loader.load_plan: a plan file and the fragments it imports become one     *)
(* list of tasks, matrices are expanded, dependencies resolved, the result   *)
(* validated and searched for cycles.  The recursion of _resolve_imports and *)
(* of the depth-first search are stacks; every other stage is one step that  *)
(* refuses the plan with the first code raised or hands it on.               *)
EXTENDS PlanRules

CONSTANTS
    Cases,          \* the cases looked at
    RawPlan(_),     \* the files a case stands for
    ImportMaxDepth, \* _IMPORT_MAX_DEPTH
    Sanitize        \* _sanitize_id_part on the values of a matrix

\* Where the loader walks a list there is one, and a block has its fields: the
\* kinds stand for everything else that a file may hold there.
IsList(s) == s \in Seq(ToSet(s))
IsName(v) == v = [pre |-> v.pre, base |-> v.base, cell |-> v.cell] /\ IsList(v.pre)
IsField(k, v) ==
    /\ k = "id" => IsName(v)
    /\ k \in {"depends_on", "context_from", "consumes_contracts", "consistency_group",
              "reconcile_after"} => IsList(v)
    /\ k = "judge" => DOMAIN JudgeSpec \subseteq DOMAIN v
    /\ k = "matrix" => "dims" \in DOMAIN v /\ IsList(v.dims) /\ \A d \in ToSet(v.dims) : IsList(d.values)
IsTask(t) == DOMAIN TaskSpec \subseteq DOMAIN t /\ \A k \in DOMAIN TaskSpec : IsField(k, t[k])
IsFile(f) ==
    /\ DOMAIN PlanSpec \subseteq DOMAIN f
    /\ IsList(f.tasks) /\ \A t \in ToSet(f.tasks) : IsTask(t)
    /\ IsList(f.imports.entries) /\ IsList(f.mcp_servers)
FilesAssumption ==
    \A c \in Cases :
        LET files == RawPlan(c).files
            all == {RawPlan(c)} \cup {files[f] : f \in DOMAIN files}
        IN \A file \in all :
               /\ IsFile(file)
               /\ \A e \in ToSet(file.imports.entries) :
                     /\ e.path \in DOMAIN files
                     /\ \A k \in DOMAIN e.overrides : IsField(k, e.overrides[k])
ASSUME FilesAssumption

VARIABLES
    raw,        \* the plan file and its fragments
    phase,      \* the stage the load is in
    verdict,    \* "open", "accepted" or the code of the refusal
    frames,     \* the calls of _resolve_imports in progress, innermost last
    seen,       \* the files imported so far, over the whole tree
    tasks,      \* the tasks collected so far
    plan,       \* <<>> or the plan that has been built
    path,       \* the nodes being visited, with their next dependency
    visited     \* the nodes the search is done with

vars == <<raw, phase, verdict, frames, seen, tasks, plan, path, visited>>

Init ==
    /\ \E c \in Cases : raw = RawPlan(c)
    /\ phase = "read" /\ verdict = "open"
    /\ frames = <<>> /\ seen = {} /\ tasks = <<>>
    /\ plan = <<>> /\ path = <<>> /\ visited = {}

\* refuse with the first code, or go to the next stage
Settle(refusals, next) ==
    IF refusals # <<>> THEN phase' = "done" /\ verdict' = refusals[1]
    ELSE phase' = next /\ UNCHANGED verdict

----------------------------------------------------------------------------
(* Imports                                                                  *)

Imports(file) == IF file = "main" THEN raw.imports ELSE raw.files[file].imports

\* the first checks of _resolve_imports, at the depth of the new call
EnterRefusals(imports, depth) ==
       Refuse(imports.self \notin Lists \cup {"none"}, "E026")
    \o Refuse(imports.entries # <<>> /\ depth > ImportMaxDepth, "E025")

\* the file exists, is YAML and an object, in a schema version this code reads
ReadPlan ==
    /\ phase = "read"
    /\ Settle(Refuse(raw.self = "unreadable", "uncoded")
              \o Refuse(raw.self # "map", "E018") \o VersionRefusals(raw)
              \o EnterRefusals(raw.imports, 0), "import")
    /\ frames' = <<[file |-> "main", next |-> 1]>>
    /\ UNCHANGED <<raw, seen, tasks, plan, path, visited>>

Frame == frames[Len(frames)]
Entries == Imports(Frame.file).entries
Pending == Frame.next <= Len(Entries)

ImportRefusals(imp, earlier) ==
    LET file == raw.files[imp.path] IN
       Refuse(imp.self # "map", "E026") \o Refuse(imp.prefix = "Odd", "E028")
    \o Refuse(\E e \in ToSet(earlier) : e.prefix = imp.prefix, "E027")
    \o Refuse(imp.path \in seen, "E025")
    \o Refuse(file.self # "map", "E026") \o Refuse(file.shape \notin Lists, "E026")
    \o EnterRefusals(file.imports, Len(frames))

\* the next entry of the innermost import list is read, and its own imports first
Import ==
    /\ phase = "import" /\ Pending
    /\ LET imp == Entries[Frame.next]
       IN /\ Settle(ImportRefusals(imp, SubSeq(Entries, 1, Frame.next - 1)), "import")
          /\ seen' = seen \cup {imp.path}
          /\ frames' = Append(frames, [file |-> imp.path, next |-> 1])
    /\ UNCHANGED <<raw, tasks, plan, path, visited>>

\* a name without "/" belongs to the fragment it stands in
Qualify(prefix, id) ==
    IF id.pre # <<>> \/ id = Everyone THEN id ELSE [id EXCEPT !.pre = <<prefix>>]
QualifyDep(prefix, id) ==
    IF id.pre # <<>> THEN id ELSE [id EXCEPT !.pre = <<prefix>>]

Prefixed(prefix, t) ==
    [t EXCEPT !.id.pre = <<prefix>> \o @,
              !.depends_on = [i \in DOMAIN @ |-> QualifyDep(prefix, @[i])],
              !.context_from = [i \in DOMAIN @ |-> Qualify(prefix, @[i])]]

\* an override replaces the field after the prefixing, whatever the field
Overridden(t, overrides) ==
    [k \in DOMAIN t |-> IF k \in DOMAIN overrides THEN overrides[k] ELSE t[k]]

FragmentRefusals(t) ==
       Refuse(t.self # "map", "E026") \o Refuse(t.id.base = "blank", "E026")
    \o Refuse(t.edges \in Numbers \cup {"map"}, "E026")

\* the innermost file's imports are in; its tasks follow under its prefix
Splice ==
    /\ phase = "import" /\ ~Pending /\ Len(frames) > 1
    /\ LET caller == frames[Len(frames) - 1]
           imp == Imports(caller.file).entries[caller.next]
           own == raw.files[Frame.file].tasks
       IN /\ Settle(Refuse(imp.shape \notin {"none", "map"}, "E026")
                    \o InTurn(own, FragmentRefusals), "import")
          /\ tasks' = tasks \o [i \in DOMAIN own |->
                         Overridden(Prefixed(imp.prefix, own[i]), imp.overrides)]
          /\ frames' = [Front(frames) EXCEPT ![Len(frames) - 1].next = @ + 1]
    /\ UNCHANGED <<raw, seen, plan, path, visited>>

----------------------------------------------------------------------------
(* Fields, matrices and dependencies                                        *)

ImportsDone == phase = "import" /\ ~Pending /\ Len(frames) = 1

\* the main file's tasks come last; every field of every task is parsed and the
\* engines' defaults are filled in
Parse ==
    /\ ImportsDone
    /\ LET all == tasks \o raw.tasks
           Fields(t) == TaskRefusals(t, raw.defaults.retry_strategy)
       IN /\ Settle(Refuse(raw.shape \notin Lists \cup {"none"}, "E018")
                    \o DefaultsRefusals(raw) \o Refuse(all = <<>>, "E001")
                    \o InTurn(all, Fields), "expand")
          /\ tasks' = [i \in DOMAIN all |-> WithEngineDefaults(all[i], raw.defaults)]
    /\ UNCHANGED <<raw, frames, seen, plan, path, visited>>

\* the cells so far, each with every value of one more dimension
Crossed(cells, d) ==
    LET With(cell) == [k \in DOMAIN d.values |-> Append(cell, <<d.key, Sanitize[d.values[k]]>>)]
    IN InTurn(cells, With)
Cells(x) ==
    LET cells[n \in 0 .. Len(x.dims)] ==
            IF n = 0 THEN <<(<<>>)>> ELSE Crossed(cells[n - 1], x.dims[n])
    IN cells[Len(x.dims)]

Absent(block) == [block EXCEPT !.self = "none"]

\* the fields the expansion does not copy fall back to their defaults
Child(t, cell) ==
    [t EXCEPT !.id.cell = cell, !.matrix = Absent(@),
              !.batch = Absent(@), !.population = Absent(@), !.council = Absent(@),
              !.trajectory_guard = Absent(@), !.mcp_tools.names = <<>>,
              !.judge.timeout_sec = "none", !.judge.debate_rounds = "none",
              !.worktree = FALSE, !.dynamic_group = FALSE,
              !.retry_strategy = "none", !.allowed_tools = "none",
              !.on_grant_violation = "none", !.deliberation_threshold = "none",
              !.reminders = "none", !.output_redact = "none",
              !.context_allowlist = "none"]

Children(t) ==
    IF t.matrix.self = "none" THEN <<t>>
    ELSE LET cells == Cells(t.matrix)
         IN [i \in DOMAIN cells |-> Child(t, cells[i])]

\* mutant: a reference stands for the first child alone
ExpandedFirst(id, list) ==
    LET owners == {i \in DOMAIN list : list[i].id = id /\ list[i].matrix.self # "none"}
    IN IF owners = {} THEN <<id>> ELSE <<Children(list[Max(owners)])[1].id>>

\* a reference to a matrix task is a reference to all its children; when two
\* tasks share the name the children of the later one stand for it
Expanded(id, list) ==
    LET owners == {i \in DOMAIN list : list[i].id = id /\ list[i].matrix.self # "none"}
        children == Children(list[Max(owners)])
    IN IF owners = {} THEN <<id>> ELSE [i \in DOMAIN children |-> children[i].id]

ExpandMatrixTasks(list) ==
    LET flat == InTurn(list, Children)
        All(ids) == LET Names(id) == Expanded(id, list) IN InTurn(ids, Names)
    IN [i \in DOMAIN flat |-> [flat[i] EXCEPT !.depends_on = All(@),
                                              !.context_from = All(@)]]

Just(cond, id) == IF cond THEN <<id>> ELSE <<>>

\* each name where it stands first
Once(ids) ==
    LET once[n \in 0 .. Len(ids)] ==
            IF n = 0 THEN <<>>
            ELSE IF ids[n] \in ToSet(once[n - 1]) THEN once[n - 1] ELSE Append(once[n - 1], ids[n])
    IN once[Len(ids)]

GroupMembers(list, g) ==
    LET Member(u) == Just(g \in ToSet(u.consistency_group), u.id) IN InTurn(list, Member)

\* the producers of the contracts the task consumes and the members of the
\* groups it reconciles, if they exist
Implied(list, t) ==
    LET Reconciled(g) == GroupMembers(list, g)
        Known(id) == Just(id # t.id /\ id \in Ids(list), id)
    IN InTurn(t.consumes_contracts \o InTurn(t.reconcile_after, Reconciled), Known)

\* depends_on as it stands, once each, and what is implied
ResolveDependencies(list) ==
    [i \in DOMAIN list |-> [list[i] EXCEPT !.depends_on = Once(@ \o Implied(list, list[i]))]]

Expand ==
    /\ phase = "expand"
    /\ tasks' = ResolveDependencies(ExpandMatrixTasks(tasks))
    /\ phase' = "specify"
    /\ UNCHANGED <<raw, verdict, frames, seen, plan, path, visited>>

Specify ==
    /\ phase = "specify"
    /\ Settle(WatchRefusals(raw.watch) \o BreakerRefusals(raw.circuit_breaker)
              \o SpecRefusals(raw), "validate")
    /\ plan' = <<[raw EXCEPT !.tasks = tasks]>>
    /\ UNCHANGED <<raw, frames, seen, tasks, path, visited>>

----------------------------------------------------------------------------
(* Validation                                                               *)

Loaded == plan[1]

\* a dynamic group is never cached
Fresh(t) == [t EXCEPT !.cache = @ /\ ~t.dynamic_group]

Validate ==
    /\ phase = "validate"
    /\ Settle(PlanRefusals(Loaded), "search")
    /\ plan' = [plan EXCEPT ![1].tasks = [i \in DOMAIN @ |-> Fresh(@[i])]]
    /\ UNCHANGED <<raw, frames, seen, tasks, path, visited>>

Dependencies(id) == TaskOf(Loaded.tasks, id).depends_on
Visiting == {path[i].node : i \in DOMAIN path}
Enter(node) == [node |-> node, next |-> 1]

\* the outer loop: the first task the search has not reached
SearchFrom ==
    /\ phase = "search" /\ path = <<>>
    /\ \E i \in DOMAIN Loaded.tasks :
          /\ Loaded.tasks[i].id \notin visited
          /\ \A k \in 1 .. i - 1 : Loaded.tasks[k].id \in visited
          /\ path' = <<Enter(Loaded.tasks[i].id)>>
    /\ UNCHANGED <<raw, phase, verdict, frames, seen, tasks, plan, visited>>

\* mutant: a node on the path counts as done with
DescendPast ==
    /\ phase = "search" /\ path # <<>>
    /\ LET top == path[Len(path)]
           rest == [path EXCEPT ![Len(path)].next = @ + 1]
       IN /\ top.next <= Len(Dependencies(top.node))
          /\ LET dep == Dependencies(top.node)[top.next]
             IN path' = IF dep \in visited \cup Visiting THEN rest
                        ELSE Append(rest, Enter(dep))
    /\ UNCHANGED <<raw, phase, verdict, frames, seen, tasks, plan, visited>>

\* one dependency of the node on top: done with, on the path, or descended into
Descend ==
    /\ phase = "search" /\ path # <<>>
    /\ LET top == path[Len(path)]
           rest == [path EXCEPT ![Len(path)].next = @ + 1]
       IN /\ top.next <= Len(Dependencies(top.node))
          /\ LET dep == Dependencies(top.node)[top.next]
             IN /\ Settle(Refuse(dep \notin visited /\ dep \in Visiting, "E004"), "search")
                /\ path' = IF dep \in visited \cup Visiting THEN rest
                           ELSE Append(rest, Enter(dep))
    /\ UNCHANGED <<raw, frames, seen, tasks, plan, visited>>

LeaveNode ==
    /\ phase = "search" /\ path # <<>>
    /\ LET top == path[Len(path)]
       IN /\ top.next > Len(Dependencies(top.node))
          /\ path' = Front(path)
          /\ visited' = visited \cup {top.node}
    /\ UNCHANGED <<raw, phase, verdict, frames, seen, tasks, plan>>

\* the watch block, worktrees and policies; then the plan is the caller's
Conclude ==
    /\ phase = "search" /\ path = <<>> /\ Ids(Loaded.tasks) \subseteq visited
    /\ LET refusals == AfterSearch(Loaded)
       IN /\ phase' = "done"
          /\ verdict' = IF refusals # <<>> THEN refusals[1] ELSE "accepted"
          /\ plan' = [plan EXCEPT ![1].warnings =
                         UNION {TaskWarnings(Loaded, t) : t \in ToSet(Loaded.tasks)}]
    /\ UNCHANGED <<raw, frames, seen, tasks, path, visited>>

Next ==
    \/ ReadPlan \/ Import \/ Splice \/ Parse \/ Expand \/ Specify
    \/ Validate \/ SearchFrom \/ Descend \/ LeaveNode \/ Conclude

Spec == Init /\ [][Next]_vars

----------------------------------------------------------------------------
(* Properties                                                               *)

Accepted == verdict = "accepted"

Depends(t, id) == id \in ToSet(t.depends_on)
HasCycle(list) ==
    \E S \in (SUBSET Ids(list)) \ {{}} :
        \A id \in S : \E d \in S : Depends(TaskOf(list, id), d)

\* An accepted plan is one the scheduler can run: names are unique, every
\* dependency exists, a task reads the output and the status only of tasks it
\* waits for, and it waits for the producers of its contracts and for the groups
\* it reconciles; and its parameters are the ones a run takes for granted: workers,
\* retries within the limit, a breaker that can count, a judge and a quorum that
\* can be reached, a watch loop that gets past its warm-up, a worktree only where
\* there is a workspace and an engine, or a command or a group that is there but
\* empty, which the rule for worktrees takes for none.  (validate_plan.)
AcceptedIsRunnable ==
    Accepted => LET list == Loaded.tasks IN
        /\ \A i, k \in DOMAIN list : i # k => list[i].id # list[k].id
        /\ \A t \in ToSet(list) :
              /\ ToSet(t.depends_on) \subseteq Ids(list)
              /\ \A c \in ToSet(t.context_from) \ {Everyone} : Depends(t, c)
              /\ \A r \in t.when : Plain(r) => Depends(t, r)
              /\ \A c \in ToSet(t.consumes_contracts) : Depends(t, c)
              /\ \A u \in ToSet(list) \ {t} :
                    ToSet(u.consistency_group) \cap ToSet(t.reconcile_after) # {}
                        => Depends(t, u.id)
        /\ Count(Loaded.max_parallel) >= 1
        /\ Loaded.circuit_breaker.self # "none"
               => Count(Loaded.circuit_breaker.max_total_failures) >= 1
        /\ Loaded.watch.self # "none"
               => WarmUp(Loaded.watch) \in 0 .. Count(Loaded.watch.max_iterations) - 1
        /\ \A t \in ToSet(Loaded.tasks) :
              /\ t.max_retries \in {"none", "zero", "tiny", "number", "flag"}
              /\ Cardinality(Types(t)) = 1
              /\ t.fallback_engine # "none" => t.engine # "none"
              /\ t.judge.self # "none" /\ t.judge.quorum_strategy # "none"
                    => Count(t.judge.quorum) >= 2
              /\ t.worktree => ~NoText(Loaded.workspace_root)
              /\ t.worktree /\ t.engine = "none" => t.group = "blank" \/ Falsy(t.command)
              /\ t.dynamic_group => ~t.cache

\* The search refuses the plans with a cycle and no others: a diamond or a node
\* reached from two roots is no cycle, and resolved contracts and groups count.  (dfs in validate_plan.)
SearchIsExact ==
    /\ verdict = "E004" => HasCycle(Loaded.tasks)
    /\ Accepted => ~HasCycle(Loaded.tasks)

Cell(x) == {c \in [DOMAIN x.dims -> UNION {ToSet(d.values) : d \in ToSet(x.dims)}] :
               \A i \in DOMAIN x.dims : c[i] \in ToSet(x.dims[i].values)}
Offspring(t) ==
    IF t.matrix.self = "none" THEN {t.id}
    ELSE {[t.id EXCEPT !.cell = [i \in DOMAIN c |->
              <<t.matrix.dims[i].key, Sanitize[c[i]]>>]] : c \in Cell(t.matrix)}

\* the files of the import tree with the prefix their tasks get
Sources == {[prefix |-> <<>>, tasks |-> raw.tasks, overrides |-> <<>>]}
           \cup UNION {{[prefix |-> <<e.prefix>>, tasks |-> raw.files[e.path].tasks,
                         overrides |-> e.overrides] : e \in ToSet(Imports(f).entries)}
                       : f \in seen \cup {"main"}}
InPlan(source, t) == Overridden([t EXCEPT !.id.pre = source.prefix \o @], source.overrides)

\* A name stands for the children of the last matrix that bears it: where a file
\* and one it imports have one prefix, perhaps of another file's.
Shadowed(sources, t) ==
    \E source \in sources : \E u \in ToSet(source.tasks) :
        LET other == InPlan(source, u) IN
        other.id = t.id /\ other.matrix.self # "none" /\ other.matrix # t.matrix

EdgesIn(sources, list) ==
    \A s \in sources : DOMAIN s.overrides \cap {"id", "depends_on"} = {} =>
        \A t, u \in ToSet(s.tasks) :
            u.id \in ToSet(t.depends_on) /\ u.id.pre = <<>> /\ ~Shadowed(sources, InPlan(s, u))
            => \A a \in Offspring(InPlan(s, t)) : \A b \in Offspring(InPlan(s, u)) :
                   \E v \in ToSet(list) : v.id = a /\ Depends(v, b)

\* No dependency is lost between the files and the accepted plan: where a task
\* names a task of its own file, every cell of the one waits for every cell of
\* the other, each under the prefix of that file and with what the import
\* overrides.  (_resolve_imports, _expand_matrix_tasks and
\* clone_tasks_with_resolved_dependencies together.)
EdgesKept == Accepted => EdgesIn(Sources, Loaded.tasks)
=============================================================================
