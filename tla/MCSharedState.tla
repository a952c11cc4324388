----------------------------- MODULE MCSharedState -----------------------------
(***************************************************************************)
(* What the threads and processes of runs share and leave for later ones:  *)
(* the event log, the result cache and the git workspace on disk, the      *)
(* database with what runs learned, scored and told the improve agent, the *)
(* manifests that the routing of models goes by, the web server's registry *)
(* of runs and the approvals of the AG-UI endpoint.                        *)
(* One of them is chosen.                                                  *)
(***************************************************************************)
EXTENDS EventChain, TaskCache, Worktrees, WebRuns, AgUiRuns, Memory, ScoreHistory, SessionMemory, Routing

VARIABLE shared

sharedVars == <<chainVars, cacheVars, treeVars, webVars, aguiVars, memoryVars, scoreVars, sessionVars, routingVars>>

MCSimHash == [h \in PlanHash |-> IF h = 2 THEN 1 ELSE h]
MCNamings == {[t \in Task |-> t], [t \in Task |-> "a-b"]}

Insight(t, kind, words) == [task |-> t, kind |-> kind, text |-> words]
MCEarlier ==
  <<Insight("a", "cost_pattern", <<"1">>), Insight("a", "policy_rule", <<"cite">>), Insight("a", "timeout_hint", <<"9">>)>>
Plain == [status |-> "success", history |-> <<>>, code |-> 0, duration |-> "short", retries |-> "0",
          judge |-> "none", cost |-> "1", model |-> "none", reason |-> "short"]
MCResults ==
  {[a |-> [Plain EXCEPT !.cost = "2"]],
   [a |-> [Plain EXCEPT !.status = "failed", !.judge = "fail", !.reason = "cite", !.history = <<"timeout", "unknown">>]]}
MCCommands == {<<"obey">>}
MCCluster == [t \in MTasks |-> "q"]
MCHits(t, i) == IF i.kind = "policy_rule" THEN 5 ELSE 0

Names(l, m, h) == [low |-> l, medium |-> m, high |-> h]
MCModelTiers == [claude |-> Names("haiku", "sonnet", "opus"), ollama |-> Names("phi3", "llama3", "mixtral")]
Trivial == [engine |-> "claude", tags |-> {"trivial"}, prompt |-> "short", deps |-> 0, context |-> 0, recursive |-> FALSE,
            judge |-> FALSE, fanOut |-> 1, depth |-> 0]
Secure == [Trivial EXCEPT !.tags = {"security"}, !.prompt = "tiny", !.judge = TRUE, !.context = 3]
Reviewed == [Trivial EXCEPT !.tags = {"review"}, !.prompt = "plain"]
RoutedPlan(a, b, strategy, usable) == [tasks |-> [a |-> a, b |-> b], strategy |-> strategy, usable |-> usable]
OnOllama(f) == [f EXCEPT !.engine = "ollama"]
MCRoutedPlans ==
  {RoutedPlan(Reviewed, [Trivial EXCEPT !.fanOut = 4, !.depth = 5], "cost_optimized", {}),
   RoutedPlan(Secure, Trivial, "quality_first", {}),
   RoutedPlan(OnOllama(Trivial), OnOllama([Reviewed EXCEPT !.recursive = TRUE]), "balanced", {"low"}),
   RoutedPlan(OnOllama(Trivial), [Trivial EXCEPT !.tags = {}, !.prompt = "huge", !.deps = 4], "balanced", {"medium", "high"})}

SharedInit ==
  /\ shared \in {"log", "cache", "workspace", "web", "agui", "memory", "scores", "session", "routing"}
  /\ ChainInit /\ CacheInit /\ TreeInit /\ WebInit /\ AgUiInit /\ MemoryInit /\ ScoresInit /\ SessionInit /\ RoutingInit
  /\ shared # "workspace" => \A t \in Task : Branch[t] = t
  /\ shared # "memory" => jsonl = <<>>
  /\ shared # "routing" => routedPlan = CHOOSE p \in RoutedPlans : TRUE

InLog(A) == shared = "log" /\ A /\ UNCHANGED <<shared, cacheVars, treeVars, webVars, aguiVars, memoryVars, scoreVars, sessionVars, routingVars>>
InCache(A) == shared = "cache" /\ A /\ UNCHANGED <<shared, chainVars, treeVars, webVars, aguiVars, memoryVars, scoreVars, sessionVars, routingVars>>
InWorkspace(A) == shared = "workspace" /\ A /\ UNCHANGED <<shared, chainVars, cacheVars, webVars, aguiVars, memoryVars, scoreVars, sessionVars, routingVars>>
InWeb(A) == shared = "web" /\ A /\ UNCHANGED <<shared, chainVars, cacheVars, treeVars, aguiVars, memoryVars, scoreVars, sessionVars, routingVars>>
InAgUi(A) == shared = "agui" /\ A /\ UNCHANGED <<shared, chainVars, cacheVars, treeVars, webVars, memoryVars, scoreVars, sessionVars, routingVars>>
InMemory(A) == shared = "memory" /\ A /\ UNCHANGED <<shared, chainVars, cacheVars, treeVars, webVars, aguiVars, scoreVars, sessionVars, routingVars>>
InScores(A) == shared = "scores" /\ A /\ UNCHANGED <<shared, chainVars, cacheVars, treeVars, webVars, aguiVars, memoryVars, sessionVars, routingVars>>
InSession(A) == shared = "session" /\ A /\ UNCHANGED <<shared, chainVars, cacheVars, treeVars, webVars, aguiVars, memoryVars, scoreVars, routingVars>>
InRouting(A) == shared = "routing" /\ A /\ UNCHANGED <<shared, chainVars, cacheVars, treeVars, webVars, aguiVars, memoryVars, scoreVars, sessionVars>>

SharedNext ==
  InLog(ChainNext) \/ InCache(CacheNext) \/ InWorkspace(TreeNext) \/ InWeb(WebNext) \/ InAgUi(AgUiNext)
  \/ InMemory(MemoryNext) \/ InScores(ScoresNext) \/ InSession(SessionNext) \/ InRouting(RoutingNext)

SharedSpec == SharedInit /\ [][SharedNext]_<<shared, sharedVars>>
=============================================================================
