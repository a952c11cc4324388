------------------------------- MODULE Routing -------------------------------
(***************************************************************************)
(* model: auto (routing.py, hardware.py): a run of a plan reads how the    *)
(* models it chose for its tasks have done in earlier runs, chooses again, *)
(* and leaves its manifest for the next.  Scores are in hundredths; the    *)
(* rounding of floats is left out, and so is the failure rate of a task's  *)
(* upstreams: a task with a failed one is never started.                   *)
(***************************************************************************)
EXTENDS Integers, FiniteSets, Functions, SequencesExt

CONSTANTS
  RoutedPlans,    \* plans: [tasks (features by id), strategy, usable (tiers of a local engine
                  \* that are installed and fit the GPU)]
  ModelTiers,     \* _MODEL_TIERS: engine -> tier -> name of the model
  MinManifests, MaxManifests,   \* 3 and _HISTORY_MAX_MANIFESTS
  MinModelRuns,   \* _HISTORY_MIN_MODEL_RUNS
  TrendWindow,    \* _TREND_WINDOW
  FullConfidence  \* _HISTORY_MIN_CONFIDENCE_RUNS

ASSUME RoutingAssumption ==
  /\ {MinManifests, MaxManifests, MinModelRuns, TrendWindow, FullConfidence} \subseteq Nat \ {0}
  /\ \A p \in RoutedPlans :
       /\ IsFiniteSet(DOMAIN p.tasks) /\ p.usable \subseteq {"low", "medium", "high"}
       /\ \A t \in DOMAIN p.tasks : /\ p.tasks[t].prompt \in {"tiny", "plain", "short", "long", "huge"}
                                    /\ IsFiniteSet(p.tasks[t].tags) /\ p.tasks[t].deps \in Nat

Unrouted == "none"

VARIABLES
  routedPlan,
  manifests,   \* run_manifest.json of the latest MaxManifests runs, no older one is read again:
               \* per task [model, status, late]
  routedTo,    \* in a run, per task: the tier its features ask for, that of its score, the model
  routing      \* before a run, in a run
routingVars == <<routedPlan, manifests, routedTo, routing>>

Tasks == DOMAIN routedPlan.tasks
Feature(t) == routedPlan.tasks[t]

-----------------------------------------------------------------------------
(* _score_task_complexity without history *)

Lesser(a, b) == IF a < b THEN a ELSE b
Greater(a, b) == IF a < b THEN b ELSE a
Bounded(low, high, x) == Greater(low, Lesser(high, x))
Points(condition, n) == IF condition THEN n ELSE 0

TierOf(score) == IF score < 30 THEN "low" ELSE IF score > 70 THEN "high" ELSE "medium"
TierRank == [low |-> 1, medium |-> 2, high |-> 3]

TagScore(tags) ==
  LET high == IF "security" \in tags THEN 80 ELSE 50
      low  == IF "trivial" \in tags THEN Lesser(high, 20) ELSE high
  IN low + Points("review" \in tags, 15)
PromptScore == [tiny |-> -10, plain |-> 0, short |-> 5, long |-> 10, huge |-> 15]
StructureScore(f) ==
  Points(f.deps > 3, 10) + Points(f.context > 2, 10) + Points(f.recursive, 15) + Points(f.judge, 10)
  + Points(f.fanOut > 3, 10) + Points(f.depth > 4, 5)
CostWeights(strategy, tier) ==
  IF strategy = "cost_optimized" THEN [low |-> 0, medium |-> 15, high |-> 30][tier]
  ELSE IF strategy = "quality_first" THEN [low |-> -15, medium |-> 0, high |-> -15][tier] ELSE 0

ScoreUnder(f, strategy) ==
  LET score == TagScore(f.tags) + PromptScore[f.prompt] + StructureScore(f)
  IN score + CostWeights(strategy, TierOf(score))

-----------------------------------------------------------------------------
(* load_task_histories: the runs of task t with one model, by their place *)

Latest(loaded) == SubSeq(loaded, Greater(1, Len(loaded) - MaxManifests + 1), Len(loaded))
Loaded == IF Len(manifests) < MinManifests THEN <<>> ELSE manifests
Outcomes(t, model) == {i \in DOMAIN Loaded : Loaded[i][t].model = model}
KnownModels(t) == {Loaded[i][t].model : i \in DOMAIN Loaded} \ {Unrouted}
TotalRuns(t) == Cardinality(DOMAIN Loaded \ Outcomes(t, Unrouted))
Successes(t, outcomes) == Cardinality({i \in outcomes : Loaded[i][t].status = "success"})
Failures(t, outcomes) == Cardinality({i \in outcomes : Loaded[i][t].status = "failed"})
Timeouts(t, outcomes) == Cardinality({i \in outcomes : Loaded[i][t].late})
LastOutcomes(outcomes, n) == {i \in outcomes : Cardinality({j \in outcomes : j > i}) < n}

\* _detect_trend over the last two windows
Trend(t, outcomes) ==
  LET recent == Successes(t, LastOutcomes(outcomes, TrendWindow))
      previous == Successes(t, LastOutcomes(outcomes, 2 * TrendWindow)) - recent
      delta == 10 * (recent - previous)
  IN IF delta > 3 * TrendWindow THEN "improving" ELSE IF delta < -3 * TrendWindow THEN "degrading" ELSE "stable"

-----------------------------------------------------------------------------
(* What history adds: _apply_historical_signal and apply_cross_task_routing *)

Cheap(t) == ModelTiers[Feature(t).engine]["low"]
Always(t, outcomes) == Cardinality(outcomes) >= MinModelRuns /\ Successes(t, outcomes) = Cardinality(outcomes)
Tired(t, m) == LET o == Outcomes(t, m) IN Cardinality(o) >= 2 /\ 10 * Timeouts(t, o) >= 4 * Cardinality(o)
Turn(t, m) ==
  LET o == Outcomes(t, m) IN
  IF Cardinality(o) < 2 * TrendWindow THEN 0
  ELSE Points(Trend(t, o) = "degrading", 10) - Points(Trend(t, o) = "improving" /\ m = Cheap(t), 5)
HistoryPoints(t) ==
  LET low == Outcomes(t, Cheap(t))
      medium == Outcomes(t, ModelTiers[Feature(t).engine]["medium"])
  IN  Points(Cardinality(low) >= MinModelRuns /\ ~Always(t, low) /\ 2 * Failures(t, low) >= Cardinality(low), 15)
      - Points(Always(t, low), 15) - Points(low = {} /\ Always(t, medium), 10)
      + Points(\E m \in KnownModels(t) : Tired(t, m), 10)
      + SumFunctionOnSet([m \in KnownModels(t) |-> Turn(t, m)], KnownModels(t))
HistoryAdjustment(t) ==
  Bounded(-20, 20, (HistoryPoints(t) * Lesser(TotalRuns(t), FullConfidence)) \div FullConfidence)

\* _compute_task_similarity, in quarters: at most 30
Similarity(f, g) ==
  Points(f.engine = g.engine, 12)
  + (IF f.tags = {} \/ g.tags = {} THEN 0 ELSE (8 * Cardinality(f.tags \cap g.tags)) \div Cardinality(f.tags \cup g.tags))
  + Points(f.judge = g.judge, 4) + Points(f.recursive = g.recursive, 4)
  + (LET apart == Greater(f.deps - g.deps, g.deps - f.deps) IN IF apart <= 1 THEN 2 ELSE Points(apart <= 3, 1))
Weight(t, u) == Similarity(Feature(t), Feature(u))
Like(t) == {u \in Tasks \ {t} : /\ TotalRuns(u) >= MinModelRuns /\ 10 * Weight(t, u) >= 3 * 30
                                /\ Cardinality(Outcomes(u, Cheap(t))) >= 2}
Signal(t, u) ==
  LET o == Outcomes(u, Cheap(t)) IN
  IF 10 * Successes(u, o) >= 8 * Cardinality(o) THEN -10 * Weight(t, u)
  ELSE Points(2 * Failures(u, o) >= Cardinality(o), 10 * Weight(t, u))
CrossTaskAdjustment(t) ==
  IF Like(t) = {} THEN 0
  ELSE Bounded(-10, 10, SumFunctionOnSet([u \in Like(t) |-> Signal(t, u)], Like(t))
                          \div SumFunctionOnSet([u \in Like(t) |-> Weight(t, u)], Like(t)))

-----------------------------------------------------------------------------
(* resolve_auto_model *)

BaseScore(t) == Bounded(0, 100, ScoreUnder(Feature(t), routedPlan.strategy))
HistoryScore(t) ==
  LET score == ScoreUnder(Feature(t), routedPlan.strategy)
      own == IF TotalRuns(t) = 0 THEN Bounded(0, 100, score) ELSE Bounded(0, 100, score + HistoryAdjustment(t))
  IN Bounded(0, 100, own + CrossTaskAdjustment(t))

TierAlone(tier, usable) == tier   \* mutant: whatever is installed

\* select_local_model: the tier itself, else the best below it, else the best
LocalTier(tier, usable) ==
  LET below == {u \in usable : TierRank[u] <= TierRank[tier]}
      candidates == IF below # {} THEN below ELSE usable
  IN IF usable = {} \/ tier \in usable THEN tier
     ELSE CHOOSE u \in candidates : \A w \in candidates : TierRank[w] <= TierRank[u]

Local(engine) == engine \in {"ollama", "llama"}
Choice(t) ==
  LET tier == TierOf(HistoryScore(t))
      engine == Feature(t).engine
      chosen == IF Local(engine) THEN LocalTier(tier, routedPlan.usable) ELSE tier
  IN [asked |-> TierOf(BaseScore(t)), tier |-> tier, chosen |-> chosen, model |-> ModelTiers[engine][chosen]]

RoutingInit ==
  /\ routedPlan \in RoutedPlans /\ manifests = <<>> /\ routing = "before" /\ routedTo = <<>>

\* A run routes its tasks when they start, all by what it read when it began.
RouteTasks ==
  /\ routing = "before" /\ routing' = "run" /\ routedTo' = [t \in Tasks |-> Choice(t)]
  /\ UNCHANGED <<routedPlan, manifests>>

\* What a task may end with: success, failure or timeout, its record naming the
\* model chosen when it started, whichever one a fallback or the escalation chain
\* had it end with.  One that was skipped has none.  (A soft failure would count
\* as a run and nothing else, a return before the first attempt not even as that.)
Skipped == [model |-> Unrouted, status |-> "skipped", late |-> FALSE]
Ends(t) ==
  LET End(status, late) == [model |-> routedTo[t].model, status |-> status, late |-> late]
  IN {End("success", FALSE), End("failed", FALSE), End("failed", TRUE)} \cup {Skipped : n \in 1 .. Feature(t).deps}
EndRoutedRun ==
  /\ routing = "run"
  /\ \E ends \in [Tasks -> UNION {Ends(t) : t \in Tasks}] :
       (\A t \in Tasks : ends[t] \in Ends(t)) /\ manifests' = Latest(Append(manifests, ends))
  /\ routing' = "before" /\ routedTo' = <<>> /\ UNCHANGED routedPlan

RoutingNext == RouteTasks \/ EndRoutedRun
RoutingSpec == RoutingInit /\ [][RoutingNext]_routingVars

-----------------------------------------------------------------------------
\* However its models and the models of similar tasks have done, a task is
\* moved at most one tier from where its own features put it: what both
\* signals add stays below the width of the middle tier, whichever of the five
\* rules agree (docs/PLAN_GUIDE.md:250, "a historical signal (+-0.20 max)").
\* And a local engine is given a model that is installed and fits, whenever
\* there is one (CHANGELOG.md:33).
HistoryMovesOneTier ==
  \A t \in DOMAIN routedTo :
    /\ TierRank[routedTo[t].tier] - TierRank[routedTo[t].asked] \in -1 .. 1
    /\ (Local(Feature(t).engine) /\ routedPlan.usable # {}) => routedTo[t].chosen \in routedPlan.usable
=============================================================================
