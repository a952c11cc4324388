------------------------------ MODULE ScoreHistory ------------------------------
(***************************************************************************)
(* What runs leave for later ones: a score record per run of a plan        *)
(* (scheduler.py, knowledge.py, memory.py), kept beside the plan, and a    *)
(* search for a better plan (replan.py, mcts.py) that looks there before   *)
(* it runs a candidate.  A candidate lives in a directory of its own.      *)
(* Replan has the rounds, gates and failures of the search; here is what   *)
(* it decides on and how evidence is counted.                              *)
(***************************************************************************)
EXTENDS Integers, FiniteSets, SequencesExt

CONSTANTS
  PlanHash,     \* contents of plans, by hash
  SimHash,      \* the hash that ignores which model of a family is named
  MinRuns, RecentRuns, Horizon,  \* of the pruning: 5 runs of the last 20, 30 days
  VariantsPerRound, MaxRounds,
  MaxRunsKept,  \* bound: runs a user makes
  MaxDay, MaxSearches      \* bounds

ASSUME HistoryAssumption ==
  /\ SimHash \in [PlanHash -> PlanHash]
  /\ {MinRuns, RecentRuns, VariantsPerRound, MaxRounds} \subseteq Nat \ {0} /\ Horizon \in Nat

Project == 0
MaxNodes == 1 + VariantsPerRound * MaxRounds
Dirs == Project .. MaxNodes

VARIABLES
  day,
  scores,    \* per directory: score_records: [hash, ok, day, run]
  variants,  \* the search tree; a node's directory is its number, the root's the project
  leaf,      \* current_variant
  stage,     \* idle, round, pick, run, done
  searchRound, tried,
  runs,      \* runs so far; a run's id is its number
  searches,
  simulatedAs  \* history: runs of this search, with what the project knew then
scoreVars == <<day, scores, variants, leaf, stage, searchRound, tried, runs, searches, simulatedAs>>

HomeOf(n) == IF n = 1 THEN Project ELSE n
Record(h, ok) == [hash |-> h, ok |-> ok, day |-> day, run |-> runs + 1]

-----------------------------------------------------------------------------
(* The records *)

\* One record per run of a whole plan: not of a dry run or of a part of it.
StoreScore(dir, h, ok) == [scores EXCEPT ![dir] = @ \cup {Record(h, ok)}]

\* ORDER BY timestamp DESC, id DESC, which is the order of the runs.
Records(db, dir, h) == {r \in db[dir] : r.hash = h}
LoadScores(dir, h) == Records(scores, dir, h)
LastOf(rows, k) == {r \in rows : Cardinality({s \in rows : s.run > r.run}) < k}
Newest(rows) == CHOOSE r \in rows : \A s \in rows : s.run <= r.run

\* 0.8 or more of the last runs within the horizon have failed.
HistoricalPruning(dir, h) ==
  LET recent == LastOf({r \in LoadScores(dir, h) : r.day >= day - Horizon}, RecentRuns)
      failures == Cardinality({r \in recent : ~r.ok})
  IN Cardinality(recent) >= MinRuns /\ 5 * failures >= 4 * Cardinality(recent)

SimulationRecords(dir, h) == {r \in scores[dir] : r.ok /\ SimHash[r.hash] = SimHash[h]}

-----------------------------------------------------------------------------
(* The tree *)

NewVariant(h, parent, st) ==
  [hash |-> h, parent |-> parent, state |-> st, ok |-> FALSE, visits |-> 0, scored |-> 0,
   samples |-> 0, evidence |-> {}]

Lineage(tree, n) ==
  LET up[k \in 0 .. Len(tree)] == IF k = 0 THEN {} ELSE {k} \cup up[tree[k].parent]
  IN up[n]

\* mutant: the record of the run that has just been stored is taken twice
OtherRecordsAll(db, dir, r) == LastOf(Records(db, dir, r.hash), RecentRuns)
OtherRecords(db, dir, r) == {s \in LastOf(Records(db, dir, r.hash), RecentRuns) : s.run # r.run}

\* backpropagate_variant: the record and what the variant's own directory has
\* on its hash; every plan above it is visited once more.  The variant takes
\* the hash of the record, also when that is another plan's.
Backpropagate(db, tree, n, r) ==
  LET others == OtherRecords(db, HomeOf(n), r)
  IN [k \in DOMAIN tree |->
        LET v == [tree[k] EXCEPT !.visits = @ + (IF k \in Lineage(tree, n) THEN 1 ELSE 0)]
        IN IF k # n THEN v
           ELSE [v EXCEPT !.hash = r.hash, !.ok = r.ok, !.scored = @ + 1, !.samples = 1 + Cardinality(others),
                          !.evidence = {r.run} \cup {s.run : s \in others}]]

AddVariant(v) == Append(variants, v)

-----------------------------------------------------------------------------
ScoresInit ==
  /\ day = 0 /\ scores = [d \in Dirs |-> {}] /\ variants = <<>> /\ leaf = 0 /\ stage = "idle"
  /\ searchRound = 0 /\ tried = 0 /\ runs = 0 /\ searches = 0 /\ simulatedAs = <<>>

\* A user runs the plan as it is that day; any of its versions.
UserRuns ==
  /\ stage = "idle" /\ runs < MaxRunsKept
  /\ \E h \in PlanHash, ok \in BOOLEAN : scores' = StoreScore(Project, h, ok)
  /\ runs' = runs + 1
  /\ UNCHANGED <<day, variants, leaf, stage, searchRound, tried, searches, simulatedAs>>

NextDay ==
  /\ stage = "idle" /\ day < MaxDay /\ day' = day + 1
  /\ UNCHANGED <<scores, variants, leaf, stage, searchRound, tried, runs, searches, simulatedAs>>

\* A run of a variant: its record is stored where its plan is.
RunVariant(tree, n, ok, how) ==
  LET r == Record(tree[n].hash, ok)
      ran == [tree EXCEPT ![n].state = "ran"]
  IN /\ scores' = StoreScore(HomeOf(n), r.hash, ok)
     /\ runs' = runs + 1
     /\ variants' = Backpropagate(scores', ran, n, r)
     /\ simulatedAs' = Append(simulatedAs, [hash |-> r.hash, how |-> how, failing |-> HistoricalPruning(Project, r.hash)])

Leave ==
  /\ stage' = "idle" /\ variants' = <<>> /\ leaf' = 0 /\ searchRound' = 0 /\ tried' = 0
  /\ scores' = [d \in Dirs |-> IF d = Project THEN scores[d] ELSE {}]   \* rmtree of the temporary directories
  /\ simulatedAs' = <<>> /\ searches' = searches + 1
  /\ UNCHANGED <<day, runs>>

\* The plan at hand is run, unless it has a result; the search goes on if it fails.
StartSearch ==
  /\ stage = "idle" /\ searches < MaxSearches
  /\ \E h \in PlanHash, ok \in BOOLEAN : RunVariant(<<NewVariant(h, 0, "new")>>, 1, ok, "attempt") /\ stage' = IF ok THEN "done" ELSE "round"
  /\ leaf' = 1 /\ searchRound' = 1 /\ tried' = 0
  /\ UNCHANGED <<day, searches>>

RunLeaf ==
  /\ stage = "run" /\ variants[leaf].state = "scored"
  /\ \E ok \in BOOLEAN : RunVariant(variants, leaf, ok, "attempt") /\ stage' = IF ok THEN "done" ELSE "round"
  /\ UNCHANGED <<day, leaf, searchRound, tried, searches>>

ReuseResult ==
  /\ stage = "run" /\ variants[leaf].state \in {"ran", "cached"}
  /\ stage' = IF variants[leaf].ok THEN "done" ELSE "round"
  /\ UNCHANGED <<day, scores, variants, leaf, searchRound, tried, runs, searches, simulatedAs>>

-----------------------------------------------------------------------------
(* A candidate *)

InTree(h) == \E i \in DOMAIN variants : variants[i].hash = h
NextTry == tried' = tried + 1 /\ stage' = IF tried' = VariantsPerRound THEN "pick" ELSE "round"
Trying == stage = "round" /\ NextTry /\ UNCHANGED <<day, leaf, searchRound, searches>>
NoRun == UNCHANGED <<scores, runs, simulatedAs>>

NoCandidate == Trying /\ NoRun /\ UNCHANGED variants

CandidateRefused ==
  /\ Trying /\ NoRun
  /\ \E h \in PlanHash : variants' = AddVariant(NewVariant(h, leaf, "pruned"))

SearchDuplicate ==
  /\ Trying /\ NoRun
  /\ \E h \in PlanHash : InTree(h) /\ variants' = AddVariant(NewVariant(h, leaf, "pruned"))

\* Looked up where the current plan is.
ScoreOnRecord ==
  /\ Trying /\ NoRun
  /\ \E h \in PlanHash :
       /\ ~InTree(h) /\ LoadScores(HomeOf(leaf), h) # {}
       /\ variants' = Backpropagate(scores, AddVariant(NewVariant(h, leaf, "scored")), Len(variants) + 1,
                                    Newest(LoadScores(HomeOf(leaf), h)))

SimulationCached ==
  /\ Trying /\ NoRun
  /\ \E h \in PlanHash :
       /\ ~InTree(h) /\ LoadScores(HomeOf(leaf), h) = {} /\ SimulationRecords(HomeOf(leaf), h) # {}
       /\ variants' = Backpropagate(scores, AddVariant(NewVariant(h, leaf, "cached")), Len(variants) + 1,
                                    Newest(SimulationRecords(HomeOf(leaf), h)))

\* The pruning asks the history in the candidate's own directory.
SimulateCandidate ==
  /\ Trying
  /\ \E h \in PlanHash, ok, raises \in BOOLEAN :
       LET tree == AddVariant(NewVariant(h, leaf, "new"))  n == Len(tree)
       IN /\ ~InTree(h) /\ LoadScores(HomeOf(leaf), h) = {} /\ SimulationRecords(HomeOf(leaf), h) = {}
          /\ IF HistoricalPruning(HomeOf(n), h) \/ raises
               THEN variants' = AddVariant(NewVariant(h, leaf, "pruned")) /\ NoRun
             ELSE RunVariant(tree, n, ok, "simulation")

OpenLeaves == {n \in DOMAIN variants : /\ variants[n].state # "pruned"
                                       /\ \A k \in DOMAIN variants : variants[k].parent # n}
\* A success among them ends the search; so does the last round.
PickVariant ==
  /\ stage = "pick"
  /\ \E n \in OpenLeaves \ {leaf} :
       LET chosen == variants[n]
           found == chosen.state = "ran" /\ chosen.ok
       IN leaf' = n /\ stage' = IF found \/ searchRound = MaxRounds THEN "done" ELSE "run"
  /\ searchRound' = searchRound + 1 /\ tried' = 0
  /\ UNCHANGED <<day, scores, variants, runs, searches, simulatedAs>>

EndSearch ==
  /\ stage = "done" \/ (stage = "pick" /\ OpenLeaves \subseteq {leaf})
  /\ Leave

ScoresNext ==
  \/ UserRuns \/ NextDay \/ StartSearch \/ RunLeaf \/ ReuseResult \/ NoCandidate \/ CandidateRefused
  \/ SearchDuplicate \/ ScoreOnRecord \/ SimulationCached \/ SimulateCandidate \/ PickVariant \/ EndSearch
ScoresSpec == ScoresInit /\ [][ScoresNext]_scoreVars

-----------------------------------------------------------------------------
\* Whatever way a plan came to its score, a run is counted in it once, a visit
\* of a variant is a visit of all it came from, and one search runs a plan at
\* most once, also when it turns up again in a later round
\* (docs/ROADMAP.md:896-902).
EvidenceCountedOnce ==
  /\ \A n \in DOMAIN variants :
       LET v == variants[n]
           children == {k \in DOMAIN variants : variants[k].parent = n}
       IN /\ v.samples = Cardinality(v.evidence)
          /\ v.visits = v.scored + SumFunctionOnSet([k \in DOMAIN variants |-> variants[k].visits], children)
  /\ \A i, j \in DOMAIN simulatedAs : simulatedAs[i].hash = simulatedAs[j].hash => i = j

\* "MCTS expansion consults Knowledge v2 to skip branches with >80% historical
\* failure rate across recent runs" (docs/ROADMAP.md:817-820): a search simulates
\* no plan that the runs of the project show to be failing.
FailingPlansSkipped == \A i \in DOMAIN simulatedAs : simulatedAs[i].how = "simulation" => ~simulatedAs[i].failing
=============================================================================
