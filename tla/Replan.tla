-------------------------------- MODULE Replan --------------------------------
(***************************************************************************)
(* maestro replan: run a plan, have a model correct the one that failed,   *)
(* and run the correction: one at a time (_replan_single) or as a search   *)
(* over several variants per round (_replan_search with mcts.py).          *)
(***************************************************************************)
EXTENDS Integers, FiniteSets, SequencesExt

CONSTANTS
  Finding,      \* audit findings of a severity that blocks a generated plan
  FailedSets,   \* sets of task ids a run can fail with
  Configs       \* replan invocations tried

VARIABLES
  cfg,        \* the invocation: search, maxAttempts, variants, autoApprove, ...
  rpc,        \* next step
  attempts,   \* failed_task_ids of the recorded attempts
  nodes,      \* the plans so far, variant tree of the search; the first is the original
  current,    \* current_plan_path / current_variant
  cand,       \* candidates of this round so far
  trusted,    \* trusted_firewall_model is set
  approved,   \* the user (or auto_approve) agreed: to this plan, or to the search
  rstatus,    \* ReplanState.status
  stoneAt,    \* source dir the stepping stone was saved under
  gated       \* history: generated plans the security gate let pass

replanVars == <<cfg, rpc, attempts, nodes, current, cand, trusted, approved,
                rstatus, stoneAt, gated>>

\* A plan, as far as replan looks at it.  A corrected plan is written to a
\* temporary directory, which becomes its source_dir.
Plan == [findings : SUBSET Finding, firewall : BOOLEAN, home : {"project", "temp"}]
Corrected == [findings : SUBSET Finding, firewall : BOOLEAN, home : {"temp"}]

ASSUME ReplanAssumption ==
  /\ {} \notin FailedSets
  /\ \A c \in Configs :
       /\ c.maxAttempts \in Nat \ {0} /\ c.variants \in Nat \ {0} /\ c.original \in Plan
       /\ c.search \in BOOLEAN /\ c.autoApprove \in BOOLEAN /\ c.tournament \in BOOLEAN

Variant(p, parent) ==
  [plan |-> p, parent |-> parent, state |-> "new", pruned |-> FALSE,
   ok |-> FALSE, failed |-> {}]

Ran(v, ok, failed) == [v EXCEPT !.state = "ran", !.ok = ok, !.failed = failed]

\* The simulation's result is the variant's; a result from the simulation cache
\* has no task results.
Simulate(v, failed) == Ran(v, failed = {}, failed)
Cached(v, ok) == Ran(v, ok, {})

\* A plan that the tree has is pruned, one that earlier replans ran takes over
\* its score and is not simulated.
Duplicate(v, source, ok) ==
  IF source = "search_tree" THEN [v EXCEPT !.pruned = TRUE]
  ELSE [v EXCEPT !.state = "scored", !.ok = ok]

Node(n) == nodes[n]
CurrentPlan == nodes[current].plan

ReplanInit ==
  /\ cfg \in Configs /\ rpc = "attempt" /\ attempts = <<>>
  /\ nodes = <<Variant(cfg.original, 0)>> /\ current = 1 /\ cand = 0
  /\ trusted = FALSE /\ approved = cfg.autoApprove
  /\ rstatus = "max_attempts_exceeded" /\ stoneAt = "none" /\ gated = {}

\* The last two attempts failed with the same tasks.
ExitLoop ==
  /\ Len(attempts) >= 2
  /\ attempts[Len(attempts)] # {}
  /\ attempts[Len(attempts)] = attempts[Len(attempts) - 1]

Leave(why) == rstatus' = why /\ rpc' = "cleanup"

-----------------------------------------------------------------------------
(* An attempt: load the current plan, run it.                              *)

BeginAttempt ==
  /\ rpc = "attempt"
  /\ IF Len(attempts) = cfg.maxAttempts THEN Leave(rstatus)
     ELSE IF ExitLoop THEN Leave("circuit_breaker")
     ELSE rpc' = "load" /\ UNCHANGED rstatus
  /\ UNCHANGED <<cfg, attempts, nodes, current, cand, trusted, approved, stoneAt, gated>>

LoadPlan ==
  /\ rpc = "load"
  /\ \/ trusted' = (trusted \/ CurrentPlan.firewall) /\ rpc' = "run" /\ UNCHANGED attempts
     \/ attempts' = Append(attempts, {}) /\ rpc' = "attempt" /\ UNCHANGED trusted
  /\ UNCHANGED <<cfg, nodes, current, cand, approved, rstatus, stoneAt, gated>>

\* What follows a run of the current plan that did not succeed.
AfterFailure == IF cfg.search /\ ~ approved THEN "askSearch" ELSE "generate"

\* The search takes the result of a variant it has simulated already.
RunCurrent ==
  /\ rpc = "run"
  /\ \/ /\ cfg.search /\ Node(current).state = "ran"
        /\ UNCHANGED <<nodes, attempts>>
        /\ IF Node(current).ok THEN Leave("success")
           ELSE rpc' = AfterFailure /\ UNCHANGED rstatus
     \/ /\ ~ (cfg.search /\ Node(current).state = "ran")
        /\ \/ /\ nodes' = [nodes EXCEPT ![current] = Ran(@, TRUE, {})]
              /\ attempts' = Append(attempts, {})
              /\ Leave("success")
           \/ /\ \E f \in FailedSets : nodes' = [nodes EXCEPT ![current] = Ran(@, FALSE, f)]
              /\ rpc' = AfterFailure /\ UNCHANGED <<attempts, rstatus>>
           \/ /\ attempts' = Append(attempts, {})     \* run_plan raised
              /\ rpc' = "attempt" /\ UNCHANGED <<nodes, rstatus>>
  /\ cand' = 0
  /\ UNCHANGED <<cfg, current, trusted, approved, stoneAt, gated>>

-----------------------------------------------------------------------------
(* The security gate for a generated plan.                                 *)

PassesOwnFirewall(p, firewallAllows) ==   \* mutant: the candidate chooses its own firewall
  /\ p.findings \subseteq CurrentPlan.findings
  /\ p.firewall => firewallAllows

\* It may introduce no finding that the current plan does not have, and the
\* trusted firewall, once there is one, must allow it.
Passes(p, firewallAllows) ==
  /\ p.findings \subseteq CurrentPlan.findings
  /\ trusted => firewallAllows

Gate(p, pass) ==
  \E allows \in BOOLEAN :
    /\ pass = Passes(p, allows)
    /\ gated' = IF pass
                  THEN gated \cup {[plan |-> p, firewall |-> trusted /\ allows,
                                           approved |-> approved]} ELSE gated

-----------------------------------------------------------------------------
(* One correction at a time.                                               *)

RecordFailure == attempts' = Append(attempts, Node(current).failed)

\* The analysis call fails, or its answer holds no plan.
AnalysisFails ==
  /\ rpc = "generate" /\ ~ cfg.search
  /\ RecordFailure /\ rpc' = "attempt"
  /\ UNCHANGED <<cfg, nodes, current, cand, trusted, approved, rstatus, stoneAt, gated>>

Ask ==
  /\ rpc = "generate" /\ ~ cfg.search
  /\ RecordFailure
  /\ \/ approved' = TRUE /\ rpc' = "correct" /\ UNCHANGED rstatus
     \/ ~ cfg.autoApprove /\ UNCHANGED approved /\ Leave("circuit_breaker")
  /\ UNCHANGED <<cfg, nodes, current, cand, trusted, stoneAt, gated>>

\* The corrected plan does not load or is blocked: the next attempt runs the
\* current one again.  Otherwise it becomes the current one.
Correct ==
  /\ rpc = "correct"
  /\ \/ UNCHANGED <<nodes, current, trusted, gated>>
     \/ \E p \in Corrected, pass \in BOOLEAN :
          /\ Gate(p, pass)
          /\ IF pass
               THEN /\ nodes' = Append(nodes, Variant(p, current))
                    /\ current' = Len(nodes')
                    /\ trusted' = (trusted \/ p.firewall)
               ELSE UNCHANGED <<nodes, current, trusted>>
  /\ rpc' = "attempt" /\ approved' = cfg.autoApprove
  /\ UNCHANGED <<cfg, attempts, cand, rstatus, stoneAt>>

-----------------------------------------------------------------------------
(* The search: cfg.variants candidates per round, then one leaf is chosen. *)

AskSearch ==
  /\ rpc = "askSearch"
  /\ \/ approved' = TRUE /\ rpc' = "generate" /\ UNCHANGED <<attempts, rstatus>>
     \/ RecordFailure /\ UNCHANGED approved /\ Leave("circuit_breaker")
  /\ UNCHANGED <<cfg, nodes, current, cand, trusted, stoneAt, gated>>

NextCandidate ==
  /\ cand' = cand + 1
  /\ rpc' = IF cand' = cfg.variants THEN "select" ELSE "generate"
  /\ UNCHANGED <<cfg, attempts, current, trusted, approved, rstatus, stoneAt>>

Searching == rpc = "generate" /\ cfg.search

\* No answer, no plan in it, or one that does not load: no node.
CandidateFails == Searching /\ NextCandidate /\ UNCHANGED <<nodes, gated>>

AddNode(v) == nodes' = Append(nodes, v)

CandidateBlocked ==
  /\ Searching /\ NextCandidate
  /\ \E p \in Corrected : Gate(p, FALSE) /\ AddNode([Variant(p, current) EXCEPT !.pruned = TRUE])

\* A plan with a history of failures is pruned; so is one whose simulation raises.
CandidatePruned ==
  /\ Searching /\ NextCandidate
  /\ \E p \in Corrected : Gate(p, TRUE) /\ AddNode([Variant(p, current) EXCEPT !.pruned = TRUE])

CandidateDuplicate ==
  /\ Searching /\ NextCandidate
  /\ \E p \in Corrected, source \in {"search_tree", "score_history"}, ok \in BOOLEAN :
       Gate(p, TRUE) /\ AddNode(Duplicate(Variant(p, current), source, ok))

CandidateCached ==
  /\ Searching /\ NextCandidate
  /\ \E p \in Corrected, ok \in BOOLEAN :
       Gate(p, TRUE) /\ AddNode(Cached(Variant(p, current), ok))

CandidateSimulated ==
  /\ Searching /\ NextCandidate
  /\ \E p \in Corrected, f \in FailedSets \cup {{}} :
       Gate(p, TRUE) /\ AddNode(Simulate(Variant(p, current), f))

Leaves == {n \in DOMAIN nodes : /\ ~ nodes[n].pruned
                                /\ \A k \in DOMAIN nodes : nodes[k].parent # n}

\* select_expansion_parent: plans never run or scored first, then whatever the
\* policy and its random numbers say; a tournament looks at some leaves only.
Selectable(pool) ==
  LET unexecuted == {n \in pool : nodes[n].state = "new"}
  IN IF unexecuted # {} THEN unexecuted ELSE pool

Pools == IF cfg.tournament THEN (SUBSET Leaves) \ {{}} ELSE {Leaves}

\* What was current stays so when the loop ends here.
SelectNone ==
  /\ rpc = "select"
  /\ Leaves = {} \/ \E pool \in Pools : current \in Selectable(pool)
  /\ RecordFailure /\ Leave(rstatus)
  /\ UNCHANGED <<cfg, nodes, current, cand, trusted, approved, stoneAt, gated>>

SelectVariant ==
  /\ rpc = "select"
  /\ \E pool \in Pools : \E n \in Selectable(pool) \ {current} :
       LET v == nodes[n] IN
       /\ attempts' = Append(attempts, IF v.state = "ran" THEN v.failed
                                       ELSE Node(current).failed)
       /\ IF v.state = "ran" /\ v.ok
            THEN /\ stoneAt' = CurrentPlan.home     \* archive_source_dir
                 /\ Leave("success") /\ UNCHANGED <<current, trusted>>
            ELSE /\ current' = n /\ trusted' = (trusted \/ v.plan.firewall)
                 /\ rpc' = "attempt" /\ UNCHANGED <<rstatus, stoneAt>>
  /\ UNCHANGED <<cfg, nodes, cand, approved, gated>>

\* The temporary directories go, with all that was saved in them.
Cleanup ==
  /\ rpc = "cleanup" /\ rpc' = "done"
  /\ stoneAt' = IF stoneAt = "temp" THEN "none" ELSE stoneAt
  /\ UNCHANGED <<cfg, attempts, nodes, current, cand, trusted, approved, rstatus, gated>>

ReplanNext ==
  \/ BeginAttempt \/ LoadPlan \/ RunCurrent \/ AnalysisFails \/ Ask \/ Correct \/ AskSearch
  \/ CandidateFails \/ CandidateBlocked \/ CandidatePruned \/ CandidateDuplicate
  \/ CandidateCached \/ CandidateSimulated \/ SelectNone \/ SelectVariant \/ Cleanup

ReplanSpec == ReplanInit /\ [][ReplanNext]_replanVars /\ WF_replanVars(ReplanNext)

-----------------------------------------------------------------------------
(* Properties.                                                             *)

ReplanTypeOK ==
  /\ cfg \in Configs /\ current \in DOMAIN nodes
  /\ \A n \in DOMAIN nodes : nodes[n].plan \in Plan /\ nodes[n].parent \in 0 .. Len(nodes)
  /\ attempts \in Seq(FailedSets \cup {{}}) /\ Len(attempts) <= cfg.maxAttempts
  /\ rstatus \in {"max_attempts_exceeded", "circuit_breaker", "success"}

\* Whatever chain of corrections led to it, a generated plan that has run was
\* approved, has no blocking finding that the user's own plan lacks, and passed
\* the firewall of the user's plan when that plan has one
\* (_evaluate_generated_plan_security; docs/SECURITY.md).
GeneratedPlansGated ==
  \A n \in DOMAIN nodes : n > 1 /\ nodes[n].state = "ran" =>
    /\ nodes[n].plan.findings \subseteq nodes[1].plan.findings
    /\ \E g \in gated : /\ g.plan = nodes[n].plan /\ g.approved
                        /\ nodes[1].plan.firewall => g.firewall

\* Every replan ends.
ReplanEnds == <>(rpc = "done")

=============================================================================
