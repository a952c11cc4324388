----------------------------- MODULE CommandProofs -----------------------------
(***************************************************************************)
(* Theorems about what a user may call: maestro replan (Replan), a run of  *)
(* several plans (MultiPlan), maestro run and cleanup (CommandLine) and    *)
(* maestro watch (WatchLoop), for every plan, bound and command line.      *)
(***************************************************************************)
EXTENDS Replan, MultiPlan, CommandLine, WatchLoop, DataLemmas

-----------------------------------------------------------------------------
(* Replan.                                                                 *)

FailedIds == FailedSets \cup {{}}
Variants == [plan : Plan, parent : Nat, state : {"new", "ran", "scored"}, pruned : BOOLEAN,
             ok : BOOLEAN, failed : FailedIds]
ReplanSteps == {"attempt", "load", "run", "askSearch", "generate", "correct", "select",
           "cleanup", "done"}

ReplanTyped ==
  /\ cfg \in Configs /\ rpc \in ReplanSteps
  /\ nodes \in Seq(Variants) /\ current \in 1 .. Len(nodes)
  /\ attempts \in Seq(FailedIds)
  /\ trusted \in BOOLEAN /\ approved \in BOOLEAN
  /\ rstatus \in {"max_attempts_exceeded", "circuit_breaker", "success"}

\* A generated plan the gate let pass, measured against the user's own.
LetPass(v, own, gs) ==
  /\ v.plan.findings \subseteq own.findings
  /\ \E g \in gs : g.plan = v.plan /\ g.approved /\ (own.firewall => g.firewall)

NodesOK(ns, gs) ==
  /\ \A n \in 1 .. Len(ns) : ns[n].parent < n
  /\ \A n \in 1 .. Len(ns) : ns[n].pruned => n # 1 /\ ns[n].state = "new"
  /\ \A n \in 1 .. Len(ns) : n # 1 /\ ~ ns[n].pruned => LetPass(ns[n], ns[1].plan, gs)

\* The inductive invariant: every plan that could be chosen next was let pass,
\* the firewall of the user's plan is in force from the first load on, and
\* candidates are only made with the user's consent.
ReplanInv ==
  /\ ReplanTyped
  /\ NodesOK(nodes, gated)
  /\ ~ nodes[current].pruned
  /\ nodes[1].plan.firewall /\ (current # 1 \/ rpc \in {"run", "askSearch", "generate", "correct", "select"})
       => trusted
  /\ rpc = "correct" \/ (rpc \in {"generate", "select"} /\ cfg.search) => approved
  /\ Len(attempts) <= cfg.maxAttempts
  /\ rpc \in {"load", "run", "askSearch", "generate", "select"} => Len(attempts) < cfg.maxAttempts

LEMMA Candidates ==
  \A p \in Plan, k \in Nat :
    /\ Variant(p, k) \in Variants
    /\ Variant(p, k).plan = p /\ Variant(p, k).parent = k
    /\ Variant(p, k).state = "new" /\ ~ Variant(p, k).pruned
BY DEF Variant, Variants, FailedIds

LEMMA CandidatePrunedIs ==
  \A v \in Variants :
    LET w == [v EXCEPT !.pruned = TRUE] IN
    w \in Variants /\ w.plan = v.plan /\ w.parent = v.parent /\ w.state = v.state /\ w.pruned
BY DEF Variants

LEMMA RanIs ==
  \A v \in Variants, ok \in BOOLEAN, f \in FailedIds :
    LET w == Ran(v, ok, f) IN
    w \in Variants /\ w.plan = v.plan /\ w.parent = v.parent /\ w.pruned = v.pruned /\ w.state = "ran"
BY DEF Variants, Ran

LEMMA DuplicateIs ==
  \A v \in Variants, source \in {"search_tree", "score_history"}, ok \in BOOLEAN :
    LET w == Duplicate(v, source, ok) IN
    /\ w \in Variants /\ w.plan = v.plan /\ w.parent = v.parent
    /\ v.state = "new" /\ ~ v.pruned /\ w.pruned => w.state = "new"
BY ZenonT(40) DEF Variants, Duplicate

\* Another variant in the tree.
LEMMA NodesGrow ==
  ASSUME NEW ns \in Seq(Variants), ns # <<>>, NEW gs, NEW gs2, gs \subseteq gs2, NodesOK(ns, gs),
         NEW v \in Variants, NEW parent \in 1 .. Len(ns), v.parent = parent,
         v.pruned => v.state = "new",
         ~ v.pruned => LetPass(v, ns[1].plan, gs2)
  PROVE  LET more == Append(ns, v) IN
         /\ more \in Seq(Variants) /\ Len(more) = Len(ns) + 1
         /\ \A n \in 1 .. Len(ns) : more[n] = ns[n]
         /\ more[Len(ns) + 1] = v
         /\ NodesOK(more, gs2)
<1> DEFINE more == Append(ns, v)
           len == Len(ns)
<1>1. len \in Nat \ {0}
  BY EmptySeq
<1>2. /\ more \in Seq(Variants) /\ Len(more) = len + 1
      /\ \A n \in 1 .. len : more[n] = ns[n]
      /\ more[len + 1] = v
  BY AppendProperties
<1> HIDE DEF more, len
<1>3. \A n \in 1 .. len : LetPass(ns[n], ns[1].plan, gs) => LetPass(ns[n], ns[1].plan, gs2)
  BY DEF LetPass
<1>4. more[1] = ns[1]
  BY <1>1, <1>2
<1>5. ASSUME NEW n \in 1 .. len + 1
      PROVE  /\ more[n].parent < n
             /\ more[n].pruned => n # 1 /\ more[n].state = "new"
             /\ n # 1 /\ ~ more[n].pruned => LetPass(more[n], more[1].plan, gs2)
  <2>1. CASE n = len + 1
    BY <1>1, <1>2, <1>4, <2>1 DEF len
  <2>2. CASE n \in 1 .. len
    BY <1>1, <1>2, <1>3, <1>4, <2>2 DEF NodesOK, len
  <2> QED
    BY <1>1, <2>1, <2>2
<1>6. NodesOK(more, gs2)
  BY <1>2, <1>5 DEF NodesOK
<1> QED
  BY <1>2, <1>6 DEF more, len

\* The current plan is run.
LEMMA NodesRun ==
  ASSUME NEW ns \in Seq(Variants), NEW gs, NodesOK(ns, gs), NEW k \in 1 .. Len(ns), ~ ns[k].pruned,
         NEW w \in Variants, w.plan = ns[k].plan, w.parent = ns[k].parent, ~ w.pruned
  PROVE  LET other == [ns EXCEPT ![k] = w] IN
         /\ other \in Seq(Variants) /\ Len(other) = Len(ns)
         /\ \A n \in 1 .. Len(ns) : other[n] = IF n = k THEN w ELSE ns[n]
         /\ other[1].plan = ns[1].plan
         /\ NodesOK(other, gs)
<1> DEFINE other == [ns EXCEPT ![k] = w]
           len == Len(ns)
<1>1. len \in Nat /\ k \in 1 .. len
  BY LenProperties
<1>2. /\ other \in Seq(Variants) /\ Len(other) = len
      /\ \A n \in 1 .. len : other[n] = IF n = k THEN w ELSE ns[n]
  BY ExceptSeq
<1> HIDE DEF other, len
<1>3. \A own : LetPass(ns[k], own, gs) => LetPass(w, own, gs)
  BY DEF LetPass
<1>4. other[1].plan = ns[1].plan
  BY <1>1, <1>2
<1>5. NodesOK(other, gs)
  BY <1>1, <1>2, <1>3, <1>4 DEF NodesOK, len
<1> QED
  BY <1>2, <1>4, <1>5 DEF other, len

LEMMA AttemptAdded ==
  ASSUME NEW q \in Seq(FailedIds), NEW f \in FailedIds
  PROVE  Append(q, f) \in Seq(FailedIds) /\ Len(Append(q, f)) = Len(q) + 1 /\ Len(q) \in Nat
BY AppendProperties, LenProperties

\* What the gate answered for a corrected plan.
LEMMA GateIs ==
  ASSUME ReplanInv, NEW p \in Plan, NEW pass \in BOOLEAN, Gate(p, pass),
         rpc = "correct" \/ (rpc \in {"generate", "select"} /\ cfg.search)
  PROVE  /\ gated \subseteq gated'
         /\ pass => \A v \in Variants : v.plan = p => LetPass(v, nodes[1].plan, gated')
<1>1. PICK allows \in BOOLEAN :
        /\ pass = Passes(p, allows)
        /\ gated' = IF pass THEN gated \cup {[plan |-> p, firewall |-> trusted /\ allows,
                                              approved |-> approved]} ELSE gated
  BY DEF Gate
<1>2. approved /\ (nodes[1].plan.firewall => trusted)
  BY DEF ReplanInv
<1>3. ASSUME pass
      PROVE  \A v \in Variants : v.plan = p => LetPass(v, nodes[1].plan, gated')
  <2> DEFINE g == [plan |-> p, firewall |-> trusted /\ allows, approved |-> approved]
  <2>1. g \in gated' /\ g.plan = p /\ g.approved /\ g.firewall = (trusted /\ allows)
    BY <1>1, <1>2, <1>3
  <2>2. /\ p.findings \subseteq CurrentPlan.findings /\ (trusted => allows)
    BY <1>1, <1>3 DEF Passes
  <2>3. CurrentPlan.findings \subseteq nodes[1].plan.findings
    BY DEF ReplanInv, ReplanTyped, NodesOK, LetPass, CurrentPlan
  <2> HIDE DEF g
  <2>4. nodes[1].plan.firewall => g.firewall
    BY <1>2, <2>1, <2>2
  <2> QED
    BY <2>1, <2>2, <2>3, <2>4 DEF LetPass
<1> QED
  BY <1>1, <1>3

\* A candidate is made and added to the tree.
LEMMA CandidateAdded ==
  ASSUME ReplanInv, Searching, NextCandidate,
         NEW p \in Corrected, NEW pass \in BOOLEAN, Gate(p, pass),
         NEW v \in Variants, v.plan = p, v.parent = current,
         v.pruned => v.state = "new", ~ v.pruned => pass, AddNode(v)
  PROVE  ReplanInv'
<1>1. p \in Plan
  BY DEF Corrected, Plan
<1>2. /\ rpc = "generate" /\ cfg.search /\ cfg' = cfg /\ attempts' = attempts /\ current' = current
      /\ trusted' = trusted /\ approved' = approved /\ rstatus' = rstatus
      /\ rpc' \in {"select", "generate"} /\ nodes' = Append(nodes, v)
  BY DEF Searching, NextCandidate, AddNode
<1>3. /\ gated \subseteq gated'
      /\ ~ v.pruned => LetPass(v, nodes[1].plan, gated')
  BY <1>1, <1>2, GateIs
<1>4. nodes \in Seq(Variants) /\ current \in 1 .. Len(nodes) /\ nodes # <<>> /\ Len(nodes) \in Nat
  BY EmptySeq, LenProperties DEF ReplanInv, ReplanTyped
<1>5. /\ nodes' \in Seq(Variants) /\ Len(nodes') = Len(nodes) + 1
      /\ \A n \in 1 .. Len(nodes) : nodes'[n] = nodes[n]
      /\ NodesOK(nodes', gated')
  BY <1>2, <1>3, <1>4, NodesGrow DEF ReplanInv
<1>6. current' \in 1 .. Len(nodes') /\ nodes'[current'] = nodes[current] /\ nodes'[1] = nodes[1]
  BY <1>2, <1>4, <1>5
<1>7. ReplanTyped'
  BY <1>2, <1>5, <1>6 DEF ReplanInv, ReplanTyped, ReplanSteps
<1> QED
  BY <1>2, <1>5, <1>6, <1>7 DEF ReplanInv

\* A step that leaves the plans alone.
LEMMA NextReplanOther ==
  ASSUME ReplanInv,
         \/ BeginAttempt \/ LoadPlan \/ AnalysisFails \/ Ask \/ AskSearch \/ CandidateFails
         \/ SelectNone \/ Cleanup
  PROVE  ReplanInv'
<1> USE DEF ReplanInv
<1>0. /\ cfg' = cfg /\ nodes' = nodes /\ gated' = gated /\ current' = current
  BY DEF BeginAttempt, LoadPlan, AnalysisFails, Ask, AskSearch, CandidateFails, SelectNone,
         Cleanup, NextCandidate
<1>1. NodesOK(nodes', gated') /\ ~ nodes'[current'].pruned /\ nodes'[1] = nodes[1]
  BY <1>0
<1>2. Node(current).failed \in FailedIds /\ {} \in FailedIds
  <2>1. nodes[current] \in Variants
    BY ElementOfSeq DEF ReplanTyped
  <2> QED
    BY <2>1 DEF Node, Variants, FailedIds
<1>3. /\ Append(attempts, {}) \in Seq(FailedIds) /\ Len(Append(attempts, {})) = Len(attempts) + 1
      /\ Append(attempts, Node(current).failed) \in Seq(FailedIds)
      /\ Len(Append(attempts, Node(current).failed)) = Len(attempts) + 1
      /\ Len(attempts) \in Nat /\ cfg.maxAttempts \in Nat
  BY <1>2, AttemptAdded, ReplanAssumption DEF ReplanTyped
<1>4. CASE BeginAttempt
  BY <1>0, <1>1, <1>3, <1>4 DEF BeginAttempt, Leave, ReplanTyped, ReplanSteps
<1>5. CASE LoadPlan
  <2>1. CurrentPlan.firewall \in BOOLEAN
    <3>1. nodes[current] \in Variants
      BY ElementOfSeq DEF ReplanTyped
    <3> QED
      BY <3>1 DEF CurrentPlan, Variants, Plan
  <2>2. /\ rpc = "load" /\ approved' = approved /\ rstatus' = rstatus
        /\ \/ trusted' = (trusted \/ CurrentPlan.firewall) /\ rpc' = "run" /\ attempts' = attempts
           \/ attempts' = Append(attempts, {}) /\ rpc' = "attempt" /\ trusted' = trusted
    BY <1>5 DEF LoadPlan
  <2>3. attempts' \in Seq(FailedIds) /\ Len(attempts') <= cfg.maxAttempts
        /\ (rpc' = "run" => Len(attempts') < cfg.maxAttempts)
    <3>1. attempts' = attempts \/ attempts' = Append(attempts, {})
      BY <2>2
    <3>2. attempts' \in Seq(FailedIds)
      BY <1>3, <3>1 DEF ReplanTyped
    <3> QED
      BY <1>3, <2>2, <3>2 DEF ReplanTyped
  <2>4. /\ trusted' \in BOOLEAN
        /\ nodes[1].plan.firewall /\ (current # 1 \/ rpc' = "run") => trusted'
    BY <2>1, <2>2 DEF CurrentPlan, ReplanTyped
  <2>5. ReplanTyped'
    BY <1>0, <2>2, <2>3, <2>4 DEF ReplanTyped, ReplanSteps
  <2> QED
    BY <1>0, <1>1, <2>2, <2>3, <2>4, <2>5
<1>6. CASE AnalysisFails
  BY <1>0, <1>1, <1>3, <1>6 DEF AnalysisFails, RecordFailure, ReplanTyped, ReplanSteps
<1>7. CASE Ask
  <2>1. /\ rpc = "generate" /\ attempts' = Append(attempts, Node(current).failed)
        /\ trusted' = trusted
        /\ \/ approved' = TRUE /\ rpc' = "correct" /\ rstatus' = rstatus
           \/ approved' = approved /\ rpc' = "cleanup" /\ rstatus' = "circuit_breaker"
    BY <1>7 DEF Ask, RecordFailure, Leave
  <2>2. attempts' \in Seq(FailedIds) /\ Len(attempts') <= cfg.maxAttempts
    BY <1>3, <2>1
  <2>3. ReplanTyped'
    BY <1>0, <2>1, <2>2 DEF ReplanTyped, ReplanSteps
  <2> QED
    BY <1>0, <1>1, <2>1, <2>2, <2>3
<1>8. CASE AskSearch
  <2>1. /\ rpc = "askSearch" /\ trusted' = trusted
        /\ \/ approved' = TRUE /\ rpc' = "generate" /\ rstatus' = rstatus /\ attempts' = attempts
           \/ /\ approved' = approved /\ rpc' = "cleanup" /\ rstatus' = "circuit_breaker"
              /\ attempts' = Append(attempts, Node(current).failed)
    BY <1>8 DEF AskSearch, RecordFailure, Leave
  <2>2. attempts' = attempts \/ attempts' = Append(attempts, Node(current).failed)
    BY <2>1
  <2>3. attempts' \in Seq(FailedIds)
    BY <1>3, <2>2 DEF ReplanTyped
  <2>4. Len(attempts') <= cfg.maxAttempts /\ (rpc' = "generate" => Len(attempts') < cfg.maxAttempts)
    BY <1>3, <2>1, <2>3
  <2>5. ReplanTyped'
    BY <1>0, <2>1, <2>3 DEF ReplanTyped, ReplanSteps
  <2> QED
    BY <1>0, <1>1, <2>1, <2>4, <2>5
<1>9. CASE CandidateFails
  BY <1>0, <1>1, <1>3, <1>9 DEF CandidateFails, Searching, NextCandidate, ReplanTyped, ReplanSteps
<1>10. CASE SelectNone
  BY <1>0, <1>1, <1>3, <1>10 DEF SelectNone, RecordFailure, Leave, ReplanTyped, ReplanSteps
<1>11. CASE Cleanup
  BY <1>0, <1>1, <1>3, <1>11 DEF Cleanup, ReplanTyped, ReplanSteps
<1> QED
  BY <1>4, <1>5, <1>6, <1>7, <1>8, <1>9, <1>10, <1>11

LEMMA NextRunCurrent ==
  ASSUME ReplanInv, RunCurrent
  PROVE  ReplanInv'
<1>1. /\ rpc = "run" /\ cfg' = cfg /\ current' = current /\ trusted' = trusted
      /\ approved' = approved /\ gated' = gated
  BY DEF RunCurrent
<1>2. /\ nodes \in Seq(Variants) /\ current \in 1 .. Len(nodes) /\ nodes[current] \in Variants
      /\ NodesOK(nodes, gated) /\ ~ nodes[current].pruned /\ attempts \in Seq(FailedIds)
      /\ {} \in FailedIds /\ nodes[1] \in Variants
  BY LenProperties DEF ReplanInv, ReplanTyped, FailedIds
<1>3. /\ Append(attempts, {}) \in Seq(FailedIds) /\ Len(Append(attempts, {})) = Len(attempts) + 1
      /\ Len(attempts) \in Nat /\ Len(attempts) < cfg.maxAttempts /\ cfg.maxAttempts \in Nat
  BY <1>1, <1>2, AttemptAdded, ReplanAssumption DEF ReplanInv, ReplanTyped
<1>4. \/ /\ nodes' = nodes /\ attempts' = attempts
         /\ \/ rstatus' = "success" /\ rpc' = "cleanup"
            \/ rpc' = AfterFailure /\ rstatus' = rstatus
      \/ /\ nodes' = [nodes EXCEPT ![current] = Ran(@, TRUE, {})]
         /\ attempts' = Append(attempts, {}) /\ rstatus' = "success" /\ rpc' = "cleanup"
      \/ /\ \E f \in FailedSets : nodes' = [nodes EXCEPT ![current] = Ran(@, FALSE, f)]
         /\ attempts' = attempts /\ rstatus' = rstatus /\ rpc' = AfterFailure
      \/ /\ nodes' = nodes /\ attempts' = Append(attempts, {}) /\ rstatus' = rstatus
         /\ rpc' = "attempt"
  BY DEF RunCurrent, Leave
<1>5. /\ nodes' \in Seq(Variants) /\ Len(nodes') = Len(nodes) /\ nodes'[1].plan = nodes[1].plan
      /\ ~ nodes'[current].pruned /\ NodesOK(nodes', gated)
  <2>1. CASE nodes' = nodes
    BY <1>2, <2>1
  <2>2. CASE nodes' # nodes
    <3>1. \E ok \in BOOLEAN, f \in FailedIds :
            nodes' = [nodes EXCEPT ![current] = Ran(nodes[current], ok, f)]
      <4>1. \A f \in FailedSets : f \in FailedIds
        BY DEF FailedIds
      <4> HIDE DEF Ran
      <4>2. CASE nodes' = [nodes EXCEPT ![current] = Ran(nodes[current], TRUE, {})]
        BY <1>2, <4>2
      <4>3. CASE \E f \in FailedSets : nodes' = [nodes EXCEPT ![current] = Ran(nodes[current], FALSE, f)]
        BY <4>1, <4>3
      <4> QED
        BY <1>4, <2>2, <4>2, <4>3
    <3>2. PICK ok \in BOOLEAN, f \in FailedIds :
            nodes' = [nodes EXCEPT ![current] = Ran(nodes[current], ok, f)]
      BY <3>1
    <3> DEFINE w == Ran(nodes[current], ok, f)
    <3>3. /\ w \in Variants /\ w.plan = nodes[current].plan /\ w.parent = nodes[current].parent
          /\ ~ w.pruned
      BY <1>2, RanIs
    <3>4. nodes' = [nodes EXCEPT ![current] = w]
      BY <3>2
    <3> HIDE DEF w
    <3>5. /\ nodes' \in Seq(Variants) /\ Len(nodes') = Len(nodes)
          /\ \A n \in 1 .. Len(nodes) : nodes'[n] = IF n = current THEN w ELSE nodes[n]
          /\ nodes'[1].plan = nodes[1].plan /\ NodesOK(nodes', gated)
      <4> DEFINE other == [nodes EXCEPT ![current] = w]
      <4>1. /\ other \in Seq(Variants) /\ Len(other) = Len(nodes)
            /\ \A n \in 1 .. Len(nodes) : other[n] = IF n = current THEN w ELSE nodes[n]
            /\ other[1].plan = nodes[1].plan /\ NodesOK(other, gated)
        BY <1>2, <3>3, NodesRun
      <4> HIDE DEF other
      <4> QED
        BY <3>4, <4>1 DEF other
    <3> QED
      BY <1>2, <3>3, <3>5
  <2> QED
    BY <2>1, <2>2
<1>6. AfterFailure \in {"askSearch", "generate"} /\ (AfterFailure = "generate" /\ cfg.search => approved)
  BY DEF AfterFailure
<1>7. /\ attempts' \in Seq(FailedIds) /\ Len(attempts') \in Nat
      /\ Len(attempts') <= Len(attempts) + 1
  <2>1. CASE attempts' = attempts
    BY <1>2, <1>3, <2>1
  <2>2. CASE attempts' = Append(attempts, {})
    BY <1>3, <2>2
  <2> QED
    BY <1>4, <2>1, <2>2
<1>8. /\ rpc' \in {"cleanup", "attempt", "askSearch", "generate"}
      /\ rstatus' = rstatus \/ rstatus' = "success"
      /\ rpc' \in {"askSearch", "generate"} => attempts' = attempts
      /\ rpc' = "generate" /\ cfg.search => approved
  BY <1>4, <1>6
<1>9. ReplanTyped'
  BY <1>1, <1>2, <1>5, <1>7, <1>8 DEF ReplanInv, ReplanTyped, ReplanSteps
<1>10. Len(attempts') <= cfg.maxAttempts
       /\ (rpc' \in {"load", "run", "askSearch", "generate", "select"} => Len(attempts') < cfg.maxAttempts)
  BY <1>3, <1>7, <1>8
<1>11. nodes'[1].plan.firewall /\ (current # 1 \/ rpc \in {"run", "askSearch", "generate", "correct", "select"})
       => trusted
  BY <1>5 DEF ReplanInv
<1> QED
  BY <1>1, <1>5, <1>8, <1>9, <1>10, <1>11 DEF ReplanInv

LEMMA NextCorrect ==
  ASSUME ReplanInv, Correct
  PROVE  ReplanInv'
<1>1. /\ rpc = "correct" /\ cfg' = cfg /\ attempts' = attempts /\ rstatus' = rstatus
      /\ rpc' = "attempt" /\ approved' = cfg.autoApprove /\ cfg.autoApprove \in BOOLEAN
  BY ReplanAssumption DEF Correct, ReplanInv, ReplanTyped
<1>2. /\ nodes \in Seq(Variants) /\ current \in 1 .. Len(nodes) /\ nodes # <<>>
      /\ Len(nodes) \in Nat /\ NodesOK(nodes, gated) /\ trusted \in BOOLEAN
  BY EmptySeq, LenProperties DEF ReplanInv, ReplanTyped
<1>3. CASE nodes' = nodes /\ current' = current /\ trusted' = trusted /\ gated' = gated
  BY <1>1, <1>3 DEF ReplanInv, ReplanTyped, ReplanSteps
<1>4. ASSUME NEW p \in Corrected, NEW pass \in BOOLEAN, Gate(p, pass),
             IF pass THEN /\ nodes' = Append(nodes, Variant(p, current))
                          /\ current' = Len(nodes')
                          /\ trusted' = (trusted \/ p.firewall)
             ELSE nodes' = nodes /\ current' = current /\ trusted' = trusted
      PROVE  ReplanInv'
  <2>1. p \in Plan /\ p.firewall \in BOOLEAN
    BY DEF Corrected, Plan
  <2>2. CASE ~ pass
    <3>1. gated' = gated
      BY <1>4, <2>2 DEF Gate
    <3> QED
      BY <1>3, <1>4, <2>2, <3>1
  <2>3. CASE pass
    <3> DEFINE v == Variant(p, current)
    <3>1. v \in Variants /\ v.plan = p /\ v.parent = current /\ ~ v.pruned
      BY <1>2, <2>1, Candidates
    <3>2. gated \subseteq gated' /\ LetPass(v, nodes[1].plan, gated')
      BY <1>1, <1>4, <2>1, <2>3, <3>1, GateIs
    <3>3. nodes' = Append(nodes, v)
      BY <1>4, <2>3
    <3> HIDE DEF v
    <3>4. /\ nodes' \in Seq(Variants) /\ Len(nodes') = Len(nodes) + 1
          /\ \A n \in 1 .. Len(nodes) : nodes'[n] = nodes[n]
          /\ nodes'[Len(nodes) + 1] = v
          /\ NodesOK(nodes', gated')
      BY <1>2, <3>1, <3>2, <3>3, NodesGrow
    <3>5. current' \in 1 .. Len(nodes') /\ ~ nodes'[current'].pruned /\ nodes'[1] = nodes[1]
      BY <1>2, <1>4, <2>3, <3>1, <3>4
    <3>6. trusted' \in BOOLEAN /\ (nodes[1].plan.firewall => trusted')
      BY <1>1, <1>2, <1>4, <2>1, <2>3 DEF ReplanInv
    <3>7. ReplanTyped'
      BY <1>1, <3>4, <3>5, <3>6 DEF ReplanInv, ReplanTyped, ReplanSteps
    <3> QED
      BY <1>1, <3>4, <3>5, <3>6, <3>7 DEF ReplanInv
  <2> QED
    BY <2>2, <2>3
<1> QED
  BY <1>3, <1>4 DEF Correct

LEMMA NextSelectVariant ==
  ASSUME ReplanInv, SelectVariant
  PROVE  ReplanInv'
<1>1. PICK pool \in Pools : \E n \in Selectable(pool) \ {current} :
        LET v == nodes[n] IN
        /\ attempts' = Append(attempts, IF v.state = "ran" THEN v.failed ELSE Node(current).failed)
        /\ IF v.state = "ran" /\ v.ok
             THEN /\ stoneAt' = CurrentPlan.home
                  /\ Leave("success") /\ UNCHANGED <<current, trusted>>
             ELSE /\ current' = n /\ trusted' = (trusted \/ v.plan.firewall)
                  /\ rpc' = "attempt" /\ UNCHANGED <<rstatus, stoneAt>>
  BY DEF SelectVariant
<1>2. PICK n \in Selectable(pool) : 
        /\ attempts' = Append(attempts, IF nodes[n].state = "ran" THEN nodes[n].failed
                                        ELSE Node(current).failed)
        /\ \/ rstatus' = "success" /\ rpc' = "cleanup" /\ current' = current /\ trusted' = trusted
           \/ /\ current' = n /\ trusted' = (trusted \/ nodes[n].plan.firewall)
              /\ rpc' = "attempt" /\ rstatus' = rstatus
  BY <1>1 DEF Leave
<1>3. pool \subseteq Leaves
  BY <1>1 DEF Pools
<1>4. n \in 1 .. Len(nodes) /\ ~ nodes[n].pruned
  <2>1. n \in Leaves
    BY <1>2, <1>3 DEF Selectable
  <2> QED
    BY <2>1, LenProperties DEF Leaves, ReplanInv, ReplanTyped
<1>5. /\ rpc = "select" /\ cfg' = cfg /\ nodes' = nodes /\ approved' = approved /\ gated' = gated
  BY DEF SelectVariant
<1>6. nodes[n] \in Variants /\ nodes[current] \in Variants
  BY <1>4 DEF ReplanInv, ReplanTyped
<1>7. (IF nodes[n].state = "ran" THEN nodes[n].failed ELSE Node(current).failed) \in FailedIds
  BY <1>6 DEF Variants, Node
<1>8. attempts' \in Seq(FailedIds) /\ Len(attempts') = Len(attempts) + 1 /\ Len(attempts) \in Nat
  BY <1>2, <1>7, AttemptAdded DEF ReplanInv, ReplanTyped
<1>9. Len(attempts') <= cfg.maxAttempts
  BY <1>5, <1>8, ReplanAssumption DEF ReplanInv, ReplanTyped
<1>10. trusted' \in BOOLEAN /\ (nodes[1].plan.firewall => trusted')
  BY <1>2, <1>5, <1>6 DEF ReplanInv, ReplanTyped, Variants, Plan
<1>11. ReplanTyped'
  BY <1>2, <1>4, <1>5, <1>8, <1>10 DEF ReplanInv, ReplanTyped, ReplanSteps
<1> QED
  BY <1>2, <1>4, <1>5, <1>9, <1>10, <1>11 DEF ReplanInv

LEMMA NextReplan ==
  ASSUME ReplanInv, [ReplanNext]_replanVars
  PROVE  ReplanInv'
<1> USE DEF Corrected, Plan
<1>0. current \in Nat
  BY LenProperties DEF ReplanInv, ReplanTyped
<1>1. CASE CandidateBlocked \/ CandidatePruned
  <2>1. PICK p \in Corrected, pass \in BOOLEAN :
          Searching /\ NextCandidate /\ Gate(p, pass)
          /\ AddNode([Variant(p, current) EXCEPT !.pruned = TRUE])
    BY <1>1 DEF CandidateBlocked, CandidatePruned
  <2> DEFINE v == [Variant(p, current) EXCEPT !.pruned = TRUE]
  <2>2. v \in Variants /\ v.plan = p /\ v.parent = current /\ v.state = "new" /\ v.pruned
    BY <1>0, Candidates, CandidatePrunedIs
  <2> HIDE DEF v
  <2> QED
    BY <2>1, <2>2, CandidateAdded DEF v
<1>2. CASE CandidateDuplicate
  <2>1. PICK p \in Corrected, source \in {"search_tree", "score_history"}, ok \in BOOLEAN :
          Searching /\ NextCandidate /\ Gate(p, TRUE)
          /\ AddNode(Duplicate(Variant(p, current), source, ok))
    BY <1>2 DEF CandidateDuplicate
  <2> DEFINE v == Duplicate(Variant(p, current), source, ok)
  <2>2. v \in Variants /\ v.plan = p /\ v.parent = current /\ (v.pruned => v.state = "new")
    BY <1>0, Candidates, DuplicateIs
  <2> HIDE DEF v
  <2> QED
    BY <2>1, <2>2, CandidateAdded DEF v
<1>3. CASE CandidateCached \/ CandidateSimulated
  <2>1. PICK p \in Corrected, ok \in BOOLEAN, f \in FailedIds :
          Searching /\ NextCandidate /\ Gate(p, TRUE)
          /\ AddNode(Ran(Variant(p, current), ok, f))
    BY <1>3 DEF CandidateCached, CandidateSimulated, Cached, Simulate, FailedIds
  <2> DEFINE v == Ran(Variant(p, current), ok, f)
  <2>2. v \in Variants /\ v.plan = p /\ v.parent = current /\ ~ v.pruned
    BY <1>0, Candidates, RanIs
  <2> HIDE DEF v
  <2> QED
    BY <2>1, <2>2, CandidateAdded DEF v
<1>4. CASE UNCHANGED replanVars
  BY <1>4 DEF replanVars, ReplanInv, ReplanTyped
<1> QED
  BY <1>1, <1>2, <1>3, <1>4, NextReplanOther, NextRunCurrent, NextCorrect, NextSelectVariant
     DEF ReplanNext

LEMMA InitReplan == ReplanInit => ReplanInv
<1> SUFFICES ASSUME ReplanInit PROVE ReplanInv
  OBVIOUS
<1> DEFINE v == Variant(cfg.original, 0)
<1>1. /\ cfg \in Configs /\ rpc = "attempt" /\ attempts = <<>> /\ nodes = <<v>> /\ current = 1
      /\ trusted = FALSE /\ approved = cfg.autoApprove /\ rstatus = "max_attempts_exceeded"
  BY DEF ReplanInit
<1>2. v \in Variants /\ v.parent = 0 /\ ~ v.pruned
  BY <1>1, Candidates, ReplanAssumption
<1> HIDE DEF v
<1>3. nodes \in Seq(Variants) /\ Len(nodes) = 1 /\ nodes[1] = v
  BY <1>1, <1>2
<1>4. NodesOK(nodes, gated)
  BY <1>2, <1>3 DEF NodesOK
<1>5. attempts \in Seq(FailedIds) /\ Len(attempts) = 0
  BY <1>1, EmptySeq
<1>6. cfg.autoApprove \in BOOLEAN /\ cfg.maxAttempts \in Nat \ {0}
  BY <1>1, ReplanAssumption
<1>7. nodes \in Seq(Variants) /\ current \in 1 .. Len(nodes)
  BY <1>1, <1>3
<1>8. ReplanTyped
  BY <1>1, <1>5, <1>6, <1>7 DEF ReplanTyped, ReplanSteps
<1> QED
  BY <1>1, <1>2, <1>3, <1>4, <1>5, <1>6, <1>8 DEF ReplanInv

\* Whatever is asked of a replan and whatever the model answers, each generated
\* plan that was run was let pass by the gate, as GeneratedPlansGated says.
THEOREM PlansGated == ReplanSpec => [](GeneratedPlansGated /\ ReplanTypeOK)
<1>1. ReplanInv => GeneratedPlansGated /\ ReplanTypeOK
  <2> SUFFICES ASSUME ReplanInv PROVE GeneratedPlansGated /\ ReplanTypeOK
    OBVIOUS
  <2>1. DOMAIN nodes = 1 .. Len(nodes) /\ Len(nodes) \in Nat
    BY LenProperties DEF ReplanInv, ReplanTyped
  <2>2. GeneratedPlansGated
    BY <2>1 DEF GeneratedPlansGated, ReplanInv, NodesOK, LetPass
  <2>3. \A n \in 1 .. Len(nodes) :
           nodes[n].plan \in Plan /\ nodes[n].parent \in Nat /\ nodes[n].parent < n
    <3>1. \A n \in 1 .. Len(nodes) : nodes[n] \in Variants
      BY ElementOfSeq DEF ReplanInv, ReplanTyped
    <3> QED
      BY <3>1 DEF ReplanInv, NodesOK, Variants
  <2> QED
    BY <2>1, <2>2, <2>3 DEF ReplanTypeOK, ReplanInv, ReplanTyped, FailedIds
<1> QED
  BY <1>1, InitReplan, NextReplan, PTL DEF ReplanSpec

-----------------------------------------------------------------------------
(* MultiPlan.                                                              *)

LEMMA Products ==
  \A a \in Nat, b \in Nat, m \in Nat :
    a * m \in Nat /\ (a + 1) * m = a * m + m /\ (a <= b => a * m <= b * m)
OBVIOUS

\* A day belongs to the week, or the month, that began no later, and the next
\* day to none that began before.
PeriodBegins(w, now) == now - (now % w)

LEMMA Remainders ==
  \A now \in Nat, w \in Nat \ {0} :
    /\ PeriodBegins(w, now) \in 0 .. now
    /\ PeriodBegins(w, now) <= PeriodBegins(w, now + 1)
BY DEF PeriodBegins

LEMMA PeriodsGoOn ==
  \A period : \A now \in Nat :
    /\ PeriodStart(period, now) \in 0 .. now
    /\ PeriodStart(period, now) <= PeriodStart(period, now + 1)
<1>1. \A now \in Nat :
        /\ PeriodBegins(Week, now) \in 0 .. now /\ PeriodBegins(Week, now) <= PeriodBegins(Week, now + 1)
        /\ PeriodBegins(Month, now) \in 0 .. now /\ PeriodBegins(Month, now) <= PeriodBegins(Month, now + 1)
  BY Remainders, MultiAssumption
<1> SUFFICES ASSUME NEW period, NEW now \in Nat
             PROVE  /\ PeriodStart(period, now) \in 0 .. now
                    /\ PeriodStart(period, now) <= PeriodStart(period, now + 1)
  OBVIOUS
<1>2. /\ PeriodStart(period, now) = IF period = "daily" THEN now
                                    ELSE IF period = "weekly" THEN PeriodBegins(Week, now)
                                    ELSE PeriodBegins(Month, now)
      /\ PeriodStart(period, now + 1) = IF period = "daily" THEN now + 1
                                        ELSE IF period = "weekly" THEN PeriodBegins(Week, now + 1)
                                        ELSE PeriodBegins(Month, now + 1)
  BY DEF PeriodStart, PeriodBegins
<1> QED
  BY <1>1, <1>2

Entries == [day : Nat, cost : Nat]

LEMMA SpendGoesDown ==
  ASSUME NEW l \in Seq(Entries), NEW start \in Nat, NEW later \in Nat, start <= later
  PROVE  /\ SpendSince(l, start) \in Nat /\ SpendSince(l, later) \in Nat
         /\ SpendSince(l, later) <= SpendSince(l, start)
<1> DEFINE costs == [i \in DOMAIN l |-> l[i].cost]
           since(d) == {i \in DOMAIN l : l[i].day >= d}
<1>1. DOMAIN l = 1 .. Len(l) /\ Len(l) \in Nat
  BY LenProperties
<1>2. \A i \in DOMAIN l : l[i].day \in Nat /\ l[i].cost \in Nat
  <2>1. \A i \in DOMAIN l : l[i] \in Entries
    BY <1>1, ElementOfSeq
  <2> QED
    BY <2>1 DEF Entries
<1>3. IsFiniteSet(DOMAIN l)
  BY <1>1, FS_Interval
<1>4. since(later) \in SUBSET since(start) /\ since(start) \in SUBSET DOMAIN l
  BY <1>2
<1>5. IsFiniteSet(since(start)) /\ \A i \in since(start) : costs[i] \in Nat
  BY <1>2, <1>3, <1>4, FS_Subset
<1>6. IsFiniteSet(since(later)) /\ \A i \in since(later) : costs[i] \in Nat
  BY <1>4, <1>5, FS_Subset
<1> HIDE DEF since, costs
<1>7. /\ SumFunctionOnSet(costs, since(start)) \in Nat
      /\ SumFunctionOnSet(costs, since(later)) <= SumFunctionOnSet(costs, since(start))
  BY <1>4, <1>5, SumGrows
<1>8. SumFunctionOnSet(costs, since(later)) \in Nat
  BY <1>6, SumGrows
<1> QED
  BY <1>7, <1>8 DEF SpendSince, since, costs

LEMMA SpendRecorded ==
  ASSUME NEW l \in Seq(Entries), NEW e \in Entries, NEW start \in Nat, start <= e.day
  PROVE  SpendSince(Append(l, e), start) = SpendSince(l, start) + e.cost
<1> DEFINE more == Append(l, e)
           n == Len(l)
           old == [i \in DOMAIN l |-> l[i].cost]
           new == [i \in DOMAIN more |-> more[i].cost]
           since == {i \in DOMAIN l : l[i].day >= start}
<1>1. /\ n \in Nat /\ DOMAIN l = 1 .. n /\ more \in Seq(Entries) /\ DOMAIN more = 1 .. n + 1
      /\ \A i \in 1 .. n : more[i] = l[i]
      /\ more[n + 1] = e
  BY AppendProperties, LenProperties
<1>2. \A i \in 1 .. n : l[i].day \in Nat /\ l[i].cost \in Nat
  <2>1. \A i \in 1 .. n : l[i] \in Entries
    BY ElementOfSeq
  <2> QED
    BY <2>1 DEF Entries
<1>3. e.cost \in Nat /\ e.day \in Nat
  BY DEF Entries
<1> HIDE DEF more, n
<1>4. {i \in DOMAIN more : more[i].day >= start} = since \cup {n + 1}
  BY <1>1, <1>2, <1>3
<1>5. IsFiniteSet(since) /\ n + 1 \notin since
  <2>1. since \subseteq 1 .. n
    BY <1>1
  <2>2. IsFiniteSet(1 .. n)
    BY <1>1, FS_Interval
  <2>3. IsFiniteSet(since)
    BY <2>1, <2>2, FS_Subset
  <2>4. n + 1 \notin 1 .. n
    BY <1>1
  <2> QED
    BY <2>1, <2>3, <2>4
<1>6. /\ \A i \in since : old[i] = new[i] /\ old[i] \in Int
      /\ \A i \in since \cup {n + 1} : new[i] \in Int
      /\ new[n + 1] = e.cost
  BY <1>1, <1>2, <1>3
<1> HIDE DEF since, new, old
<1>7. SumFunctionOnSet(new, since \cup {n + 1}) = e.cost + SumFunctionOnSet(new, since)
  BY <1>5, <1>6, SumAdds
<1>8. SumFunctionOnSet(old, since) = SumFunctionOnSet(new, since)
  BY <1>5, <1>6, SumAgrees
<1>9. SumFunctionOnSet(old, since) \in Int
  BY <1>5, <1>6, SumInt
<1>10. /\ SpendSince(l, start) = SumFunctionOnSet(old, since)
       /\ SpendSince(more, start) = SumFunctionOnSet(new, since \cup {n + 1})
  BY <1>4 DEF SpendSince, since, new, old
<1> QED
  BY <1>3, <1>7, <1>8, <1>9, <1>10 DEF more

MultiTyped ==
  /\ mcfg \in MultiConfigs /\ mpc \in {"run", "done"}
  /\ run \in [Plans -> {"waiting", "running", "ended"} \cup Final]
  /\ paid \in [Plans -> 0 .. MaxRunCost] /\ remaining \in Int /\ exceeded \in BOOLEAN
  /\ ledger \in Seq(Entries) /\ day \in 0 .. MaxDay /\ others \in 0 .. MaxOthers

Running(st) == {p \in Plans : st[p] = "running"}
Charged(st) == {p \in Plans : st[p] = "done"}

\* One after another means that what has begun has nothing unfinished before it.
InTurn(cf, st) ==
  /\ \A p \in Plans : p \notin cf.loads => st[p] \in Final
  /\ ~ cf.parallel => \A p, q \in Plans : st[p] \in {"running", "ended"} /\ q < p => st[q] \in Final

\* A run that is under way, here or in another process, may still cost
\* MaxRunCost, and was not begun with the limit spent.
PeriodKept(cf, spent, st) ==
  cf.limit > 0 =>
    spent + (Cardinality(Running(st)) + others) * MaxRunCost < cf.limit + AtOnce * MaxRunCost

\* What was charged against the shared cap, and with how much left of it what
\* is under way was begun.
CapKept(cf, st, pd, left, out) ==
  /\ left = cf.cap - SumFunctionOnSet(pd, Charged(st))
  /\ \A p \in Plans : st[p] \notin {"ended", "done"} => pd[p] = 0
  /\ ~ cf.parallel /\ cf.cap > 0 =>
       left + MaxRunCost > 0 /\ \A p \in Plans : st[p] \in {"running", "ended"} => left > 0
  /\ cf.cap > 0 /\ left <= 0 => out

MultiInv ==
  /\ MultiTyped
  /\ InTurn(mcfg, run)
  /\ PeriodKept(mcfg, PeriodSpend(mcfg.period), run)
  /\ CapKept(mcfg, run, paid, remaining, exceeded)
  /\ mpc = "done" => \A p \in Plans : run[p] \in Final

LEMMA PlansFinite == IsFiniteSet(Plans) /\ Cardinality(Plans) = NPlans
BY MultiAssumption, FS_Interval DEF Plans

LEMMA SomeFinite ==
  ASSUME NEW S, S \subseteq Plans
  PROVE  IsFiniteSet(S) /\ Cardinality(S) \in Nat /\ Cardinality(S) <= NPlans
BY PlansFinite, FS_Subset, FS_CardinalityType

LEMMA ChargedInt ==
  ASSUME NEW pd \in [Plans -> 0 .. MaxRunCost], NEW S, S \subseteq Plans
  PROVE  /\ IsFiniteSet(S) /\ \A p \in S : pd[p] \in Int
         /\ SumFunctionOnSet(pd, S) \in Int
<1>1. IsFiniteSet(S) /\ \A p \in S : pd[p] \in Int
  BY SomeFinite, MultiAssumption
<1> QED
  BY <1>1, SumInt

LEMMA InitMulti == MultiInit => MultiInv
<1> SUFFICES ASSUME MultiInit PROVE MultiInv
  OBVIOUS
<1>1. /\ mcfg \in MultiConfigs /\ mpc = "run" /\ remaining = mcfg.cap /\ exceeded = FALSE /\ day = 0
      /\ others = 0
      /\ run = [p \in Plans |-> IF p \in mcfg.loads THEN "waiting" ELSE "failed"]
      /\ paid = [p \in Plans |-> 0]
  BY DEF MultiInit
<1>2. /\ mcfg.cap \in Nat /\ mcfg.limit \in Nat /\ mcfg.parallel \in BOOLEAN
      /\ MaxRunCost \in Nat \ {0} /\ MaxDay \in Nat /\ NPlans \in Nat \ {0} /\ MaxOthers \in Nat
  BY <1>1, MultiAssumption
<1>3. Running(run) = {} /\ Charged(run) = {}
  BY <1>1 DEF Running, Charged
<1>4. ledger \in Seq(Entries) /\ PeriodSpend(mcfg.period) \in 0 .. 1
  <2> DEFINE e == [day |-> 0, cost |-> 1]
  <2>1. e \in Entries /\ e.cost = 1 /\ e.day = 0 /\ <<>> \in Seq(Entries)
    BY DEF Entries
  <2>2. PeriodStart(mcfg.period, 0) \in 0 .. 0
    BY PeriodsGoOn
  <2>3. PeriodStart(mcfg.period, day) = 0
    BY <1>1, <2>2
  <2>4. SpendSince(<<>>, 0) = 0
    BY SumEmpty DEF SpendSince
  <2>5. ledger = <<>> \/ ledger = Append(<<>>, e)
    BY DEF MultiInit
  <2> HIDE DEF e
  <2>6. 0 <= e.day /\ 0 \in Nat
    BY <2>1
  <2>7. SpendSince(Append(<<>>, e), 0) = SpendSince(<<>>, 0) + e.cost
    BY <2>1, <2>6, SpendRecorded
  <2>8. Append(<<>>, e) \in Seq(Entries)
    BY <2>1, AppendProperties
  <2>9. ledger \in Seq(Entries)
    BY <2>1, <2>5, <2>8
  <2>10. SpendSince(ledger, 0) \in 0 .. 1
    BY <2>1, <2>4, <2>5, <2>7
  <2> QED
    BY <2>3, <2>9, <2>10 DEF PeriodSpend
<1>5. MultiTyped
  <2>1. run \in [Plans -> {"waiting", "running", "ended"} \cup Final]
    BY <1>1 DEF Final
  <2>2. paid \in [Plans -> 0 .. MaxRunCost]
    BY <1>1, <1>2
  <2>3. day \in 0 .. MaxDay /\ remaining \in Int /\ others \in 0 .. MaxOthers
    BY <1>1, <1>2
  <2> QED
    BY <1>1, <1>4, <2>1, <2>2, <2>3 DEF MultiTyped
<1>6. PeriodKept(mcfg, PeriodSpend(mcfg.period), run)
  <2>1. AtOnce \in Nat /\ 1 <= AtOnce
    BY <1>2 DEF AtOnce
  <2>2. MaxRunCost <= AtOnce * MaxRunCost /\ AtOnce * MaxRunCost \in Nat
    BY <1>2, <2>1, Products
  <2>3. (Cardinality(Running(run)) + others) * MaxRunCost = 0
    <3>1. Cardinality(Running(run)) = 0 /\ others = 0
      BY <1>3, FS_EmptySet DEF MultiInit
    <3> QED
      BY <1>2, <3>1
  <2> QED
    BY <1>2, <1>4, <2>2, <2>3 DEF PeriodKept
<1>7. CapKept(mcfg, run, paid, remaining, exceeded)
  BY <1>1, <1>2, <1>3, SumEmpty DEF CapKept
<1> QED
  BY <1>1, <1>5, <1>6, <1>7 DEF MultiInv, InTurn, Final

\* What a run that is begun or ends does to the number of those under way.
LEMMA RunningChanges ==
  ASSUME NEW st, NEW st2, NEW p \in Plans,
         \A q \in Plans : q # p => st2[q] = st[q]
  PROVE  /\ st[p] # "running" /\ st2[p] = "running" =>
              Cardinality(Running(st2)) = Cardinality(Running(st)) + 1
         /\ st[p] = "running" /\ st2[p] # "running" =>
              Cardinality(Running(st)) = Cardinality(Running(st2)) + 1
         /\ st[p] # "running" /\ st2[p] # "running" =>
              Cardinality(Running(st2)) = Cardinality(Running(st))
<1>1. IsFiniteSet(Running(st)) /\ IsFiniteSet(Running(st2))
  BY SomeFinite DEF Running
<1>2. ASSUME st[p] # "running", st2[p] = "running"
      PROVE  Running(st2) = Running(st) \cup {p} /\ p \notin Running(st)
  BY <1>2 DEF Running
<1>3. ASSUME st[p] = "running", st2[p] # "running"
      PROVE  Running(st) = Running(st2) \cup {p} /\ p \notin Running(st2)
  BY <1>3 DEF Running
<1>4. ASSUME st[p] # "running", st2[p] # "running"
      PROVE  Running(st2) = Running(st)
  BY <1>4 DEF Running
<1> QED
  BY <1>1, <1>2, <1>3, <1>4, FS_AddElement

\* One after another, only one is under way.
LEMMA RunsHere ==
  ASSUME MultiTyped, NEW st, InTurn(mcfg, st)
  PROVE  /\ Cardinality(Running(st)) \in Nat /\ AtOnce \in Nat
         /\ Cardinality(Running(st)) + MaxOthers <= AtOnce
<1>1. /\ mcfg.parallel \in BOOLEAN /\ NPlans \in Nat \ {0} /\ MaxOthers \in Nat
      /\ Running(st) \subseteq Plans /\ \A p \in Plans : p \in Int
  BY MultiAssumption DEF MultiTyped, Running, Plans
<1>2. Cardinality(Running(st)) \in Nat /\ Cardinality(Running(st)) <= NPlans
  BY <1>1, SomeFinite
<1>3. ASSUME ~ mcfg.parallel
      PROVE  Cardinality(Running(st)) <= 1
  <2>1. CASE Running(st) = {}
    <3>1. Cardinality({}) = 0
      BY FS_EmptySet
    <3> QED
      BY <2>1, <3>1
  <2>2. ASSUME NEW p \in Running(st)
        PROVE  Cardinality(Running(st)) <= 1
    <3>1. \A q \in Running(st) : q = p
      <4> SUFFICES ASSUME NEW q \in Running(st) PROVE q = p
        OBVIOUS
      <4>1. p \in Plans /\ q \in Plans /\ st[p] = "running" /\ st[q] = "running" /\ p \in Int /\ q \in Int
        BY <1>1 DEF Running
      <4>2. ~ (q < p) /\ ~ (p < q)
        BY <1>3, <4>1 DEF InTurn, Final
      <4> QED
        BY <4>1, <4>2
    <3>2. Running(st) = {p}
      BY <3>1
    <3>3. Cardinality({p}) = 1
      BY FS_Singleton
    <3> QED
      BY <3>2, <3>3
  <2> QED
    BY <2>1, <2>2
<1> QED
  BY <1>1, <1>2, <1>3 DEF AtOnce

\* A plan's run, or another process's, is begun below the limit.
LEMMA PeriodBegun ==
  ASSUME MultiTyped, NEW spent \in Nat, mcfg.limit > 0 => spent < mcfg.limit,
         NEW under \in Nat, AtOnce \in Nat, under <= AtOnce
  PROVE  mcfg.limit > 0 => spent + under * MaxRunCost < mcfg.limit + AtOnce * MaxRunCost
<1>1. mcfg.limit \in Nat /\ MaxRunCost \in Nat
  BY MultiAssumption DEF MultiTyped
<1>2. under * MaxRunCost <= AtOnce * MaxRunCost /\ under * MaxRunCost \in Nat /\ AtOnce * MaxRunCost \in Nat
  BY <1>1, Products
<1> QED
  BY <1>1, <1>2

\* A run that ends leaves one fewer under way.
LEMMA PeriodPaid ==
  ASSUME MultiTyped, NEW spent \in Nat, NEW after \in Nat, AtOnce \in Nat, NEW paying \in 0 .. MaxRunCost,
         mcfg.limit > 0 => spent + (after + 1) * MaxRunCost < mcfg.limit + AtOnce * MaxRunCost
  PROVE  mcfg.limit > 0 => (spent + paying) + after * MaxRunCost < mcfg.limit + AtOnce * MaxRunCost
<1>1. mcfg.limit \in Nat /\ MaxRunCost \in Nat
  BY MultiAssumption DEF MultiTyped
<1>2. /\ (after + 1) * MaxRunCost = after * MaxRunCost + MaxRunCost /\ after * MaxRunCost \in Nat
      /\ AtOnce * MaxRunCost \in Nat
  BY <1>1, Products
<1> QED
  BY <1>1, <1>2

\* A run that was under way has cost at most MaxRunCost.
LEMMA PeriodCharged ==
  ASSUME MultiTyped, NEW p \in Plans, run[p] = "running", NEW st2, st2[p] # "running",
         \A q \in Plans : q # p => st2[q] = run[q],
         NEW spent \in Nat, PeriodKept(mcfg, spent, run), NEW paying \in 0 .. MaxRunCost
  PROVE  PeriodKept(mcfg, spent + paying, st2)
<1>1. MaxOthers \in Nat /\ NPlans \in Nat /\ others \in Nat /\ mcfg.parallel \in BOOLEAN
  BY MultiAssumption DEF MultiTyped
<1>2. AtOnce \in Nat
  BY <1>1 DEF AtOnce
<1>3. Cardinality(Running(st2)) \in Nat
  <2>1. Running(st2) \subseteq Plans
    BY DEF Running
  <2> QED
    BY <2>1, SomeFinite
<1>4. Cardinality(Running(run)) = Cardinality(Running(st2)) + 1
  BY RunningChanges
<1> DEFINE after == Cardinality(Running(st2)) + others
<1>5. after \in Nat /\ Cardinality(Running(run)) + others = after + 1
  BY <1>1, <1>3, <1>4
<1> HIDE DEF after
<1>6. mcfg.limit > 0 => spent + (after + 1) * MaxRunCost < mcfg.limit + AtOnce * MaxRunCost
  BY <1>5 DEF PeriodKept
<1>7. mcfg.limit > 0 => (spent + paying) + after * MaxRunCost < mcfg.limit + AtOnce * MaxRunCost
  BY <1>2, <1>5, <1>6, PeriodPaid
<1> QED
  BY <1>7 DEF PeriodKept, after

\* One plan moves on, and no plan goes back from its end.
LEMMA TurnKept ==
  ASSUME MultiTyped, InTurn(mcfg, run), NEW p \in Plans, run[p] \notin Final,
         NEW st2, \A q \in Plans : q # p => st2[q] = run[q],
         run[p] # "waiting" \/ st2[p] \in Final \/ Turn(p)
  PROVE  InTurn(mcfg, st2)
<1>1. p \in mcfg.loads
  BY DEF InTurn
<1>2. \A q \in Plans : q \notin mcfg.loads => st2[q] \in Final
  BY <1>1 DEF InTurn
<1>3. ASSUME ~ mcfg.parallel, NEW a \in Plans, NEW b \in Plans, st2[a] \in {"running", "ended"}, b < a
      PROVE  st2[b] \in Final
  <2>1. CASE a = p
    <3>1. st2[b] = run[b]
      BY <1>3, <2>1 DEF Plans
    <3>2. CASE run[p] # "waiting"
      <4>1. run[p] \in {"running", "ended"}
        BY <3>2 DEF MultiTyped
      <4> QED
        BY <1>3, <2>1, <3>1, <4>1 DEF InTurn
    <3>3. CASE st2[p] \in Final
      BY <1>3, <2>1, <3>3 DEF Final
    <3>4. CASE Turn(p)
      BY <1>2, <1>3, <2>1, <3>1, <3>4 DEF Turn
    <3> QED
      BY <3>2, <3>3, <3>4
  <2>2. CASE a # p
    <3>1. run[a] \in {"running", "ended"}
      BY <1>3, <2>2
    <3>2. run[b] \in Final
      BY <1>3, <3>1 DEF InTurn
    <3> QED
      BY <3>2
  <2> QED
    BY <2>1, <2>2
<1> QED
  BY <1>2, <1>3 DEF InTurn

\* What is charged against the cap when no plan is.
LEMMA CapSame ==
  ASSUME MultiTyped, CapKept(mcfg, run, paid, remaining, exceeded),
         NEW st2, NEW pd2 \in [Plans -> 0 .. MaxRunCost],
         \A q \in Plans : st2[q] = "done" <=> run[q] = "done",
         \A q \in Plans : st2[q] = "done" => pd2[q] = paid[q],
         \A q \in Plans : st2[q] \notin {"ended", "done"} => pd2[q] = 0,
         ~ mcfg.parallel /\ mcfg.cap > 0 =>
           \A q \in Plans : st2[q] \in {"running", "ended"} => remaining > 0
  PROVE  CapKept(mcfg, st2, pd2, remaining, exceeded)
<1>1. Charged(st2) = Charged(run) /\ Charged(run) \subseteq Plans
  BY DEF Charged
<1>2. /\ IsFiniteSet(Charged(run))
      /\ \A q \in Charged(run) : paid[q] = pd2[q] /\ paid[q] \in Int
  <2>1. paid \in [Plans -> 0 .. MaxRunCost]
    BY DEF MultiTyped
  <2> QED
    BY <1>1, <2>1, ChargedInt DEF Charged
<1>3. SumFunctionOnSet(paid, Charged(run)) = SumFunctionOnSet(pd2, Charged(run))
  BY <1>2, SumAgrees
<1> QED
  BY <1>1, <1>3 DEF CapKept

LEMMA NextMulti ==
  ASSUME MultiInv, [MultiNext]_multiVars
  PROVE  MultiInv'
<1>0. /\ mcfg.cap \in Nat /\ mcfg.limit \in Nat /\ mcfg.parallel \in BOOLEAN
      /\ MaxRunCost \in Nat \ {0} /\ MaxDay \in Nat /\ NPlans \in Nat \ {0} /\ MaxOthers \in Nat
      /\ paid \in [Plans -> 0 .. MaxRunCost] /\ ledger \in Seq(Entries) /\ day \in Nat
      /\ run \in [Plans -> {"waiting", "running", "ended"} \cup Final]
  BY MultiAssumption DEF MultiInv, MultiTyped
<1>1. /\ PeriodStart(mcfg.period, day) \in 0 .. day
      /\ PeriodStart(mcfg.period, day) <= PeriodStart(mcfg.period, day + 1)
      /\ PeriodStart(mcfg.period, day) \in Nat /\ PeriodStart(mcfg.period, day + 1) \in Nat
  <2>1. PeriodStart(mcfg.period, day + 1) \in 0 .. day + 1
    BY <1>0, PeriodsGoOn
  <2> QED
    BY <1>0, <2>1, PeriodsGoOn, SMTT(30)
<1>2. PeriodSpend(mcfg.period) \in Nat
  BY <1>0, <1>1, SpendGoesDown DEF PeriodSpend
<1>3. ASSUME NEW p \in Plans, StartPlan(p)
      PROVE  MultiInv'
  <2>1. /\ mpc = "run" /\ run[p] = "waiting" /\ Turn(p) /\ ~ Exhausted
        /\ run' = [run EXCEPT ![p] = IF CheckBudget THEN "running" ELSE "refused"]
        /\ mcfg' = mcfg /\ mpc' = mpc /\ paid' = paid /\ remaining' = remaining
        /\ exceeded' = exceeded /\ ledger' = ledger /\ day' = day /\ others' = others
    BY <1>3 DEF StartPlan
  <2> DEFINE next == IF CheckBudget THEN "running" ELSE "refused"
  <2>2. /\ next \in {"running", "refused"} /\ run'[p] = next /\ run' = [run EXCEPT ![p] = next]
        /\ \A q \in Plans : q # p => run'[q] = run[q]
    BY <1>0, <2>1
  <2>3. run' \in [Plans -> {"waiting", "running", "ended"} \cup Final]
    BY <1>0, <2>1 DEF Final
  <2>4. InTurn(mcfg, run')
    BY <2>1, <2>2, TurnKept DEF MultiInv, Final
  <2>5. PeriodKept(mcfg, PeriodSpend(mcfg.period), run')
    <3>1. CASE CheckBudget
      <4>1. mcfg.limit > 0 => PeriodSpend(mcfg.period) < mcfg.limit
        BY <1>0, <3>1 DEF CheckBudget
      <4>2. Cardinality(Running(run')) \in Nat /\ AtOnce \in Nat /\ Cardinality(Running(run')) + MaxOthers <= AtOnce
        BY <2>4, RunsHere DEF MultiInv
      <4> DEFINE under == Cardinality(Running(run')) + others
      <4>3. under \in Nat /\ under <= AtOnce
        BY <1>0, <4>2 DEF MultiInv, MultiTyped
      <4> HIDE DEF under
      <4>4. mcfg.limit > 0 => PeriodSpend(mcfg.period) + under * MaxRunCost < mcfg.limit + AtOnce * MaxRunCost
        BY <1>2, <4>1, <4>2, <4>3, PeriodBegun DEF MultiInv
      <4> QED
        BY <4>4 DEF PeriodKept, under
    <3>2. CASE ~ CheckBudget
      <4>1. Cardinality(Running(run')) = Cardinality(Running(run))
        BY <2>1, <2>2, <3>2, RunningChanges
      <4> QED
        BY <4>1 DEF MultiInv, PeriodKept
    <3> QED
      BY <3>1, <3>2
  <2>6. CapKept(mcfg, run', paid, remaining, exceeded)
    <3>1. ~ mcfg.parallel /\ mcfg.cap > 0 => remaining > 0
      BY <1>0, <2>1 DEF Exhausted, MultiInv, MultiTyped
    <3> QED
      BY <1>0, <2>1, <2>2, <3>1, CapSame DEF MultiInv, CapKept
  <2> QED
    BY <2>1, <2>3, <2>4, <2>5, <2>6 DEF MultiInv, MultiTyped, PeriodSpend, PeriodKept, AtOnce
<1>4. ASSUME NEW p \in Plans, EndPlan(p)
      PROVE  MultiInv'
  <2>1. PICK paying \in 0 .. MaxRunCost :
          /\ paid' = [paid EXCEPT ![p] = paying]
          /\ ledger' = IF mcfg.limit > 0 /\ paying > 0
                         THEN Append(ledger, [day |-> day, cost |-> paying]) ELSE ledger
    BY <1>4 DEF EndPlan, RecordCost
  <2>2. /\ run[p] = "running" /\ run' = [run EXCEPT ![p] = "ended"]
        /\ mcfg' = mcfg /\ mpc' = mpc /\ remaining' = remaining /\ exceeded' = exceeded /\ day' = day /\ others' = others
    BY <1>4 DEF EndPlan
  <2>3. /\ run'[p] = "ended" /\ \A q \in Plans : q # p => run'[q] = run[q]
        /\ paid'[p] = paying /\ \A q \in Plans : q # p => paid'[q] = paid[q]
        /\ run' \in [Plans -> {"waiting", "running", "ended"} \cup Final]
        /\ paid' \in [Plans -> 0 .. MaxRunCost]
    BY <1>0, <2>1, <2>2
  <2>4. mpc # "done"
    BY <2>2 DEF MultiInv, Final
  <2>5. InTurn(mcfg, run')
    BY <2>2, <2>3, TurnKept DEF MultiInv, Final
  <2> DEFINE e == [day |-> day, cost |-> paying]
             start == PeriodStart(mcfg.period, day)
  <2>6. e \in Entries /\ e.cost = paying /\ e.day = day
    BY <1>0 DEF Entries
  <2>7. ledger' = IF mcfg.limit > 0 /\ paying > 0 THEN Append(ledger, e) ELSE ledger
    BY <2>1
  <2> HIDE DEF e
  <2>8. /\ Append(ledger, e) \in Seq(Entries)
        /\ SpendSince(Append(ledger, e), start) = SpendSince(ledger, start) + paying
    BY <1>0, <1>1, <2>6, SpendRecorded, AppendProperties
  <2>9. ledger' \in Seq(Entries)
    BY <1>0, <2>7, <2>8
  <2>10. mcfg.limit > 0 => SpendSince(ledger', start) = PeriodSpend(mcfg.period) + paying
    BY <1>2, <2>7, <2>8 DEF PeriodSpend
  <2>11. PeriodKept(mcfg, PeriodSpend(mcfg.period) + paying, run')
    BY <1>2, <2>2, <2>3, PeriodCharged DEF MultiInv
  <2>12. PeriodKept(mcfg, SpendSince(ledger', start), run')
    BY <2>10, <2>11 DEF PeriodKept
  <2>13. CapKept(mcfg, run', paid', remaining, exceeded)
    BY <2>2, <2>3, CapSame DEF MultiInv, CapKept
  <2> QED
    BY <2>2, <2>3, <2>4, <2>5, <2>9, <2>12, <2>13
       DEF MultiInv, MultiTyped, PeriodSpend, PeriodKept, AtOnce
<1>5. ASSUME NEW p \in Plans, RaisePlan(p)
      PROVE  MultiInv'
  <2>1. /\ run[p] = "running" /\ run' = [run EXCEPT ![p] = "failed"]
        /\ mcfg' = mcfg /\ mpc' = mpc /\ paid' = paid /\ remaining' = remaining
        /\ exceeded' = exceeded /\ ledger' = ledger /\ day' = day /\ others' = others
    BY <1>5 DEF RaisePlan
  <2>2. /\ run'[p] = "failed" /\ \A q \in Plans : q # p => run'[q] = run[q]
        /\ run' \in [Plans -> {"waiting", "running", "ended"} \cup Final]
    BY <1>0, <2>1 DEF Final
  <2>3. mpc # "done"
    BY <2>1 DEF MultiInv, Final
  <2>4. InTurn(mcfg, run')
    BY <2>1, <2>2, TurnKept DEF MultiInv, Final
  <2>5. PeriodKept(mcfg, PeriodSpend(mcfg.period) + 0, run')
    <3>1. 0 \in 0 .. MaxRunCost /\ run'[p] # "running"
      BY <1>0, <2>2
    <3>2. MultiTyped /\ PeriodKept(mcfg, PeriodSpend(mcfg.period), run)
      BY DEF MultiInv
    <3> QED
      BY <1>2, <2>1, <2>2, <3>1, <3>2, PeriodCharged
  <2>6. PeriodSpend(mcfg.period) + 0 = PeriodSpend(mcfg.period)
    BY <1>2
  <2>7. CapKept(mcfg, run', paid, remaining, exceeded)
    BY <1>0, <2>1, <2>2, CapSame DEF MultiInv, CapKept
  <2> QED
    BY <2>1, <2>2, <2>3, <2>4, <2>5, <2>6, <2>7
       DEF MultiInv, MultiTyped, PeriodSpend, PeriodKept, AtOnce
<1>6. ASSUME NEW p \in Plans, Deduct(p)
      PROVE  MultiInv'
  <2> DEFINE left == remaining - paid[p]
             out == exceeded \/ (mcfg.cap > 0 /\ left <= 0)
  <2>1. /\ run[p] = "ended" /\ run' = [run EXCEPT ![p] = "done"]
        /\ mcfg' = mcfg /\ mpc' = mpc /\ paid' = paid /\ remaining' = left
        /\ exceeded' = out /\ ledger' = ledger /\ day' = day /\ others' = others
    BY <1>6 DEF Deduct
  <2>2. /\ run'[p] = "done" /\ \A q \in Plans : q # p => run'[q] = run[q]
        /\ run' \in [Plans -> {"waiting", "running", "ended"} \cup Final]
    BY <1>0, <2>1 DEF Final
  <2>3. mpc # "done"
    BY <2>1 DEF MultiInv, Final
  <2>4. InTurn(mcfg, run')
    BY <2>1, <2>2, TurnKept DEF MultiInv, Final
  <2>5. Cardinality(Running(run')) = Cardinality(Running(run))
    BY <2>1, <2>2, RunningChanges
  <2>6. PeriodKept(mcfg, PeriodSpend(mcfg.period), run')
    BY <2>5 DEF MultiInv, PeriodKept
  <2>7. paid[p] \in 0 .. MaxRunCost /\ remaining \in Int
    BY <1>0 DEF MultiInv, MultiTyped
  <2>8. Charged(run') = Charged(run) \cup {p} /\ p \notin Charged(run)
    BY <2>1, <2>2 DEF Charged
  <2>9. /\ IsFiniteSet(Charged(run)) /\ \A q \in Charged(run) \cup {p} : paid[q] \in Int
        /\ SumFunctionOnSet(paid, Charged(run)) \in Int
    BY <1>0, ChargedInt DEF Charged
  <2>10. SumFunctionOnSet(paid, Charged(run')) = paid[p] + SumFunctionOnSet(paid, Charged(run))
    BY <2>8, <2>9, SumAdds
  <2>11. left = mcfg.cap - SumFunctionOnSet(paid, Charged(run'))
    BY <1>0, <2>7, <2>9, <2>10 DEF MultiInv, CapKept
  <2>12. ~ mcfg.parallel /\ mcfg.cap > 0 =>
           left + MaxRunCost > 0 /\ \A q \in Plans : run'[q] \in {"running", "ended"} => left > 0
    <3> SUFFICES ASSUME ~ mcfg.parallel, mcfg.cap > 0
                 PROVE  left + MaxRunCost > 0 /\ \A q \in Plans : run'[q] \notin {"running", "ended"}
      OBVIOUS
    <3>1. remaining > 0
      BY <2>1 DEF MultiInv, CapKept
    <3>2. \A q \in Plans : q \in Int
      BY DEF Plans
    <3>3. \A q \in Plans : q < p => run[q] \in Final
      BY <2>1 DEF MultiInv, InTurn
    <3>4. \A q \in Plans : p < q => run[q] \notin {"running", "ended"}
      BY <2>1 DEF MultiInv, InTurn, Final
    <3>5. \A q \in Plans : run'[q] \notin {"running", "ended"}
      BY <2>2, <3>2, <3>3, <3>4 DEF Final
    <3> QED
      BY <1>0, <2>7, <3>1, <3>5
  <2>13. CapKept(mcfg, run', paid, left, out)
    BY <2>1, <2>2, <2>11, <2>12 DEF MultiInv, CapKept
  <2>14. left \in Int /\ out \in BOOLEAN
    BY <2>7 DEF MultiInv, MultiTyped
  <2> HIDE DEF left, out
  <2> QED
    BY <2>1, <2>2, <2>3, <2>4, <2>6, <2>13, <2>14
       DEF MultiInv, MultiTyped, PeriodSpend, PeriodKept, AtOnce
<1>7. CASE SkipRest
  <2>1. /\ mpc = "run" /\ Exhausted /\ exceeded' = TRUE
        /\ run' = [q \in Plans |-> IF run[q] = "waiting" THEN "skipped" ELSE run[q]]
        /\ mcfg' = mcfg /\ mpc' = mpc /\ paid' = paid /\ remaining' = remaining
        /\ ledger' = ledger /\ day' = day /\ others' = others
    BY <1>7 DEF SkipRest
  <2>2. /\ \A q \in Plans : run'[q] = run[q] \/ (run[q] = "waiting" /\ run'[q] = "skipped")
        /\ run' \in [Plans -> {"waiting", "running", "ended"} \cup Final]
    BY <1>0, <2>1 DEF Final
  <2>3. InTurn(mcfg, run')
    BY <2>2 DEF MultiInv, InTurn, Final
  <2>4. Running(run') = Running(run)
    BY <2>2 DEF Running
  <2>5. PeriodKept(mcfg, PeriodSpend(mcfg.period), run')
    BY <2>4 DEF MultiInv, PeriodKept
  <2>6. CapKept(mcfg, run', paid, remaining, exceeded)
    BY <1>0, <2>2, CapSame DEF MultiInv, CapKept
  <2>7. CapKept(mcfg, run', paid, remaining, TRUE)
    BY <2>6 DEF CapKept
  <2> QED
    BY <2>1, <2>2, <2>3, <2>5, <2>7 DEF MultiInv, MultiTyped, PeriodSpend, PeriodKept, AtOnce
<1>8. CASE Aggregate
  <2>1. /\ \A p \in Plans : run[p] \in Final
        /\ mpc' = "done" /\ exceeded' = (exceeded \/ (mcfg.cap > 0 /\ Total > mcfg.cap))
        /\ mcfg' = mcfg /\ run' = run /\ paid' = paid /\ remaining' = remaining
        /\ ledger' = ledger /\ day' = day /\ others' = others
    BY <1>8 DEF Aggregate
  <2>2. CapKept(mcfg, run, paid, remaining, exceeded')
    BY <2>1 DEF MultiInv, CapKept
  <2>3. exceeded' \in BOOLEAN
    BY <2>1 DEF MultiInv, MultiTyped
  <2> QED
    BY <2>1, <2>2, <2>3 DEF MultiInv, MultiTyped, PeriodSpend, PeriodKept, AtOnce
<1>9. CASE Tick
  <2>1. /\ day < MaxDay /\ day' = day + 1
        /\ mcfg' = mcfg /\ mpc' = mpc /\ run' = run /\ paid' = paid /\ remaining' = remaining
        /\ exceeded' = exceeded /\ ledger' = ledger /\ others' = others
    BY <1>9 DEF Tick
  <2> DEFINE start == PeriodStart(mcfg.period, day)
             later == PeriodStart(mcfg.period, day + 1)
  <2>2. SpendSince(ledger, later) <= SpendSince(ledger, start) /\ SpendSince(ledger, later) \in Nat
    BY <1>0, <1>1, SpendGoesDown
  <2>3. Cardinality(Running(run)) + others \in Nat /\ AtOnce \in Nat
    BY <1>0, RunsHere DEF MultiInv, MultiTyped
  <2>4. (Cardinality(Running(run)) + others) * MaxRunCost \in Nat /\ AtOnce * MaxRunCost \in Nat
    BY <1>0, <2>3, Products
  <2>5. PeriodSpend(mcfg.period) = SpendSince(ledger, start)
    BY DEF PeriodSpend
  <2>6. PeriodKept(mcfg, SpendSince(ledger, start), run)
    BY <2>5 DEF MultiInv
  <2>7. PeriodKept(mcfg, SpendSince(ledger, later), run)
    <3>1. SpendSince(ledger, start) \in Nat
      BY <1>2, <2>5
    <3> HIDE DEF start, later
    <3> QED
      BY <1>0, <2>2, <2>4, <2>6, <3>1 DEF PeriodKept
  <2>8. day' \in 0 .. MaxDay
    BY <1>0, <2>1
  <2>9. PeriodSpend(mcfg.period)' = SpendSince(ledger, later)
    BY <2>1 DEF PeriodSpend
  <2>10. PeriodKept(mcfg, PeriodSpend(mcfg.period), run)'
    BY <2>1, <2>7 DEF PeriodKept, PeriodSpend, AtOnce
  <2>11. MultiTyped'
    BY <2>1, <2>8 DEF MultiInv, MultiTyped
  <2>12. InTurn(mcfg, run)' /\ CapKept(mcfg, run, paid, remaining, exceeded)'
    BY <2>1 DEF MultiInv, InTurn, CapKept, Charged
  <2>13. (mpc = "done" => \A p \in Plans : run[p] \in Final)'
    BY <2>1 DEF MultiInv
  <2> QED
    BY <2>10, <2>11, <2>12, <2>13 DEF MultiInv
<1>11. CASE OtherStart
  <2>1. /\ others < MaxOthers /\ CheckBudget /\ others' = others + 1
        /\ mcfg' = mcfg /\ mpc' = mpc /\ run' = run /\ paid' = paid /\ remaining' = remaining
        /\ exceeded' = exceeded /\ ledger' = ledger /\ day' = day
    BY <1>11 DEF OtherStart
  <2>2. others \in Nat /\ others + 1 \in 0 .. MaxOthers
    BY <1>0, <2>1 DEF MultiInv, MultiTyped
  <2>3. mcfg.limit > 0 => PeriodSpend(mcfg.period) < mcfg.limit
    BY <1>0, <2>1 DEF CheckBudget
  <2>4. AtOnce \in Nat /\ Cardinality(Running(run)) \in Nat /\ Cardinality(Running(run)) + MaxOthers <= AtOnce
    BY RunsHere DEF MultiInv
  <2> DEFINE under == Cardinality(Running(run)) + (others + 1)
  <2>5. under \in Nat /\ under <= AtOnce
    BY <1>0, <2>2, <2>4
  <2> HIDE DEF under
  <2>6. mcfg.limit > 0 => PeriodSpend(mcfg.period) + under * MaxRunCost < mcfg.limit + AtOnce * MaxRunCost
    BY <1>2, <2>3, <2>4, <2>5, PeriodBegun DEF MultiInv
  <2>7. PeriodKept(mcfg, PeriodSpend(mcfg.period), run)'
    BY <2>1, <2>6 DEF PeriodKept, PeriodSpend, AtOnce, under
  <2> QED
    BY <2>1, <2>2, <2>7 DEF MultiInv, MultiTyped, InTurn, CapKept
<1>12. CASE OtherEnd
  <2>1. PICK paying \in 0 .. MaxRunCost :
          ledger' = IF mcfg.limit > 0 /\ paying > 0
                      THEN Append(ledger, [day |-> day, cost |-> paying]) ELSE ledger
    BY <1>12 DEF OtherEnd, RecordCost
  <2>2. /\ others > 0 /\ others' = others - 1
        /\ mcfg' = mcfg /\ mpc' = mpc /\ run' = run /\ paid' = paid /\ remaining' = remaining
        /\ exceeded' = exceeded /\ day' = day
    BY <1>12 DEF OtherEnd
  <2> DEFINE e == [day |-> day, cost |-> paying]
             start == PeriodStart(mcfg.period, day)
             after == Cardinality(Running(run)) + (others - 1)
  <2>3. e \in Entries /\ e.cost = paying /\ e.day = day
    BY <1>0 DEF Entries
  <2>4. ledger' = IF mcfg.limit > 0 /\ paying > 0 THEN Append(ledger, e) ELSE ledger
    BY <2>1
  <2> HIDE DEF e
  <2>5. /\ Append(ledger, e) \in Seq(Entries)
        /\ SpendSince(Append(ledger, e), start) = SpendSince(ledger, start) + paying
    BY <1>0, <1>1, <2>3, SpendRecorded, AppendProperties
  <2>6. ledger' \in Seq(Entries)
    BY <1>0, <2>4, <2>5
  <2>7. mcfg.limit > 0 => SpendSince(ledger', start) = PeriodSpend(mcfg.period) + paying
    BY <1>2, <2>4, <2>5 DEF PeriodSpend
  <2>8. /\ others \in Nat /\ others - 1 \in 0 .. MaxOthers
        /\ AtOnce \in Nat /\ Cardinality(Running(run)) \in Nat
    BY <1>0, <2>2, RunsHere DEF MultiInv, MultiTyped
  <2>9. after \in Nat /\ Cardinality(Running(run)) + others = after + 1
    BY <2>2, <2>8
  <2> HIDE DEF after, start
  <2>10. mcfg.limit > 0 => PeriodSpend(mcfg.period) + (after + 1) * MaxRunCost < mcfg.limit + AtOnce * MaxRunCost
    BY <2>9 DEF MultiInv, PeriodKept
  <2>11. mcfg.limit > 0 =>
           (PeriodSpend(mcfg.period) + paying) + after * MaxRunCost < mcfg.limit + AtOnce * MaxRunCost
    BY <1>2, <2>8, <2>9, <2>10, PeriodPaid DEF MultiInv
  <2>12. PeriodKept(mcfg, PeriodSpend(mcfg.period), run)'
    <3>1. mcfg.limit > 0 => PeriodSpend(mcfg.period)' = PeriodSpend(mcfg.period) + paying
      BY <2>2, <2>7 DEF PeriodSpend, start
    <3>2. Cardinality(Running(run))' + others' = after /\ AtOnce' = AtOnce
      BY <2>2 DEF after, AtOnce
    <3> QED
      BY <2>2, <2>11, <3>1, <3>2 DEF PeriodKept
  <2> QED
    BY <2>2, <2>6, <2>8, <2>12 DEF MultiInv, MultiTyped, InTurn, CapKept
<1>10. CASE UNCHANGED multiVars
  BY <1>10 DEF multiVars, MultiInv, MultiTyped, PeriodSpend, PeriodKept, AtOnce
<1> QED
  BY <1>3, <1>4, <1>5, <1>6, <1>7, <1>8, <1>9, <1>10, <1>11, <1>12 DEF MultiNext, PlanStep

\* Whatever the plans cost and whenever they end, the limit of a period and the
\* shared cap are overrun by no more than OvershootBounded says.
THEOREM BudgetsOvershootLittle == MultiSpec => [](OvershootBounded /\ MultiTypeOK)
<1>1. MultiInv => OvershootBounded /\ MultiTypeOK
  <2> SUFFICES ASSUME MultiInv PROVE OvershootBounded /\ MultiTypeOK
    OBVIOUS
  <2>1. /\ mcfg.cap \in Nat /\ mcfg.limit \in Nat /\ mcfg.parallel \in BOOLEAN
        /\ MaxRunCost \in Nat \ {0} /\ NPlans \in Nat \ {0} /\ day \in Nat
        /\ paid \in [Plans -> 0 .. MaxRunCost] /\ ledger \in Seq(Entries) /\ remaining \in Int
    BY MultiAssumption DEF MultiInv, MultiTyped
  <2>2. mcfg.limit > 0 => PeriodSpend(mcfg.period) < mcfg.limit + AtOnce * MaxRunCost
    <3>1. PeriodStart(mcfg.period, day) \in Nat
      BY <2>1, PeriodsGoOn
    <3>2. PeriodSpend(mcfg.period) \in Nat
      BY <2>1, <3>1, SpendGoesDown DEF PeriodSpend
    <3>3. Cardinality(Running(run)) + others \in Nat /\ AtOnce \in Nat
      BY RunsHere DEF MultiInv, MultiTyped
    <3>4. (Cardinality(Running(run)) + others) * MaxRunCost \in Nat /\ AtOnce * MaxRunCost \in Nat
      BY <2>1, <3>3, Products
    <3> QED
      BY <2>1, <3>2, <3>4 DEF MultiInv, PeriodKept
  <2> DEFINE Ended == {p \in Plans : run[p] = "ended"}
             Open == Charged(run) \cup Ended
  <2>3. /\ Open \subseteq Plans /\ Charged(run) \subseteq Plans
        /\ \A p \in Plans \ Open : paid[p] = 0
    BY DEF Charged, MultiInv, CapKept
  <2>4. Total = SumFunctionOnSet(paid, Open)
    BY <2>1, <2>3, PlansFinite, ChargedInt, SumOfRest DEF Total
  <2>5. SumFunctionOnSet(paid, Charged(run)) \in Int
        /\ remaining = mcfg.cap - SumFunctionOnSet(paid, Charged(run))
    BY <2>1, <2>3, ChargedInt DEF MultiInv, CapKept
  <2>6. Ended = {} => Total = mcfg.cap - remaining
    <3> HIDE DEF Ended
    <3> QED
      BY <2>1, <2>4, <2>5
  <2>7. ~ mcfg.parallel /\ mcfg.cap > 0 => Total < mcfg.cap + MaxRunCost
    <3> SUFFICES ASSUME ~ mcfg.parallel, mcfg.cap > 0 PROVE Total < mcfg.cap + MaxRunCost
      OBVIOUS
    <3>1. remaining + MaxRunCost > 0 /\ (Ended # {} => remaining > 0)
      BY DEF MultiInv, CapKept
    <3>2. CASE Ended = {}
      BY <2>1, <2>6, <3>1, <3>2
    <3>3. ASSUME NEW p \in Ended
          PROVE  Total < mcfg.cap + MaxRunCost
      <4>1. p \in Plans /\ run[p] = "ended" /\ \A q \in Plans : q \in Int
        BY DEF Plans
      <4>2. \A q \in Plans : run[q] = "ended" => q = p
        BY <4>1 DEF MultiInv, InTurn, Final
      <4>3. Open = Charged(run) \cup {p} /\ p \notin Charged(run)
        BY <4>1, <4>2 DEF Charged
      <4>4. IsFiniteSet(Charged(run)) /\ \A q \in Charged(run) \cup {p} : paid[q] \in Int
        BY <2>1, <2>3, <4>1, ChargedInt
      <4>5. SumFunctionOnSet(paid, Charged(run) \cup {p})
              = paid[p] + SumFunctionOnSet(paid, Charged(run))
        BY <4>3, <4>4, SumAdds
      <4>6. paid[p] \in 0 .. MaxRunCost
        BY <2>1, <4>1
      <4>7. Total = paid[p] + SumFunctionOnSet(paid, Charged(run))
        BY <2>4, <4>3, <4>5
      <4>8. remaining > 0
        BY <3>1, <3>3
      <4> QED
        BY <2>1, <2>5, <4>6, <4>7, <4>8
    <3> QED
      BY <3>2, <3>3
  <2>8. mpc = "done" /\ mcfg.cap > 0 /\ Total >= mcfg.cap => exceeded
    <3>1. mpc = "done" => Ended = {}
      BY DEF MultiInv, Final
    <3>2. mcfg.cap > 0 /\ remaining <= 0 => exceeded
      BY DEF MultiInv, CapKept
    <3> QED
      BY <2>1, <2>6, <3>1, <3>2
  <2>9. MultiTypeOK
    BY DEF MultiTypeOK, MultiInv, MultiTyped
  <2> QED
    BY <2>2, <2>7, <2>8, <2>9 DEF OvershootBounded
<1> QED
  BY <1>1, InitMulti, NextMulti, PTL DEF MultiSpec

-----------------------------------------------------------------------------
(* The command line: what a run is made of.                                *)

FileOK(file) ==
  /\ IsFiniteSet(DOMAIN file)
  /\ \A t \in DOMAIN file : file[t].deps \subseteq DOMAIN file

\* What --only names and all it needs: closed, and with nothing that is not needed.
LEMMA UpwardsCloses ==
  ASSUME NEW file, FileOK(file), NEW S \in SUBSET DOMAIN file
  PROVE  /\ S \subseteq Upwards(S, file) /\ Upwards(S, file) \subseteq DOMAIN file
         /\ \A t \in Upwards(S, file) : file[t].deps \subseteq Upwards(S, file)
         /\ \A t \in Upwards(S, file) \ S : \E s \in Upwards(S, file) : t \in file[s].deps
<1> DEFINE D == DOMAIN file
           more == [X \in SUBSET D |-> UNION {file[t].deps : t \in X}]
           up[k \in Nat] == IF k = 0 THEN S
                            ELSE up[k - 1] \cup UNION {file[t].deps : t \in up[k - 1]}
           all == up[Cardinality(D)]
<1>1. more \in [SUBSET D -> SUBSET D]
  BY DEF FileOK
<1>2. \A X \in SUBSET D : \A Y \in SUBSET X : more[Y] \subseteq more[X]
  OBVIOUS
<1>3. Growing(D, S, more, up)
  <2>1. PICK it : Growing(D, S, more, it)
    <3> HIDE DEF more, up
    <3> QED
      BY <1>1, GrowingExists
  <2>2. it \in [Nat -> SUBSET D]
    <3> HIDE DEF more, up
    <3> QED
      BY <1>1, <2>1, GrowingTyped
  <2>3. \A k \in Nat : k # 0 => k - 1 \in Nat /\ more[it[k - 1]] = UNION {file[t].deps : t \in it[k - 1]}
    BY <2>2
  <2>4. it = [k \in Nat |-> IF k = 0 THEN S
                            ELSE it[k - 1] \cup UNION {file[t].deps : t \in it[k - 1]}]
    BY <2>1, <2>3 DEF Growing
  <2>5. up = [k \in Nat |-> IF k = 0 THEN S
                            ELSE up[k - 1] \cup UNION {file[t].deps : t \in up[k - 1]}]
    BY <2>4
  <2> DEFINE Upto == {k \in Nat : up[k] \in SUBSET D}
  <2> HIDE DEF up
  <2>6. 0 \in Upto
    BY <2>5
  <2>7. ASSUME NEW k \in Nat, k \in Upto
        PROVE  k + 1 \in Upto
    <3>1. k + 1 \in Nat /\ k + 1 # 0 /\ (k + 1) - 1 = k
      OBVIOUS
    <3>2. up[k + 1] = up[k] \cup UNION {file[t].deps : t \in up[k]}
      BY <2>5, <3>1
    <3> QED
      BY <2>7, <3>2 DEF FileOK
  <2>8. Nat \subseteq Upto
    <3> HIDE DEF Upto
    <3> QED
      BY <2>6, <2>7, SetInduction
  <2>9. \A k \in Nat : k # 0 => k - 1 \in Nat /\ more[up[k - 1]] = UNION {file[t].deps : t \in up[k - 1]}
    BY <2>8
  <2> HIDE DEF more, Upto
  <2> QED
    BY <2>5, <2>9 DEF Growing
<1>4. all = Upwards(S, file)
  BY DEF Upwards
<1>5. /\ S \subseteq all /\ all \subseteq D /\ more[all] \subseteq all
      /\ \A x \in all : x \in S \/ x \in more[all]
  <2> HIDE DEF more, up
  <2> QED
    BY <1>1, <1>2, <1>3, GrowingCloses DEF FileOK
<1> HIDE DEF up, all
<1>6. more[all] = UNION {file[t].deps : t \in all}
  BY <1>5
<1> HIDE DEF more
<1> QED
  BY <1>4, <1>5, <1>6

\* Taint: exactly what is untrusted, or unguarded and reads what is tainted.
LEMMA TaintedCloses ==
  ASSUME NEW file, NEW selected, IsFiniteSet(selected)
  PROVE  LET tainted == ComputeTainted(file, selected) IN
         /\ tainted \subseteq selected
         /\ \A t \in selected :
              t \in tainted <=> \/ file[t].untrusted
                                \/ ~file[t].guarded /\ ContextOf(t, file, selected) \cap tainted # {}
<1> DEFINE D == selected
           base == {t \in selected : file[t].untrusted}
           readers(X) == {t \in selected : /\ ~file[t].guarded
                                           /\ ContextOf(t, file, selected) \cap X # {}}
           more == [X \in SUBSET D |-> readers(X)]
           round[k \in Nat] == IF k = 0 THEN base ELSE round[k - 1] \cup readers(round[k - 1])
           all == round[Cardinality(D)]
<1>1. more \in [SUBSET D -> SUBSET D] /\ base \in SUBSET D
  OBVIOUS
<1>2. \A X \in SUBSET D : \A Y \in SUBSET X : more[Y] \subseteq more[X]
  OBVIOUS
<1>3. Growing(D, base, more, round)
  <2>1. PICK it : Growing(D, base, more, it)
    <3> HIDE DEF more, round, base
    <3> QED
      BY <1>1, GrowingExists
  <2>2. it \in [Nat -> SUBSET D]
    <3> HIDE DEF more, round, base
    <3> QED
      BY <1>1, <2>1, GrowingTyped
  <2>3. \A k \in Nat : k # 0 => k - 1 \in Nat /\ more[it[k - 1]] = readers(it[k - 1])
    BY <2>2
  <2>4. it = [k \in Nat |-> IF k = 0 THEN base ELSE it[k - 1] \cup readers(it[k - 1])]
    <3> HIDE DEF more, readers, round, base
    <3> QED
      BY <2>1, <2>3 DEF Growing
  <2>5. round = [k \in Nat |-> IF k = 0 THEN base ELSE round[k - 1] \cup readers(round[k - 1])]
    <3> HIDE DEF readers, more, base
    <3> QED
      BY <2>4
  <2> DEFINE Upto == {k \in Nat : round[k] \in SUBSET D}
  <2> HIDE DEF round
  <2>6. 0 \in Upto
    BY <2>5
  <2>7. ASSUME NEW k \in Nat, k \in Upto
        PROVE  k + 1 \in Upto
    <3>1. k + 1 \in Nat /\ k + 1 # 0 /\ (k + 1) - 1 = k
      OBVIOUS
    <3>2. round[k + 1] = round[k] \cup readers(round[k])
      <4> HIDE DEF readers, more
      <4> QED
        BY <2>5, <3>1
    <3> QED
      BY <2>7, <3>2
  <2>8. Nat \subseteq Upto
    <3> HIDE DEF Upto
    <3> QED
      BY <2>6, <2>7, SetInduction
  <2>9. \A k \in Nat : k # 0 => k - 1 \in Nat /\ more[round[k - 1]] = readers(round[k - 1])
    BY <2>8
  <2> HIDE DEF more, Upto, readers, base
  <2> QED
    BY <2>5, <2>9 DEF Growing
<1>4. all = ComputeTainted(file, selected)
  BY DEF ComputeTainted
<1>5. /\ base \subseteq all /\ all \subseteq D /\ more[all] \subseteq all
      /\ \A x \in all : x \in base \/ x \in more[all]
  <2> HIDE DEF more, round, base
  <2> QED
    BY <1>1, <1>2, <1>3, GrowingCloses
<1> HIDE DEF round, all
<1>6. more[all] = readers(all)
  BY <1>5
<1>7. \A t \in selected : t \in all <=> file[t].untrusted \/ t \in readers(all)
  <2> HIDE DEF more, readers
  <2> QED
    BY <1>5, <1>6
<1> HIDE DEF more
<1> QED
  BY <1>4, <1>5, <1>7

\* The selection, whatever the graph, the tags and the options.
LEMMA SelectionExact ==
  ASSUME NEW file, FileOK(file), NEW line, line.only \subseteq DOMAIN file
  PROVE  LET selected == SelectTasks(line, file) IN
         /\ selected \subseteq DOMAIN file
         /\ \A t \in DOMAIN file : Asked(line, file, t) => t \in selected
         /\ \A t \in selected :
              /\ \/ Asked(line, file, t)
                 \/ \E s \in DOMAIN file :
                      /\ t \in file[s].deps
                      /\ s \in selected \cup line.skip \/ (line.only # {} /\ ~Tagged(line, file, s))
              /\ \A d \in file[t].deps \ selected : d \in line.skip /\ line.tags \cup line.skipTags = {}
<1> DEFINE all == IF line.only # {} THEN Upwards(line.only, file) ELSE DOMAIN file
           asked == all \ line.skip
           tagged == {t \in asked : Tagged(line, file, t)}
           selected == SelectTasks(line, file)
<1>1. /\ all \subseteq DOMAIN file
      /\ \A t \in all : file[t].deps \subseteq all
      /\ line.only # {} => line.only \subseteq all
      /\ \A t \in all : \/ line.only = {} \/ t \in line.only
                        \/ \E s \in all : t \in file[s].deps
  BY UpwardsCloses DEF FileOK
<1>2. selected = IF line.tags \cup line.skipTags = {} THEN asked ELSE Upwards(tagged, file)
  BY DEF SelectTasks
<1>3. \A t \in DOMAIN file : Asked(line, file, t) => t \in tagged
  BY <1>1 DEF Asked
<1>4. \A t \in tagged : line.only = {} \/ t \in line.only => Asked(line, file, t)
  BY DEF Asked
<1>5. CASE line.tags \cup line.skipTags = {}
  <2>1. selected = asked /\ tagged = asked
    BY <1>2, <1>5 DEF Tagged
  <2> HIDE DEF all, selected
  <2>2. \A t \in selected : \A d \in file[t].deps \ selected : d \in line.skip
    BY <1>1, <2>1
  <2>3. \A t \in selected :
          Asked(line, file, t) \/ \E s \in all : t \in file[s].deps /\ s \in selected \cup line.skip
    BY <1>1, <1>4, <2>1
  <2>4. selected \subseteq DOMAIN file
    BY <1>1, <2>1
  <2> QED
    BY <1>1, <1>3, <1>5, <2>1, <2>2, <2>3, <2>4 DEF selected
<1>6. CASE line.tags \cup line.skipTags # {}
  <2>1. selected = Upwards(tagged, file)
    BY <1>2, <1>6
  <2>2. tagged \in SUBSET DOMAIN file
    BY <1>1
  <2> HIDE DEF all, selected, tagged
  <2>3. /\ tagged \subseteq selected /\ selected \subseteq DOMAIN file
        /\ \A t \in selected : file[t].deps \subseteq selected
        /\ \A t \in selected \ tagged : \E s \in selected : t \in file[s].deps
    BY <2>1, <2>2, UpwardsCloses
  <2>4. ASSUME NEW t \in tagged, ~ Asked(line, file, t)
        PROVE  \E s \in DOMAIN file :
                 /\ t \in file[s].deps
                 /\ s \in selected \cup line.skip \/ (line.only # {} /\ ~Tagged(line, file, s))
    <3>1. t \in all /\ line.only # {} /\ t \notin line.only
      BY <1>4, <2>4 DEF tagged
    <3>2. PICK s \in all : t \in file[s].deps
      BY <1>1, <3>1
    <3>3. s \in line.skip \/ s \in tagged \/ ~Tagged(line, file, s)
      BY <3>2 DEF tagged
    <3> QED
      BY <1>1, <2>3, <3>1, <3>2, <3>3
  <2>5. \A t \in selected :
          \/ Asked(line, file, t)
          \/ \E s \in DOMAIN file :
               /\ t \in file[s].deps
               /\ s \in selected \cup line.skip \/ (line.only # {} /\ ~Tagged(line, file, s))
    BY <2>3, <2>4
  <2> QED
    BY <1>3, <2>3, <2>5 DEF selected
<1> QED
  BY <1>5, <1>6

-----------------------------------------------------------------------------
(* The command line: what a terminal is in the middle of.                  *)

InARun == {"run", "open", "select", "work"}
IsCall(c) ==
  c = [step |-> c.step, line |-> c.line, source |-> c.source, run |-> c.run,
       selected |-> c.selected, tainted |-> c.tainted, prior |-> c.prior, exit |-> c.exit]
IsRun(d) == d = [plan |-> d.plan, manifest |-> d.manifest, from |-> d.from]

\* Every success of m was had by one of the runs in from.
Had(m, from, ran) ==
  \A t \in DOMAIN m : m[t] = "success" => \E e \in from : <<e, t>> \in ran

PreparedAs(c) ==
  LET file == PlanFiles[c.line.plan] IN
  /\ c.line.only \cup c.line.skip \subseteq DOMAIN file
  /\ c.selected = SelectTasks(c.line, file)
  /\ c.tainted = ComputeTainted(file, c.selected)

CallOK(c, rs, ran) ==
  /\ IsCall(c)
  /\ c.step \in InARun => /\ c.line \in CommandLines /\ c.line.cmd = "run"
                           /\ c.source \in {0} \cup DOMAIN rs
  /\ c.step \in {"select", "work"} =>
       /\ c.run \in DOMAIN rs
       /\ c.source # 0 => rs[c.source].from \subseteq rs[c.run].from
  /\ c.step = "work" => PreparedAs(c) /\ Had(c.prior, rs[c.run].from, ran)

RunsOK(rs, ran) ==
  /\ IsSeq(rs)
  /\ \A d \in DOMAIN rs : IsRun(rs[d]) /\ d \in rs[d].from /\ Had(rs[d].manifest, rs[d].from, ran)

AllCallsOK(calls, rs, ran) ==
  /\ calls = [w \in Terminals |-> calls[w]]
  /\ \A w \in Terminals : CallOK(calls[w], rs, ran)

\* The inductive invariant: what a run was resumed from is part of what it is
\* from, and what it has taken over was had there.
CommandInv == RunsOK(runs, hasRun) /\ AllCallsOK(call, runs, hasRun)

\* Directories stay what they are from, and what has run has run.
Grown(rs, rs2, ran, ran2) ==
  /\ DOMAIN rs \subseteq DOMAIN rs2 /\ \A d \in DOMAIN rs : rs2[d].from = rs[d].from
  /\ ran \subseteq ran2

LEMMA GrownStays == \A rs, ran : Grown(rs, rs, ran, ran)
BY DEF Grown

LEMMA OthersKept ==
  ASSUME NEW rs, NEW rs2, NEW ran, NEW ran2, Grown(rs, rs2, ran, ran2), NEW c, CallOK(c, rs, ran)
  PROVE  CallOK(c, rs2, ran2)
<1>1. c.step \in {"select", "work"} => rs2[c.run].from = rs[c.run].from
  BY DEF Grown, CallOK
<1>2. c.step \in {"select", "work"} /\ c.source # 0 => rs2[c.source].from = rs[c.source].from
  BY DEF Grown, CallOK, InARun
<1>3. c.step = "work" => Had(c.prior, rs2[c.run].from, ran2)
  BY <1>1 DEF Grown, CallOK, Had
<1> QED
  BY <1>1, <1>2, <1>3 DEF Grown, CallOK

\* One terminal goes on, the others stay as they are.
LEMMA OneGoesOn ==
  ASSUME NEW calls, NEW rs, NEW ran, AllCallsOK(calls, rs, ran), NEW rs2, NEW ran2,
         Grown(rs, rs2, ran, ran2), NEW w \in Terminals, NEW c, CallOK(c, rs2, ran2)
  PROVE  AllCallsOK([calls EXCEPT ![w] = c], rs2, ran2)
<1>1. \A v \in Terminals : CallOK(calls[v], rs2, ran2)
  BY OthersKept DEF AllCallsOK
<1> DEFINE next == [calls EXCEPT ![w] = c]
<1>2. next = [v \in Terminals |-> next[v]]
  BY DEF AllCallsOK
<1>3. \A v \in Terminals : next[v] = IF v = w THEN c ELSE calls[v]
  BY DEF AllCallsOK
<1> HIDE DEF next
<1>4. AllCallsOK(next, rs2, ran2)
  BY <1>1, <1>2, <1>3 DEF AllCallsOK
<1> QED
  BY <1>4 DEF next

\* A call changed in one field is a call, and the same in all others.
LEMMA CallStep ==
  \A c, v, n : IsCall(c) /\ n = [c EXCEPT !.step = v] =>
    /\ IsCall(n) /\ n.step = v /\ n.line = c.line /\ n.source = c.source /\ n.run = c.run
    /\ n.selected = c.selected /\ n.tainted = c.tainted /\ n.prior = c.prior /\ n.exit = c.exit
<1> SUFFICES ASSUME NEW c, NEW v, NEW n, IsCall(c), n = [c EXCEPT !.step = v]
    PROVE  /\ IsCall(n) /\ n.step = v /\ n.line = c.line /\ n.source = c.source /\ n.run = c.run
           /\ n.selected = c.selected /\ n.tainted = c.tainted /\ n.prior = c.prior /\ n.exit = c.exit
  OBVIOUS
<1> DEFINE e1 == c.step e2 == c.line e3 == c.source e4 == c.run e5 == c.selected e6 == c.tainted e7 == c.prior e8 == c.exit
<1>1. c = [step |-> e1, line |-> e2, source |-> e3, run |-> e4,
       selected |-> e5, tainted |-> e6, prior |-> e7, exit |-> e8]
  BY DEF IsCall
<1> HIDE DEF e1, e2, e3, e4, e5, e6, e7, e8
<1>2. n = [step |-> v, line |-> e2, source |-> e3, run |-> e4,
       selected |-> e5, tainted |-> e6, prior |-> e7, exit |-> e8]
  BY <1>1
<1> USE DEF e1, e2, e3, e4, e5, e6, e7, e8
<1> QED
  BY <1>2 DEF IsCall

LEMMA CallLine ==
  \A c, v, n : IsCall(c) /\ n = [c EXCEPT !.line = v] =>
    /\ IsCall(n) /\ n.step = c.step /\ n.line = v /\ n.source = c.source /\ n.run = c.run
    /\ n.selected = c.selected /\ n.tainted = c.tainted /\ n.prior = c.prior /\ n.exit = c.exit
<1> SUFFICES ASSUME NEW c, NEW v, NEW n, IsCall(c), n = [c EXCEPT !.line = v]
    PROVE  /\ IsCall(n) /\ n.step = c.step /\ n.line = v /\ n.source = c.source /\ n.run = c.run
           /\ n.selected = c.selected /\ n.tainted = c.tainted /\ n.prior = c.prior /\ n.exit = c.exit
  OBVIOUS
<1> DEFINE e1 == c.step e2 == c.line e3 == c.source e4 == c.run e5 == c.selected e6 == c.tainted e7 == c.prior e8 == c.exit
<1>1. c = [step |-> e1, line |-> e2, source |-> e3, run |-> e4,
       selected |-> e5, tainted |-> e6, prior |-> e7, exit |-> e8]
  BY DEF IsCall
<1> HIDE DEF e1, e2, e3, e4, e5, e6, e7, e8
<1>2. n = [step |-> e1, line |-> v, source |-> e3, run |-> e4,
       selected |-> e5, tainted |-> e6, prior |-> e7, exit |-> e8]
  BY <1>1
<1> USE DEF e1, e2, e3, e4, e5, e6, e7, e8
<1> QED
  BY <1>2 DEF IsCall

LEMMA CallSource ==
  \A c, v, n : IsCall(c) /\ n = [c EXCEPT !.source = v] =>
    /\ IsCall(n) /\ n.step = c.step /\ n.line = c.line /\ n.source = v /\ n.run = c.run
    /\ n.selected = c.selected /\ n.tainted = c.tainted /\ n.prior = c.prior /\ n.exit = c.exit
<1> SUFFICES ASSUME NEW c, NEW v, NEW n, IsCall(c), n = [c EXCEPT !.source = v]
    PROVE  /\ IsCall(n) /\ n.step = c.step /\ n.line = c.line /\ n.source = v /\ n.run = c.run
           /\ n.selected = c.selected /\ n.tainted = c.tainted /\ n.prior = c.prior /\ n.exit = c.exit
  OBVIOUS
<1> DEFINE e1 == c.step e2 == c.line e3 == c.source e4 == c.run e5 == c.selected e6 == c.tainted e7 == c.prior e8 == c.exit
<1>1. c = [step |-> e1, line |-> e2, source |-> e3, run |-> e4,
       selected |-> e5, tainted |-> e6, prior |-> e7, exit |-> e8]
  BY DEF IsCall
<1> HIDE DEF e1, e2, e3, e4, e5, e6, e7, e8
<1>2. n = [step |-> e1, line |-> e2, source |-> v, run |-> e4,
       selected |-> e5, tainted |-> e6, prior |-> e7, exit |-> e8]
  BY <1>1
<1> USE DEF e1, e2, e3, e4, e5, e6, e7, e8
<1> QED
  BY <1>2 DEF IsCall

LEMMA CallRun ==
  \A c, v, n : IsCall(c) /\ n = [c EXCEPT !.run = v] =>
    /\ IsCall(n) /\ n.step = c.step /\ n.line = c.line /\ n.source = c.source /\ n.run = v
    /\ n.selected = c.selected /\ n.tainted = c.tainted /\ n.prior = c.prior /\ n.exit = c.exit
<1> SUFFICES ASSUME NEW c, NEW v, NEW n, IsCall(c), n = [c EXCEPT !.run = v]
    PROVE  /\ IsCall(n) /\ n.step = c.step /\ n.line = c.line /\ n.source = c.source /\ n.run = v
           /\ n.selected = c.selected /\ n.tainted = c.tainted /\ n.prior = c.prior /\ n.exit = c.exit
  OBVIOUS
<1> DEFINE e1 == c.step e2 == c.line e3 == c.source e4 == c.run e5 == c.selected e6 == c.tainted e7 == c.prior e8 == c.exit
<1>1. c = [step |-> e1, line |-> e2, source |-> e3, run |-> e4,
       selected |-> e5, tainted |-> e6, prior |-> e7, exit |-> e8]
  BY DEF IsCall
<1> HIDE DEF e1, e2, e3, e4, e5, e6, e7, e8
<1>2. n = [step |-> e1, line |-> e2, source |-> e3, run |-> v,
       selected |-> e5, tainted |-> e6, prior |-> e7, exit |-> e8]
  BY <1>1
<1> USE DEF e1, e2, e3, e4, e5, e6, e7, e8
<1> QED
  BY <1>2 DEF IsCall

LEMMA CallSelected ==
  \A c, v, n : IsCall(c) /\ n = [c EXCEPT !.selected = v] =>
    /\ IsCall(n) /\ n.step = c.step /\ n.line = c.line /\ n.source = c.source /\ n.run = c.run
    /\ n.selected = v /\ n.tainted = c.tainted /\ n.prior = c.prior /\ n.exit = c.exit
<1> SUFFICES ASSUME NEW c, NEW v, NEW n, IsCall(c), n = [c EXCEPT !.selected = v]
    PROVE  /\ IsCall(n) /\ n.step = c.step /\ n.line = c.line /\ n.source = c.source /\ n.run = c.run
           /\ n.selected = v /\ n.tainted = c.tainted /\ n.prior = c.prior /\ n.exit = c.exit
  OBVIOUS
<1> DEFINE e1 == c.step e2 == c.line e3 == c.source e4 == c.run e5 == c.selected e6 == c.tainted e7 == c.prior e8 == c.exit
<1>1. c = [step |-> e1, line |-> e2, source |-> e3, run |-> e4,
       selected |-> e5, tainted |-> e6, prior |-> e7, exit |-> e8]
  BY DEF IsCall
<1> HIDE DEF e1, e2, e3, e4, e5, e6, e7, e8
<1>2. n = [step |-> e1, line |-> e2, source |-> e3, run |-> e4,
       selected |-> v, tainted |-> e6, prior |-> e7, exit |-> e8]
  BY <1>1
<1> USE DEF e1, e2, e3, e4, e5, e6, e7, e8
<1> QED
  BY <1>2 DEF IsCall

LEMMA CallTainted ==
  \A c, v, n : IsCall(c) /\ n = [c EXCEPT !.tainted = v] =>
    /\ IsCall(n) /\ n.step = c.step /\ n.line = c.line /\ n.source = c.source /\ n.run = c.run
    /\ n.selected = c.selected /\ n.tainted = v /\ n.prior = c.prior /\ n.exit = c.exit
<1> SUFFICES ASSUME NEW c, NEW v, NEW n, IsCall(c), n = [c EXCEPT !.tainted = v]
    PROVE  /\ IsCall(n) /\ n.step = c.step /\ n.line = c.line /\ n.source = c.source /\ n.run = c.run
           /\ n.selected = c.selected /\ n.tainted = v /\ n.prior = c.prior /\ n.exit = c.exit
  BY ZenonT(40)
<1> DEFINE e1 == c.step e2 == c.line e3 == c.source e4 == c.run e5 == c.selected e6 == c.tainted e7 == c.prior e8 == c.exit
<1>1. c = [step |-> e1, line |-> e2, source |-> e3, run |-> e4,
       selected |-> e5, tainted |-> e6, prior |-> e7, exit |-> e8]
  BY DEF IsCall
<1> HIDE DEF e1, e2, e3, e4, e5, e6, e7, e8
<1>2. n = [step |-> e1, line |-> e2, source |-> e3, run |-> e4,
       selected |-> e5, tainted |-> v, prior |-> e7, exit |-> e8]
  BY <1>1
<1> USE DEF e1, e2, e3, e4, e5, e6, e7, e8
<1> QED
  BY <1>2 DEF IsCall

LEMMA CallPrior ==
  \A c, v, n : IsCall(c) /\ n = [c EXCEPT !.prior = v] =>
    /\ IsCall(n) /\ n.step = c.step /\ n.line = c.line /\ n.source = c.source /\ n.run = c.run
    /\ n.selected = c.selected /\ n.tainted = c.tainted /\ n.prior = v /\ n.exit = c.exit
<1> SUFFICES ASSUME NEW c, NEW v, NEW n, IsCall(c), n = [c EXCEPT !.prior = v]
    PROVE  /\ IsCall(n) /\ n.step = c.step /\ n.line = c.line /\ n.source = c.source /\ n.run = c.run
           /\ n.selected = c.selected /\ n.tainted = c.tainted /\ n.prior = v /\ n.exit = c.exit
  OBVIOUS
<1> DEFINE e1 == c.step e2 == c.line e3 == c.source e4 == c.run e5 == c.selected e6 == c.tainted e7 == c.prior e8 == c.exit
<1>1. c = [step |-> e1, line |-> e2, source |-> e3, run |-> e4,
       selected |-> e5, tainted |-> e6, prior |-> e7, exit |-> e8]
  BY DEF IsCall
<1> HIDE DEF e1, e2, e3, e4, e5, e6, e7, e8
<1>2. n = [step |-> e1, line |-> e2, source |-> e3, run |-> e4,
       selected |-> e5, tainted |-> e6, prior |-> v, exit |-> e8]
  BY <1>1
<1> USE DEF e1, e2, e3, e4, e5, e6, e7, e8
<1> QED
  BY <1>2 DEF IsCall

LEMMA CallExit ==
  \A c, v, n : IsCall(c) /\ n = [c EXCEPT !.exit = v] =>
    /\ IsCall(n) /\ n.step = c.step /\ n.line = c.line /\ n.source = c.source /\ n.run = c.run
    /\ n.selected = c.selected /\ n.tainted = c.tainted /\ n.prior = c.prior /\ n.exit = v
<1> SUFFICES ASSUME NEW c, NEW v, NEW n, IsCall(c), n = [c EXCEPT !.exit = v]
    PROVE  /\ IsCall(n) /\ n.step = c.step /\ n.line = c.line /\ n.source = c.source /\ n.run = c.run
           /\ n.selected = c.selected /\ n.tainted = c.tainted /\ n.prior = c.prior /\ n.exit = v
  OBVIOUS
<1> DEFINE e1 == c.step e2 == c.line e3 == c.source e4 == c.run e5 == c.selected e6 == c.tainted e7 == c.prior e8 == c.exit
<1>1. c = [step |-> e1, line |-> e2, source |-> e3, run |-> e4,
       selected |-> e5, tainted |-> e6, prior |-> e7, exit |-> e8]
  BY DEF IsCall
<1> HIDE DEF e1, e2, e3, e4, e5, e6, e7, e8
<1>2. n = [step |-> e1, line |-> e2, source |-> e3, run |-> e4,
       selected |-> e5, tainted |-> e6, prior |-> e7, exit |-> v]
  BY <1>1
<1> USE DEF e1, e2, e3, e4, e5, e6, e7, e8
<1> QED
  BY <1>2 DEF IsCall

\* A terminal that is at its prompt or done, with whatever code.
LEMMA EndedOK ==
  ASSUME NEW rs, NEW ran, NEW code
  PROVE  /\ CallOK(Idle, rs, ran)
         /\ CallOK([Idle EXCEPT !.step = "ended", !.exit = code], rs, ran)
<1> DEFINE c == [Idle EXCEPT !.step = "ended", !.exit = code]
<1>1. IsCall(Idle) /\ Idle.step = "prompt"
  BY DEF IsCall, Idle
<1>2. IsCall(c) /\ c.step = "ended"
  <2> DEFINE b == [Idle EXCEPT !.step = "ended"]
  <2>1. IsCall(b) /\ b.step = "ended"
    BY <1>1, CallStep
  <2>2. c = [b EXCEPT !.exit = code]
    OBVIOUS
  <2> HIDE DEF b, c
  <2> QED
    BY <2>1, <2>2, CallExit
<1> HIDE DEF c
<1>3. CallOK(Idle, rs, ran) /\ CallOK(c, rs, ran)
  BY <1>1, <1>2 DEF CallOK, InARun
<1> QED
  BY <1>3 DEF c

\* An action that leaves the directories and what has run, and takes w to c.
LEMMA OnlyTheCall ==
  ASSUME CommandInv, NEW w \in Terminals, NEW c, To(w, c), CallOK(c, runs, hasRun),
         runs' = runs, hasRun' = hasRun
  PROVE  CommandInv'
<1>1. AllCallsOK([call EXCEPT ![w] = c], runs, hasRun)
  BY GrownStays, OneGoesOn DEF CommandInv
<1>2. AllCallsOK(call', runs, hasRun) /\ RunsOK(runs, hasRun)
  BY <1>1 DEF To, CommandInv
<1> QED
  BY <1>2 DEF CommandInv

LEMMA InitHolds ==
  ASSUME CommandInit
  PROVE  CommandInv
<1>1. RunsOK(runs, hasRun)
  <2>1. runs = <<>> /\ IsSeq(runs) /\ DOMAIN runs = {}
    BY EmptyIsSeq DEF CommandInit
  <2> QED
    BY <2>1 DEF RunsOK
<1>2. call = [w \in Terminals |-> Idle]
  BY DEF CommandInit
<1>3. AllCallsOK(call, runs, hasRun)
  BY <1>2, EndedOK DEF AllCallsOK
<1> QED
  BY <1>1, <1>3 DEF CommandInv

LEMMA TypeCommandKeeps ==
  ASSUME CommandInv, NEW w \in Terminals, TypeCommand(w)
  PROVE  CommandInv'
<1>1. PICK line \in CommandLines : To(w, [Idle EXCEPT !.step = line.cmd, !.line = line])
  BY DEF TypeCommand
<1> DEFINE c == [Idle EXCEPT !.step = line.cmd, !.line = line]
<1>2. IsCall(c) /\ c.step = line.cmd /\ c.line = line /\ c.source = 0
  <2>1. IsCall(Idle) /\ Idle.source = 0
    BY DEF IsCall, Idle
  <2> DEFINE b == [Idle EXCEPT !.step = line.cmd]
  <2>2. IsCall(b) /\ b.step = line.cmd /\ b.source = 0
    BY <2>1, CallStep
  <2>3. c = [b EXCEPT !.line = line]
    OBVIOUS
  <2> HIDE DEF b, c
  <2> QED
    BY <2>2, <2>3, CallLine
<1>3. line.cmd \in {"run", "check", "cleanup"}
  BY CommandAssumption
<1> HIDE DEF c
<1>4. CallOK(c, runs, hasRun)
  BY <1>2, <1>3 DEF CallOK, InARun
<1>5. To(w, c)
  BY <1>1 DEF c
<1>6. runs' = runs /\ hasRun' = hasRun
  BY DEF TypeCommand
<1> QED
  BY <1>4, <1>5, <1>6, OnlyTheCall

LEMMA CheckKeeps ==
  ASSUME CommandInv, NEW w \in Terminals, Check(w)
  PROVE  CommandInv'
<1>1. PICK code : To(w, [Idle EXCEPT !.step = "ended", !.exit = code])
  BY DEF Check, Ends
<1>2. runs' = runs /\ hasRun' = hasRun
  BY DEF Check
<1> QED
  BY <1>1, <1>2, EndedOK, OnlyTheCall

\* The last directory of a plan's name is a directory.
LEMMA LatestIsThere ==
  ASSUME NEW plan, IsSeq(runs)
  PROVE  LatestRun(plan) \in {0} \cup DOMAIN runs
<1> DEFINE found == {d \in DOMAIN runs : Written(d) /\ <<plan, runs[d].plan>> \in Suffix}
<1>1. CASE found # {}
  <2>1. Len(runs) \in Nat /\ found \subseteq 0 .. Len(runs)
    BY SeqDomain
  <2> HIDE DEF found
  <2>2. \E m \in found : \A k \in found : k <= m
    BY <1>1, <2>1, GreatestNumber
  <2>3. (CHOOSE d \in found : \A e \in found : e <= d) \in found
    BY <2>2
  <2> QED
    BY <1>1, <2>3 DEF found, LatestRun
<1> QED
  BY <1>1 DEF LatestRun

LEMMA FindSourceKeeps ==
  ASSUME CommandInv, NEW w \in Terminals, FindSource(w)
  PROVE  CommandInv'
<1>1. /\ CallOK(call[w], runs, hasRun) /\ IsSeq(runs)
      /\ call[w].step = "run" /\ runs' = runs /\ hasRun' = hasRun
  BY DEF CommandInv, RunsOK, AllCallsOK, FindSource
<1>2. \/ \E code : To(w, [Idle EXCEPT !.step = "ended", !.exit = code])
      \/ \E d \in {0} \cup DOMAIN runs : To(w, [call[w] EXCEPT !.step = "open", !.source = d])
  <2>1. CASE To(w, [call[w] EXCEPT !.step = "open"])
    <3>1. \E d \in {0} \cup DOMAIN runs : [call[w] EXCEPT !.step = "open"]
                                         = [call[w] EXCEPT !.step = "open", !.source = d]
      <4>1. call[w].source \in {0} \cup DOMAIN runs /\ IsCall(call[w])
        BY <1>1 DEF CallOK, InARun
      <4>2. [call[w] EXCEPT !.step = "open"]
            = [call[w] EXCEPT !.step = "open", !.source = call[w].source]
        BY <4>1 DEF IsCall
      <4> QED
        BY <4>1, <4>2
    <3> QED
      BY <2>1, <3>1
  <2>2. CASE To(w, [call[w] EXCEPT !.step = "open", !.source = LatestRun(call[w].line.plan)])
    BY <1>1, <2>2, LatestIsThere
  <2>3. CASE \E d \in DOMAIN runs : To(w, [call[w] EXCEPT !.step = "open", !.source = d])
    BY <2>3
  <2>4. CASE \E code : To(w, [Idle EXCEPT !.step = "ended", !.exit = code])
    BY <2>4
  <2> QED
    BY <2>1, <2>2, <2>3, <2>4 DEF FindSource, Ends, Line
<1>3. ASSUME NEW d \in {0} \cup DOMAIN runs,
             To(w, [call[w] EXCEPT !.step = "open", !.source = d])
      PROVE  CommandInv'
  <2> DEFINE c == [call[w] EXCEPT !.step = "open", !.source = d]
  <2>1. IsCall(c) /\ c.step = "open" /\ c.line = call[w].line /\ c.source = d
    <3>1. IsCall(call[w])
      BY <1>1 DEF CallOK
    <3> DEFINE b == [call[w] EXCEPT !.step = "open"]
    <3>2. IsCall(b) /\ b.step = "open" /\ b.line = call[w].line
      BY <3>1, CallStep
    <3>3. c = [b EXCEPT !.source = d]
      OBVIOUS
    <3> HIDE DEF b, c
    <3> QED
      BY <3>2, <3>3, CallSource
  <2>2. To(w, c)
    BY <1>3
  <2> HIDE DEF c
  <2>3. CallOK(c, runs, hasRun)
    BY <1>1, <2>1 DEF CallOK, InARun
  <2> QED
    BY <1>1, <2>2, <2>3, OnlyTheCall
<1>4. ASSUME NEW code, To(w, [Idle EXCEPT !.step = "ended", !.exit = code])
      PROVE  CommandInv'
  BY <1>1, <1>4, EndedOK, OnlyTheCall
<1> QED
  BY <1>2, <1>3, <1>4

LEMMA OpenRunKeeps ==
  ASSUME CommandInv, NEW w \in Terminals, OpenRun(w)
  PROVE  CommandInv'
<1> DEFINE d == Len(runs) + 1
           source == call[w].source
           made == [plan |-> call[w].line.plan, manifest |-> <<>>,
                    from |-> {d} \cup IF source = 0 THEN {} ELSE runs[source].from]
           b == [call[w] EXCEPT !.step = "select"]
           c == [call[w] EXCEPT !.step = "select", !.run = d]
<1>1. /\ CallOK(call[w], runs, hasRun) /\ RunsOK(runs, hasRun) /\ AllCallsOK(call, runs, hasRun)
      /\ call[w].step = "open" /\ hasRun' = hasRun
      /\ runs' = Append(runs, made) /\ call' = [call EXCEPT ![w] = c]
  BY DEF CommandInv, AllCallsOK, OpenRun, To, Line
<1>2. IsCall(c) /\ c.step = "select" /\ c.run = d /\ c.line = call[w].line /\ c.source = source
  <2>1. IsCall(call[w])
    BY <1>1 DEF CallOK
  <2>2. IsCall(b) /\ b.step = "select" /\ b.line = call[w].line /\ b.source = source
    BY <2>1, CallStep
  <2>3. c = [b EXCEPT !.run = d]
    OBVIOUS
  <2> HIDE DEF b, c, d
  <2> QED
    BY <2>2, <2>3, CallRun
<1>3. /\ IsRun(made) /\ d \in made.from /\ DOMAIN made.manifest = {}
      /\ source # 0 => runs[source].from \subseteq made.from
  <2>1. DOMAIN <<>> = {}
    BY EmptyIsSeq
  <2> QED
    BY <2>1 DEF IsRun
<1> HIDE DEF made, b, c, source
<1>4. /\ IsSeq(runs') /\ d \in DOMAIN runs' /\ runs'[d] = made
      /\ DOMAIN runs \subseteq DOMAIN runs' /\ \A e \in DOMAIN runs : runs'[e] = runs[e]
      /\ \A e \in DOMAIN runs' : e \in DOMAIN runs \/ e = d
  <2>1. IsSeq(runs) /\ Len(runs) \in Nat /\ DOMAIN runs = 1 .. Len(runs)
    BY <1>1, SeqDomain DEF RunsOK
  <2>2. /\ IsSeq(runs') /\ DOMAIN runs' = 1 .. Len(runs) + 1 /\ runs'[d] = made
        /\ \A e \in 1 .. Len(runs) : runs'[e] = runs[e]
    BY <1>1, <2>1, AppendSeq
  <2> QED
    BY <2>1, <2>2
<1> HIDE DEF d
<1>5. Grown(runs, runs', hasRun, hasRun)
  BY <1>4 DEF Grown
<1>6. RunsOK(runs', hasRun)
  BY <1>1, <1>3, <1>4 DEF RunsOK, Had
<1>7. source # 0 => source \in DOMAIN runs /\ runs'[source].from = runs[source].from
  BY <1>1, <1>4 DEF CallOK, InARun, source
<1>8. CallOK(c, runs', hasRun)
  <2>1. c.line \in CommandLines /\ c.line.cmd = "run" /\ c.source \in {0} \cup DOMAIN runs'
    BY <1>1, <1>2, <1>4 DEF CallOK, InARun, source
  <2> QED
    BY <1>2, <1>3, <1>4, <1>7, <2>1 DEF CallOK
<1>9. AllCallsOK([call EXCEPT ![w] = c], runs', hasRun)
  BY <1>1, <1>5, <1>8, OneGoesOn
<1>10. AllCallsOK(call', runs', hasRun')
  BY <1>1, <1>9
<1> QED
  BY <1>1, <1>6, <1>10 DEF CommandInv

LEMMA PrepareKeeps ==
  ASSUME CommandInv, NEW w \in Terminals, Prepare(w)
  PROVE  CommandInv'
<1> DEFINE file == PlanFiles[call[w].line.plan]
           selected == SelectTasks(call[w].line, file)
           tainted == ComputeTainted(file, selected)
           prior == IF call[w].source = 0 THEN <<>> ELSE PriorResults(runs[call[w].source].manifest)
           taken == [t \in DOMAIN prior \cap selected |-> prior[t]]
           c == [call[w] EXCEPT !.step = "work", !.selected = selected, !.tainted = tainted,
                                !.prior = taken]
<1>1. /\ CallOK(call[w], runs, hasRun) /\ RunsOK(runs, hasRun)
      /\ call[w].step = "select" /\ runs' = runs /\ hasRun' = hasRun
  BY DEF CommandInv, AllCallsOK, Prepare
<1>2. \/ \E code : To(w, [Idle EXCEPT !.step = "ended", !.exit = code])
      \/ To(w, c) /\ call[w].line.only \cup call[w].line.skip \subseteq DOMAIN file
  BY DEF Prepare, Ends, Refused, Line, File
<1>3. IsCall(c) /\ c.step = "work" /\ c.run = call[w].run /\ c.line = call[w].line
      /\ c.source = call[w].source /\ c.selected = selected /\ c.tainted = tainted /\ c.prior = taken
  <2> DEFINE b1 == [call[w] EXCEPT !.step = "work"]
             b2 == [b1 EXCEPT !.selected = selected]
             b3 == [b2 EXCEPT !.tainted = tainted]
             b4 == [b3 EXCEPT !.prior = taken]
  <2>1. b4 = c /\ b4 = [b3 EXCEPT !.prior = taken]
    OBVIOUS
  <2>2. b3 = [b2 EXCEPT !.tainted = tainted]
    OBVIOUS
  <2>3. b2 = [b1 EXCEPT !.selected = selected]
    OBVIOUS
  <2>4. b1 = [call[w] EXCEPT !.step = "work"] /\ IsCall(call[w])
    BY <1>1 DEF CallOK
  <2> HIDE DEF file, selected, tainted, prior, taken, c, b1, b2, b3, b4
  <2>5. IsCall(b1) /\ b1.step = "work" /\ b1.run = call[w].run /\ b1.line = call[w].line
        /\ b1.source = call[w].source
    BY <2>4, CallStep
  <2>6. IsCall(b2) /\ b2.step = "work" /\ b2.run = call[w].run /\ b2.line = call[w].line
        /\ b2.source = call[w].source /\ b2.selected = selected
    BY <2>3, <2>5, CallSelected
  <2>7. IsCall(b3) /\ b3.step = "work" /\ b3.run = call[w].run /\ b3.line = call[w].line
        /\ b3.source = call[w].source /\ b3.selected = selected /\ b3.tainted = tainted
    BY <2>2, <2>6, CallTainted
  <2>8. IsCall(b4) /\ b4.step = "work" /\ b4.run = call[w].run /\ b4.line = call[w].line
        /\ b4.source = call[w].source /\ b4.selected = selected /\ b4.tainted = tainted
        /\ b4.prior = taken
    BY <2>1, <2>7, CallPrior
  <2> QED
    BY <2>1, <2>8
<1>4. Had(taken, runs[call[w].run].from, hasRun)
  <2>1. CASE call[w].source = 0
    <3>1. DOMAIN prior = {}
      BY <2>1, EmptyIsSeq
    <3> HIDE DEF prior
    <3> QED
      BY <3>1 DEF Had
  <2>2. CASE call[w].source # 0
    <3>1. /\ call[w].source \in DOMAIN runs
          /\ runs[call[w].source].from \subseteq runs[call[w].run].from
      BY <1>1, <2>2 DEF CallOK, InARun
    <3>2. Had(runs[call[w].source].manifest, runs[call[w].source].from, hasRun)
      BY <1>1, <3>1 DEF RunsOK
    <3>3. \A t \in DOMAIN prior : /\ t \in DOMAIN runs[call[w].source].manifest
                                  /\ prior[t] = runs[call[w].source].manifest[t]
      BY <2>2 DEF PriorResults
    <3> HIDE DEF prior
    <3> QED
      BY <3>1, <3>2, <3>3 DEF Had
  <2> QED
    BY <2>1, <2>2
<1>5. ASSUME To(w, c), call[w].line.only \cup call[w].line.skip \subseteq DOMAIN file
      PROVE  CommandInv'
  <2>1. PreparedAs(c)
    <3> HIDE DEF c, taken, prior
    <3> QED
      BY <1>3, <1>5 DEF PreparedAs
  <2> HIDE DEF file, selected, tainted, prior, taken, c
  <2>2. /\ c.line \in CommandLines /\ c.line.cmd = "run" /\ c.source \in {0} \cup DOMAIN runs
        /\ c.run \in DOMAIN runs
        /\ c.source # 0 => runs[c.source].from \subseteq runs[c.run].from
    BY <1>1, <1>3 DEF CallOK, InARun
  <2>3. CallOK(c, runs, hasRun)
    BY <1>3, <1>4, <2>1, <2>2 DEF CallOK
  <2> QED
    BY <1>1, <1>5, <2>3, OnlyTheCall
<1> HIDE DEF c, file
<1>6. ASSUME NEW code, To(w, [Idle EXCEPT !.step = "ended", !.exit = code])
      PROVE  CommandInv'
  BY <1>1, <1>6, EndedOK, OnlyTheCall
<1> QED
  BY <1>2, <1>5, <1>6

\* A manifest is written into a directory that there is.
LEMMA WrittenRuns ==
  ASSUME NEW rs, NEW ran, RunsOK(rs, ran), NEW d \in DOMAIN rs, NEW m, NEW new,
         Had(m, rs[d].from, ran \cup new)
  PROVE  LET rs2 == [rs EXCEPT ![d] = WithManifest(rs[d], m)] IN
         RunsOK(rs2, ran \cup new) /\ Grown(rs, rs2, ran, ran \cup new)
<1> DEFINE r == WithManifest(rs[d], m)
           rs2 == [rs EXCEPT ![d] = r]
<1>1. IsSeq(rs) /\ \A e \in DOMAIN rs : IsRun(rs[e]) /\ e \in rs[e].from /\ Had(rs[e].manifest, rs[e].from, ran)
  BY DEF RunsOK
<1>2. IsRun(r) /\ r.from = rs[d].from /\ r.manifest = m
  <2> DEFINE x == rs[d].plan  y == rs[d].manifest  z == rs[d].from
  <2>1. rs[d] = [plan |-> x, manifest |-> y, from |-> z]
    BY <1>1 DEF IsRun
  <2> HIDE DEF x, y
  <2>2. r = [plan |-> x, manifest |-> m, from |-> z]
    BY <2>1 DEF WithManifest
  <2> HIDE DEF r
  <2> QED
    BY <2>2 DEF IsRun
<1> HIDE DEF r
<1>3. /\ IsSeq(rs2) /\ DOMAIN rs2 = DOMAIN rs
      /\ \A e \in DOMAIN rs : rs2[e] = IF e = d THEN r ELSE rs[e]
  BY <1>1, ExceptIsSeq
<1> HIDE DEF rs2
<1>4. \A e \in DOMAIN rs : Had(rs[e].manifest, rs[e].from, ran \cup new)
  BY <1>1 DEF Had
<1>5. RunsOK(rs2, ran \cup new)
  BY <1>1, <1>2, <1>3, <1>4 DEF RunsOK
<1>6. Grown(rs, rs2, ran, ran \cup new)
  BY <1>2, <1>3 DEF Grown
<1> QED
  BY <1>5, <1>6 DEF rs2, r

LEMMA FinishRunKeeps ==
  ASSUME CommandInv, NEW w \in Terminals, FinishRun(w)
  PROVE  CommandInv'
<1>1. PICK r \in RunResults(w) :
        LET kept == {t \in DOMAIN r : r[t] # "forgotten"} IN
        /\ hasRun' = hasRun \cup NowRun(w, r)
        /\ runs' = [runs EXCEPT ![call[w].run] = WithManifest(@, [t \in kept |-> r[t]])]
        /\ \E code : Ends(w, code)
  BY DEF FinishRun
<1> DEFINE d == call[w].run
           kept == {t \in DOMAIN r : r[t] # "forgotten"}
           m == [t \in kept |-> r[t]]
           new == NowRun(w, r)
<1>2. /\ CallOK(call[w], runs, hasRun) /\ RunsOK(runs, hasRun) /\ AllCallsOK(call, runs, hasRun)
      /\ call[w].step = "work"
  BY DEF CommandInv, AllCallsOK, FinishRun
<1>3. /\ d \in DOMAIN runs /\ d \in runs[d].from /\ Had(call[w].prior, runs[d].from, hasRun)
  BY <1>2 DEF CallOK, RunsOK
<1>4. \A t \in DOMAIN r : t \in DOMAIN call[w].prior => r[t] = call[w].prior[t]
  BY DEF RunResults, Outcomes
<1>5. \A t \in DOMAIN r : r[t] = "success" /\ t \notin DOMAIN call[w].prior => <<d, t>> \in new
  BY DEF NowRun
<1>6. Had(m, runs[d].from, hasRun \cup new)
  <2> SUFFICES ASSUME NEW t \in kept, r[t] = "success"
               PROVE  \E e \in runs[d].from : <<e, t>> \in hasRun \cup new
    BY DEF Had
  <2>1. CASE t \in DOMAIN call[w].prior
    BY <1>3, <1>4, <2>1 DEF Had
  <2>2. CASE t \notin DOMAIN call[w].prior
    BY <1>3, <1>5, <2>2
  <2> QED
    BY <2>1, <2>2
<1> HIDE DEF m, new
<1> DEFINE rs2 == [runs EXCEPT ![d] = WithManifest(runs[d], m)]
<1>7. RunsOK(rs2, hasRun \cup new) /\ Grown(runs, rs2, hasRun, hasRun \cup new)
  <2> HIDE DEF d
  <2> QED
    BY <1>2, <1>3, <1>6, WrittenRuns
<1>8. runs' = rs2 /\ hasRun' = hasRun \cup new
  BY <1>1 DEF m, new
<1>9. PICK code : call' = [call EXCEPT ![w] = [Idle EXCEPT !.step = "ended", !.exit = code]]
  BY <1>1 DEF Ends, To
<1> HIDE DEF rs2
<1>10. AllCallsOK(call', rs2, hasRun \cup new)
  BY <1>2, <1>7, <1>9, EndedOK, OneGoesOn
<1> QED
  BY <1>7, <1>8, <1>10 DEF CommandInv

LEMMA BreakRunKeeps ==
  ASSUME CommandInv, NEW w \in Terminals, BreakRun(w)
  PROVE  CommandInv'
<1>1. PICK new : hasRun' = hasRun \cup new
  BY DEF BreakRun
<1>2. PICK code : call' = [call EXCEPT ![w] = [Idle EXCEPT !.step = "ended", !.exit = code]]
  BY DEF BreakRun, Ends, To
<1>3. runs' = runs /\ RunsOK(runs, hasRun) /\ AllCallsOK(call, runs, hasRun)
  BY DEF BreakRun, CommandInv
<1>4. Grown(runs, runs, hasRun, hasRun \cup new)
  BY DEF Grown
<1>5. RunsOK(runs, hasRun \cup new)
  BY <1>3 DEF RunsOK, Had
<1>6. AllCallsOK(call', runs, hasRun \cup new)
  BY <1>2, <1>3, <1>4, EndedOK, OneGoesOn
<1> QED
  BY <1>1, <1>3, <1>5, <1>6 DEF CommandInv

LEMMA CleanupRunsKeeps ==
  ASSUME CommandInv, NEW w \in Terminals, CleanupRuns(w)
  PROVE  CommandInv'
<1>1. To(w, [Idle EXCEPT !.step = "ended", !.exit = 0])
  BY DEF CleanupRuns, Ends
<1>2. runs' = runs /\ hasRun' = hasRun
  BY DEF CleanupRuns
<1> QED
  BY <1>1, <1>2, EndedOK, OnlyTheCall

LEMMA CommandInvariant == CommandSpec => []CommandInv
<1>1. CommandInit => CommandInv
  BY InitHolds
<1>2. CommandInv /\ [CommandNext]_commandVars => CommandInv'
  <2>1. CASE CommandNext
    BY <2>1, TypeCommandKeeps, CheckKeeps, FindSourceKeeps, OpenRunKeeps, PrepareKeeps,
       FinishRunKeeps, BreakRunKeeps, CleanupRunsKeeps DEF CommandNext
  <2>2. CASE UNCHANGED commandVars
    <3>1. runs' = runs /\ call' = call /\ hasRun' = hasRun
      BY <2>2 DEF commandVars
    <3> QED
      BY <3>1 DEF CommandInv
  <2> QED
    BY <2>1, <2>2
<1> QED
  BY <1>1, <1>2, PTL DEF CommandSpec

LEMMA PreparedIsExact ==
  ASSUME CommandInv
  PROVE  PreludeExact
<1> SUFFICES ASSUME NEW w \in Terminals, call[w].step = "work"
    PROVE LET line == Line(w)  file == File(w)  selected == call[w].selected  tainted == call[w].tainted IN
    \A t \in DOMAIN file :
      /\ Asked(line, file, t) => t \in selected
      /\ t \in selected =>
           /\ \/ Asked(line, file, t)
              \/ \E s \in DOMAIN file :
                   /\ t \in file[s].deps
                   /\ s \in selected \cup line.skip \/ (line.only # {} /\ ~Tagged(line, file, s))
           /\ \A d \in file[t].deps \ selected : d \in line.skip /\ line.tags \cup line.skipTags = {}
      /\ t \in tainted <=>
           /\ t \in selected
           /\ \/ file[t].untrusted
              \/ ~file[t].guarded /\ ContextOf(t, file, selected) \cap tainted # {}
  BY DEF PreludeExact
<1> DEFINE line == call[w].line
           file == PlanFiles[line.plan]
           selected == call[w].selected
           tainted == call[w].tainted
<1>1. /\ line \in CommandLines /\ line.cmd = "run" /\ PreparedAs(call[w])
  BY DEF CommandInv, AllCallsOK, CallOK, InARun
<1>2. FileOK(file)
  BY <1>1, CommandAssumption DEF FileOK
<1>3. /\ line.only \subseteq DOMAIN file
      /\ selected = SelectTasks(line, file) /\ tainted = ComputeTainted(file, selected)
  BY <1>1 DEF PreparedAs
<1>4. line = Line(w) /\ file = File(w)
  BY DEF Line, File
<1> HIDE DEF line, file, selected, tainted
<1>5. /\ selected \subseteq DOMAIN file
      /\ \A t \in DOMAIN file : Asked(line, file, t) => t \in selected
      /\ \A t \in selected :
           /\ \/ Asked(line, file, t)
              \/ \E s \in DOMAIN file :
                   /\ t \in file[s].deps
                   /\ s \in selected \cup line.skip \/ (line.only # {} /\ ~Tagged(line, file, s))
           /\ \A d \in file[t].deps \ selected : d \in line.skip /\ line.tags \cup line.skipTags = {}
  BY <1>2, <1>3, SelectionExact
<1>6. /\ tainted \subseteq selected
      /\ \A t \in selected :
           t \in tainted <=> \/ file[t].untrusted
                             \/ ~file[t].guarded /\ ContextOf(t, file, selected) \cap tainted # {}
  <2>1. IsFiniteSet(selected)
    BY <1>2, <1>5, FS_Subset DEF FileOK
  <2> QED
    BY <1>3, <2>1, TaintedCloses
<1> QED
  BY <1>4, <1>5, <1>6 DEF selected, tainted

\* Whatever the plan, the options and the tags: a run has exactly what was asked
\* for and is needed, and a task is tainted exactly when it is untrusted or reads,
\* unguarded, from one that is (scheduler.py _select_tasks, _compute_tainted_tasks).
THEOREM RunsArePrepared == CommandSpec => []PreludeExact
BY CommandInvariant, PreparedIsExact, PTL

\* Of any number of runs, resumed from one another out of whichever plan's
\* directory and cleaned up in between, a success in a manifest was had by that
\* run or by one it was resumed from (_load_prior_results, run_plan).
THEOREM SuccessesWereRun == CommandSpec => []SuccessWasRun
<1>1. CommandInv => SuccessWasRun
  BY DEF CommandInv, RunsOK, Had, SuccessWasRun
<1> QED
  BY <1>1, CommandInvariant, PTL

-----------------------------------------------------------------------------
(***************************************************************************)
(* A watch and what it leaves on disk                                      *)
(***************************************************************************)
\* st rebuilds the state row by row.
Rebuilds(st, rows, upto) ==
  st = [n \in upto |-> IF n = 0 THEN Forgotten ELSE Remembered(st[n - 1], rows[n])]

LEMMA RebuildsExists ==
  ASSUME NEW rows, NEW n \in Nat
  PROVE  \E st : Rebuilds(st, rows, 0 .. n)
<1> DEFINE Upto == {m \in Nat : \E st : Rebuilds(st, rows, 0 .. m)}
<1>1. 0 \in Upto
  <2> DEFINE st == [k \in 0 .. 0 |-> Forgotten]
  <2>1. st = [k \in 0 .. 0 |-> IF k = 0 THEN Forgotten ELSE Remembered(st[k - 1], rows[k])]
    OBVIOUS
  <2> HIDE DEF st
  <2>2. Rebuilds(st, rows, 0 .. 0)
    BY <2>1 DEF Rebuilds
  <2> QED
    BY <2>2
<1>2. ASSUME NEW m \in Nat, m \in Upto
      PROVE  m + 1 \in Upto
  <2>1. PICK g : Rebuilds(g, rows, 0 .. m)
    BY <1>2
  <2> DEFINE a(k) == IF k = 0 THEN Forgotten ELSE Remembered(g[k - 1], rows[k])
             h == [k \in 0 .. m + 1 |-> a(k)]
             b(k) == IF k = 0 THEN Forgotten ELSE Remembered(h[k - 1], rows[k])
  <2>2. \A k \in 0 .. m : h[k] = g[k]
    <3> SUFFICES ASSUME NEW k \in 0 .. m PROVE h[k] = g[k]
      OBVIOUS
    <3>1. g[k] = a(k)
      BY <2>1 DEF Rebuilds
    <3>2. k \in 0 .. m + 1
      OBVIOUS
    <3> HIDE DEF a
    <3> QED
      BY <3>1, <3>2
  <2>3. \A k \in 0 .. m + 1 : k # 0 => h[k - 1] = g[k - 1]
    <3> HIDE DEF h
    <3>1. \A k \in 0 .. m + 1 : k # 0 => k - 1 \in 0 .. m
      OBVIOUS
    <3> QED
      BY <2>2, <3>1
  <2>4. \A k \in 0 .. m + 1 : a(k) = b(k)
    <3> HIDE DEF h
    <3> QED
      BY <2>3
  <2>5. h = [k \in 0 .. m + 1 |-> a(k)]
    OBVIOUS
  <2> HIDE DEF a, b, h
  <2>6. h = [k \in 0 .. m + 1 |-> b(k)]
    BY <2>4, <2>5
  <2>7. Rebuilds(h, rows, 0 .. m + 1)
    BY <2>6 DEF b, Rebuilds
  <2> QED
    BY <2>7
<1>3. Nat \subseteq Upto
  <2> HIDE DEF Upto
  <2> QED
    BY <1>1, <1>2, SetInduction
<1> QED
  BY <1>3

LEMMA RebuiltBy ==
  ASSUME NEW rows, Len(rows) \in Nat
  PROVE  \E st : Rebuilds(st, rows, 0 .. Len(rows)) /\ RebuiltFrom(rows) = st[Len(rows)]
<1> DEFINE st[n \in 0 .. Len(rows)] ==
             IF n = 0 THEN Forgotten ELSE Remembered(st[n - 1], rows[n])
<1>1. \E g : g = [n \in 0 .. Len(rows) |->
                    IF n = 0 THEN Forgotten ELSE Remembered(g[n - 1], rows[n])]
  BY RebuildsExists DEF Rebuilds
<1>2. st = [n \in 0 .. Len(rows) |->
              IF n = 0 THEN Forgotten ELSE Remembered(st[n - 1], rows[n])]
  BY <1>1
<1>3. RebuiltFrom(rows) = st[Len(rows)]
  BY DEF RebuiltFrom
<1> HIDE DEF st
<1> QED
  BY <1>2, <1>3 DEF Rebuilds

\* What a resume rebuilds from a log with one row more.
LEMMA RebuiltGrows ==
  ASSUME NEW rows, IsSeq(rows), NEW row
  PROVE  RebuiltFrom(Append(rows, row)) = Remembered(RebuiltFrom(rows), row)
<1> DEFINE more == Append(rows, row)
           n == Len(rows)
<1>1. /\ n \in Nat /\ Len(more) = n + 1 /\ more[n + 1] = row
      /\ \A i \in 1 .. n : more[i] = rows[i]
  BY SeqDomain, AppendSeq
<1> HIDE DEF more
<1>2. PICK g : Rebuilds(g, rows, 0 .. n) /\ RebuiltFrom(rows) = g[n]
  BY <1>1, RebuiltBy
<1>3. PICK h : Rebuilds(h, more, 0 .. n + 1) /\ RebuiltFrom(more) = h[n + 1]
  BY <1>1, RebuiltBy
<1> HIDE DEF n
<1>g. /\ g[0] = Forgotten
      /\ \A k \in 0 .. n : k # 0 => g[k] = Remembered(g[k - 1], rows[k])
  BY <1>1, <1>2 DEF Rebuilds
<1>h. /\ h[0] = Forgotten
      /\ \A k \in 0 .. n + 1 : k # 0 => h[k] = Remembered(h[k - 1], more[k])
  <2> DEFINE upto == 0 .. n + 1
  <2>1. 0 \in upto
    BY <1>1
  <2>2. h = [k \in upto |-> IF k = 0 THEN Forgotten ELSE Remembered(h[k - 1], more[k])]
    BY <1>3 DEF Rebuilds
  <2> HIDE DEF upto
  <2>3. /\ h[0] = Forgotten
        /\ \A k \in upto : k # 0 => h[k] = Remembered(h[k - 1], more[k])
    BY <2>1, <2>2
  <2> QED
    BY <2>3 DEF upto
<1> DEFINE Upto == {k \in Nat : k <= n => g[k] = h[k]}
<1>4. 0 \in Upto
  BY <1>g, <1>h
<1>5. ASSUME NEW k \in Nat, k \in Upto PROVE k + 1 \in Upto
  <2> SUFFICES ASSUME k + 1 <= n PROVE g[k + 1] = h[k + 1]
    OBVIOUS
  <2>1. k <= n /\ k + 1 \in 1 .. n /\ k + 1 \in 0 .. n /\ k + 1 \in 0 .. n + 1
        /\ (k + 1) - 1 = k /\ k + 1 # 0
    BY <1>1
  <2>2. g[k] = h[k] /\ more[k + 1] = rows[k + 1]
    BY <1>1, <1>5, <2>1
  <2> QED
    BY <1>g, <1>h, <2>1, <2>2
<1>6. Nat \subseteq Upto
  <2> HIDE DEF Upto
  <2> QED
    BY <1>4, <1>5, SetInduction
<1>7. g[n] = h[n]
  BY <1>1, <1>6
<1>8. n + 1 \in 0 .. n + 1 /\ n + 1 # 0 /\ (n + 1) - 1 = n
  BY <1>1
<1>9. h[n + 1] = Remembered(h[n], more[n + 1])
  BY <1>h, <1>8
<1> QED
  BY <1>1, <1>2, <1>3, <1>7, <1>9 DEF more

LEMMA RebuiltEmpty == RebuiltFrom(<<>>) = Forgotten
<1>1. PICK g : Rebuilds(g, <<>>, 0 .. 0) /\ RebuiltFrom(<<>>) = g[0]
  BY RebuiltBy, EmptyIsSeq
<1> QED
  BY <1>1 DEF Rebuilds

Iterations == [metric : Metrics, cost : Nat, steps : Nat,
               edit : {"none", "good", "invalid", "frozen"}, commit : BOOLEAN]

\* What a resume can go by, in the file and in every commit that has it.
RowsOK(rows) ==
  /\ IsSeq(rows)
  /\ RebuiltFrom(rows).bestIter \in Nat /\ RebuiltFrom(rows).plateau \in Nat /\ RebuiltFrom(rows).cost \in Nat
CommitOK(c) ==
  /\ DOMAIN c = {"content", "by", "rows", "stones"}
  /\ RowsOK(c.rows) /\ (wspec.ignored => c.rows = <<>>)
CommitsOK ==
  /\ IsSeq(commits) /\ commits # <<>>
  /\ \A n \in DOMAIN commits : CommitOK(commits[n])

WatchTyped ==
  /\ bestIter \in Nat /\ plateau \in Nat /\ cost \in Nat /\ iter \in Iterations
  /\ IsSeq(iterations) /\ RowsOK(experiments) /\ CommitsOK

\* A watch that begins remembers nothing.
Fresh ==
  /\ wpc \in {"start", "resume"} => iterations = <<>> /\ bestIter = 0 /\ plateau = 0 /\ cost = 0
  /\ wpc = "start" => experiments = <<>> /\ lastGood = {}

\* git leaves experiments.jsonl alone.
LeftAlone == wspec.ignored \/ wspec.onRegression = "keep"

\* What the watch remembers and what it could rebuild: the same until the
\* iteration is judged, and the row to come makes up for the difference.
InStep ==
  /\ wpc = "top" /\ ~Baseline => best = Rebuilt.best
  /\ wpc \in {"frozen", "target", "measure", "judge"} => iter.edit # "invalid"
  /\ wpc = "record" /\ iter.edit = "invalid" => plateau # 0
  /\ LeftAlone =>
       /\ wpc \in {"top", "agent", "invalid", "frozen", "target", "measure", "judge"} =>
            bestIter = Rebuilt.bestIter /\ plateau = Rebuilt.plateau
       /\ wpc \in {"top", "agent", "invalid", "frozen", "target", "measure"} => cost <= Rebuilt.cost
       /\ wpc \in {"judge", "record"} => cost <= Rebuilt.cost + iter.cost
       /\ wpc = "record" =>
            IF plateau = 0 THEN bestIter = Number
            ELSE bestIter = Rebuilt.bestIter /\ plateau = Rebuilt.plateau + 1

\* With rollback the branch has the last improvement, and the tree the branch; a
\* commit that has no row yet is all that the tree has and one more than that.
Has(content, branch) ==
  content \subseteq branch /\ branch \subseteq tree /\ branch \ content \subseteq merged \cup orphans
AwaitsRow == wpc = "record" /\ iter.commit
Before == commits[Len(commits) - 1].content
GoodHead ==
  wspec.onRegression = "rollback" =>
    /\ wpc \in {"agent", "invalid", "frozen", "target", "measure", "judge"} => ~iter.commit
    /\ AwaitsRow => plateau = 0 /\ HEAD.content = tree
    /\ \A content \in lastGood : Has(content, IF AwaitsRow THEN Before ELSE HEAD.content)

WatchInv == WatchTyped /\ Fresh /\ InStep /\ GoodHead

LEMMA IterationSteps ==
  \A it \in Iterations :
    /\ it.cost \in Nat /\ it.commit \in BOOLEAN
    /\ [it EXCEPT !.commit = TRUE] \in Iterations
    /\ [it EXCEPT !.commit = TRUE].commit
    /\ [it EXCEPT !.commit = TRUE].cost = it.cost /\ [it EXCEPT !.commit = TRUE].edit = it.edit
    /\ \A r \in Results :
         LET target == [it EXCEPT !.cost = @ + r.cost, !.steps = @ + r.steps, !.metric = r.metric] IN
         target \in Iterations /\ target.commit = it.commit /\ target.edit = it.edit
<1> SUFFICES ASSUME NEW it \in Iterations
             PROVE  /\ it.cost \in Nat /\ it.commit \in BOOLEAN
                    /\ [it EXCEPT !.commit = TRUE] \in Iterations
                    /\ [it EXCEPT !.commit = TRUE].commit
                    /\ [it EXCEPT !.commit = TRUE].cost = it.cost
                    /\ [it EXCEPT !.commit = TRUE].edit = it.edit
                    /\ \A r \in Results :
                         LET target == [it EXCEPT !.cost = @ + r.cost, !.steps = @ + r.steps,
                                                  !.metric = r.metric] IN
                         target \in Iterations /\ target.commit = it.commit /\ target.edit = it.edit
  OBVIOUS
<1>1. \A r \in Results : r.metric \in Metrics /\ r.cost \in Nat /\ r.steps \in Nat
  BY WatchBounds DEF Metrics, None
<1>2. /\ it.cost \in Nat /\ it.steps \in Nat /\ it.commit \in BOOLEAN
      /\ [it EXCEPT !.commit = TRUE] \in Iterations
      /\ [it EXCEPT !.commit = TRUE].commit
      /\ [it EXCEPT !.commit = TRUE].cost = it.cost /\ [it EXCEPT !.commit = TRUE].edit = it.edit
  BY DEF Iterations
<1>3. ASSUME NEW r \in Results
      PROVE  LET target == [it EXCEPT !.cost = @ + r.cost, !.steps = @ + r.steps,
                                      !.metric = r.metric] IN
             target \in Iterations /\ target.commit = it.commit /\ target.edit = it.edit
  <2>1. it.cost + r.cost \in Nat /\ it.steps + r.steps \in Nat
    BY <1>1, <1>2
  <2> QED
    BY <1>1, <2>1 DEF Iterations
<1> QED
  BY <1>2, <1>3

LEMMA EmptyRowsOK == RowsOK(<<>>)
BY RebuiltEmpty, EmptyIsSeq DEF RowsOK, Forgotten

\* A row more.
LEMMA RowsOKGrows ==
  ASSUME NEW rows, RowsOK(rows), NEW row, row.number \in Nat, row.cost \in Nat
  PROVE  /\ RowsOK(Append(rows, row))
         /\ RebuiltFrom(Append(rows, row)) = Remembered(RebuiltFrom(rows), row)
<1>1. RebuiltFrom(Append(rows, row)) = Remembered(RebuiltFrom(rows), row)
  BY RebuiltGrows DEF RowsOK
<1>2. IsSeq(Append(rows, row))
  BY AppendSeq DEF RowsOK
<1> QED
  BY <1>1, <1>2 DEF RowsOK, Remembered

\* A commit more.
LEMMA CommitAdded ==
  ASSUME CommitsOK, NEW c, commits' = Append(commits, c), wspec' = wspec
  PROVE  /\ HEAD' = c /\ Len(commits') > 1 /\ commits'[Len(commits') - 1] = HEAD
         /\ CommitOK(c) => CommitsOK'
<1>1. IsSeq(commits) /\ commits # <<>> /\ Len(commits) \in Nat /\ Len(commits) \in 1 .. Len(commits)
  BY EmptyDomain, SeqDomain DEF CommitsOK
<1>2. /\ IsSeq(commits') /\ Len(commits') = Len(commits) + 1 /\ DOMAIN commits' = 1 .. Len(commits) + 1
      /\ commits'[Len(commits) + 1] = c /\ \A n \in 1 .. Len(commits) : commits'[n] = commits[n]
  BY <1>1, AppendSeq
<1>3. commits' # <<>> /\ DOMAIN commits = 1 .. Len(commits)
  BY <1>1, <1>2, EmptyIsSeq, SeqDomain
<1>4. HEAD' = c /\ HEAD = commits[Len(commits)]
  BY <1>2 DEF HEAD, Last
<1>5. commits'[Len(commits') - 1] = HEAD /\ Len(commits') > 1
  BY <1>1, <1>2, <1>4
<1>6. ASSUME CommitOK(c) PROVE CommitsOK'
  <2>1. \A n \in DOMAIN commits' : commits'[n] = c \/ (n \in DOMAIN commits /\ commits'[n] = commits[n])
    BY <1>1, <1>2, <1>3
  <2>2. \A n \in DOMAIN commits' : CommitOK(commits'[n])
    BY <1>6, <2>1 DEF CommitsOK
  <2> QED
    BY <1>2, <1>3, <2>2 DEF CommitsOK, CommitOK, RowsOK
<1> QED
  BY <1>4, <1>5, <1>6

\* The commits at the end are as good as the others.
LEMMA HeadIn ==
  ASSUME CommitsOK
  PROVE  /\ Len(commits) \in DOMAIN commits /\ HEAD = commits[Len(commits)]
         /\ Len(commits) > 1 => Len(commits) - 1 \in DOMAIN commits
<1>1. IsSeq(commits) /\ commits # <<>> /\ Len(commits) \in Nat /\ Len(commits) \in 1 .. Len(commits)
      /\ DOMAIN commits = 1 .. Len(commits)
  BY EmptyDomain, SeqDomain DEF CommitsOK
<1> QED
  BY <1>1 DEF HEAD, Last

\* A rollback leaves commits and a file to go by; where git leaves the file alone
\* it is the same; with reset --hard the branch does not move, and the tree has
\* all of it.
LEMMA RolledBack ==
  ASSUME WatchTyped, GitRollback, wspec' = wspec
  PROVE  /\ RowsOK(experiments') /\ CommitsOK'
         /\ LeftAlone => experiments' = experiments
         /\ wspec.onRegression = "rollback" => commits' = commits /\ HEAD.content \subseteq tree'
<1>t. RowsOK(experiments) /\ CommitsOK /\ RowsOK(<<>>)
  BY EmptyRowsOK DEF WatchTyped
<1>h. CommitOK(HEAD) /\ (Len(commits) > 1 => CommitOK(commits[Len(commits) - 1]))
  BY <1>t, HeadIn DEF CommitsOK
<1>1. CASE UNCHANGED diskVars /\ wspec.onRegression # "rollback"
  <2>1. experiments' = experiments /\ commits' = commits
    BY <1>1 DEF diskVars, gitVars
  <2> QED
    BY <1>1, <1>t, <2>1 DEF CommitsOK, CommitOK, RowsOK
<1>2. CASE wspec.onRegression = "rollback" /\ ResetTo(HEAD) /\ UNCHANGED commits
  <2>1. /\ experiments' \in FileAfterReset(HEAD.rows, experiments, <<>>)
        /\ HEAD.content \subseteq tree' /\ commits' = commits
    BY <1>2 DEF ResetTo
  <2>2. experiments' \in {experiments, HEAD.rows, <<>>} /\ (wspec.ignored => experiments' = experiments)
    BY <1>h, <2>1 DEF FileAfterReset, CommitOK
  <2>3. RowsOK(experiments')
    BY <1>t, <1>h, <2>2 DEF CommitOK
  <2>4. CommitsOK'
    BY <1>t, <2>1 DEF CommitsOK, CommitOK, RowsOK
  <2> QED
    BY <1>2, <2>1, <2>2, <2>3, <2>4 DEF LeftAlone
<1>3. CASE wspec.onRegression = "revert" /\ Revert
  <2> DEFINE before == commits[Len(commits) - 1]
             c == [before EXCEPT !.by = "revert"]
  <2>1. /\ Len(commits) > 1 /\ commits' = Append(commits, c)
        /\ experiments' = IF HEAD.rows # before.rows THEN before.rows ELSE experiments
    BY <1>3 DEF Revert
  <2> HIDE DEF before
  <2>b. CommitOK(before)
    BY <1>h, <2>1 DEF before
  <2>2. c.rows = before.rows /\ DOMAIN c = DOMAIN before
    BY <2>b DEF CommitOK
  <2> HIDE DEF c
  <2>3. CommitOK(c) /\ (wspec.ignored => HEAD.rows = before.rows)
    BY <1>h, <2>b, <2>2 DEF CommitOK
  <2>4. CommitsOK'
    BY <1>t, <2>1, <2>3, CommitAdded
  <2> QED
    BY <1>3, <1>t, <2>1, <2>b, <2>3, <2>4 DEF LeftAlone, CommitOK
<1> QED
  BY <1>1, <1>2, <1>3 DEF GitRollback

LEMMA InitWatch == WatchInit => WatchInv
<1> SUFFICES ASSUME WatchInit PROVE WatchInv
  OBVIOUS
<1> DEFINE first == [content |-> {}, by |-> "user", rows |-> <<>>, stones |-> {}]
           second == [content |-> {1}, by |-> "user", rows |-> <<>>, stones |-> {}]
<1>1. /\ wpc = "start" /\ bestIter = 0 /\ plateau = 0 /\ cost = 0 /\ iter = NoIter
      /\ iterations = <<>> /\ experiments = <<>> /\ lastGood = {}
  BY Zenon DEF WatchInit
<1>2. commits = <<first, second>>
  BY Zenon DEF WatchInit
<1>3. iter \in Iterations /\ ~iter.commit
  BY <1>1, WatchBounds DEF NoIter, Iterations, Metrics, None
<1>4. CommitsOK
  <2>1. CommitOK(first) /\ CommitOK(second)
    BY EmptyRowsOK DEF CommitOK
  <2> HIDE DEF first, second
  <2>2. commits \in Seq({first, second}) /\ Len(commits) = 2
    BY <1>2
  <2>3. IsSeq(commits) /\ commits # <<>> /\ \A n \in DOMAIN commits : commits[n] \in {first, second}
    BY <2>2, EmptyIsSeq DEF IsSeq
  <2> QED
    BY <2>1, <2>3 DEF CommitsOK
<1>5. WatchTyped
  BY <1>1, <1>3, <1>4, EmptyIsSeq, EmptyRowsOK DEF WatchTyped
<1> QED
  BY <1>1, <1>5 DEF WatchInv, Fresh, InStep, GoodHead, AwaitsRow

\* An iteration that begins, its agent, its runs and what is restored on the way
\* to the judgement.
LEMMA GoesOn ==
  ASSUME WatchInv, UNCHANGED <<wspec, best, bestIter, plateau, iterations, lastGood>>,
         RowsOK(experiments'), CommitsOK', LeftAlone => experiments' = experiments,
         wpc \in {"top", "agent", "invalid", "frozen", "target", "measure"},
         wpc' \in {"agent", "invalid", "frozen", "target", "measure", "judge"},
         wpc' \in {"frozen", "target", "measure", "judge"} => iter'.edit # "invalid",
         iter' \in Iterations, ~iter.commit \/ wpc = "top" => ~iter'.commit,
         cost' \in Nat,
         cost' = cost \/ (wpc' = "judge" /\ cost' = cost + iter'.cost),
         wspec.onRegression = "rollback" =>
           \A content : Has(content, HEAD.content) => Has(content, HEAD.content)'
  PROVE  WatchInv'
<1>1. LeftAlone => Rebuilt' = Rebuilt
  BY DEF Rebuilt
<1>2. cost \in Nat /\ iter'.cost \in Nat /\ Rebuilt.cost \in Nat
  BY IterationSteps DEF WatchInv, WatchTyped, Rebuilt, RowsOK
<1>3. WatchTyped'
  BY DEF WatchInv, WatchTyped, RowsOK
<1>4. Fresh'
  BY DEF Fresh
<1>5. InStep'
  BY <1>1, <1>2 DEF WatchInv, InStep, LeftAlone
<1>6. GoodHead'
  BY DEF WatchInv, GoodHead, AwaitsRow
<1> QED
  BY <1>3, <1>4, <1>5, <1>6 DEF WatchInv

\* What does not touch the branch and the tree leaves them holding what they held.
LEMMA StillHas ==
  ASSUME CommitsOK, commits' = commits, HEAD.content \subseteq tree => HEAD.content \subseteq tree',
         merged \subseteq merged', orphans \subseteq orphans'
  PROVE  \A content : Has(content, HEAD.content) => Has(content, HEAD.content)'
<1>1. HEAD' = HEAD
  BY DEF HEAD
<1> QED
  BY <1>1 DEF Has

\* A regression, or a plan that does not load.
LEMMA Regresses ==
  ASSUME WatchInv, GitRollback, UNCHANGED <<wspec, best, bestIter, iterations, iter, histVars>>,
         wpc \in {"invalid", "judge"}, wpc' = "record", plateau' = plateau + 1, cost' = cost
  PROVE  WatchInv'
<1>1. /\ RowsOK(experiments') /\ CommitsOK' /\ CommitsOK
      /\ LeftAlone => experiments' = experiments
      /\ wspec.onRegression = "rollback" => commits' = commits /\ HEAD.content \subseteq tree'
  BY RolledBack DEF WatchInv, WatchTyped
<1>c. plateau \in Nat /\ cost \in Nat /\ iter.cost \in Nat /\ Rebuilt.cost \in Nat
  BY IterationSteps DEF WatchInv, WatchTyped, Rebuilt, RowsOK
<1>2. plateau' \in Nat /\ plateau' # 0
  BY <1>c
<1>3. LeftAlone => Rebuilt' = Rebuilt
  BY <1>1 DEF Rebuilt
<1>4. WatchTyped'
  BY <1>1, <1>c, <1>2 DEF WatchInv, WatchTyped, RowsOK
<1>5. Fresh'
  BY DEF Fresh
<1>6. InStep'
  BY <1>c, <1>2, <1>3 DEF WatchInv, InStep, LeftAlone
<1>7. GoodHead'
  <2> SUFFICES ASSUME wspec.onRegression = "rollback" PROVE GoodHead'
    BY DEF GoodHead
  <2>1. ~iter.commit /\ \A content \in lastGood : Has(content, HEAD.content)
    BY DEF WatchInv, GoodHead, AwaitsRow
  <2>2. lastGood' = lastGood /\ merged' = merged /\ orphans' = orphans
    BY DEF histVars
  <2>3. \A content \in lastGood : Has(content, HEAD.content)'
    BY <1>1, <2>1, <2>2, StillHas
  <2> QED
    BY <2>1, <2>2, <2>3 DEF GoodHead, AwaitsRow
<1> QED
  BY <1>4, <1>5, <1>6, <1>7 DEF WatchInv

\* The row closes the iteration.
LEMMA RecordKeeps == ASSUME WatchInv, Record PROVE WatchInv'
<1>1. /\ wpc = "record" /\ wpc' \in {"top", "done"}
      /\ iterations' = Append(iterations, Outcome) /\ experiments' = Append(experiments, Outcome)
      /\ lastGood' = IF ~Outcome.improved THEN lastGood ELSE IF iter.commit THEN {tree} ELSE {}
      /\ wspec' = wspec /\ best' = best /\ bestIter' = bestIter /\ plateau' = plateau /\ cost' = cost
      /\ iter' = iter /\ commits' = commits /\ tree' = tree /\ merged' = merged /\ orphans' = orphans
  BY DEF Record, stateVars, gitVars
<1>2. /\ Outcome.number = Number /\ Outcome.best = best /\ Outcome.cost = iter.cost
      /\ Outcome.improved <=> iter.edit # "invalid" /\ plateau = 0
  BY DEF Outcome, Row
<1>3. /\ bestIter \in Nat /\ plateau \in Nat /\ cost \in Nat /\ iter \in Iterations /\ iter.cost \in Nat
      /\ IsSeq(iterations) /\ RowsOK(experiments) /\ CommitsOK
      /\ Rebuilt.plateau \in Nat /\ Rebuilt.cost \in Nat /\ Rebuilt.bestIter \in Nat
  BY IterationSteps DEF WatchInv, WatchTyped, Rebuilt, RowsOK
<1>4. /\ Number \in Nat /\ Len(iterations) \in Nat
      /\ IsSeq(iterations') /\ Len(iterations') = Len(iterations) + 1
  BY <1>1, <1>3, SeqDomain, AppendSeq DEF Number
<1>5. RowsOK(experiments') /\ Rebuilt' = Remembered(Rebuilt, Outcome)
  <2> HIDE DEF Outcome
  <2> QED
    BY <1>1, <1>2, <1>3, <1>4, RowsOKGrows DEF Rebuilt
<1>6. /\ Rebuilt'.best = best
      /\ Rebuilt'.bestIter = IF Outcome.improved THEN Number ELSE Rebuilt.bestIter
      /\ Rebuilt'.plateau = IF Outcome.improved THEN 0 ELSE Rebuilt.plateau + 1
      /\ Rebuilt'.cost = Rebuilt.cost + iter.cost
  BY <1>2, <1>5 DEF Remembered
<1>7. WatchTyped'
  <2>1. CommitsOK'
    BY <1>1, <1>3 DEF CommitsOK, CommitOK, RowsOK
  <2> QED
    BY <1>1, <1>3, <1>4, <1>5, <2>1 DEF WatchTyped, RowsOK
<1>8. Fresh'
  BY <1>1 DEF Fresh
<1>9. InStep'
  <2>1. iter.edit = "invalid" => plateau # 0
    BY <1>1 DEF WatchInv, InStep
  <2>2. LeftAlone => /\ cost <= Rebuilt.cost + iter.cost
                     /\ IF plateau = 0 THEN bestIter = Number
                        ELSE bestIter = Rebuilt.bestIter /\ plateau = Rebuilt.plateau + 1
    BY <1>1 DEF WatchInv, InStep
  <2>3. LeftAlone => bestIter = Rebuilt'.bestIter /\ plateau = Rebuilt'.plateau /\ cost <= Rebuilt'.cost
    BY <1>2, <1>6, <2>1, <2>2
  <2>4. LeftAlone' <=> LeftAlone
    BY <1>1 DEF LeftAlone
  <2> QED
    BY <1>1, <1>6, <2>3, <2>4 DEF InStep
<1>10. GoodHead'
  <2> SUFFICES ASSUME wspec.onRegression = "rollback", NEW content \in lastGood'
               PROVE  Has(content, HEAD.content)'
    BY <1>1 DEF GoodHead, AwaitsRow
  <2>1. HEAD' = HEAD
    BY <1>1 DEF HEAD
  <2>2. AwaitsRow => plateau = 0 /\ HEAD.content = tree
    BY <1>1 DEF WatchInv, GoodHead
  <2>3. CASE Outcome.improved
    <3>1. content = tree /\ HEAD.content = tree
      BY <1>1, <2>2, <2>3 DEF AwaitsRow
    <3> QED
      BY <1>1, <2>1, <3>1 DEF Has
  <2>4. CASE ~Outcome.improved
    <3>1. content \in lastGood /\ ~AwaitsRow
      BY <1>1, <1>2, <2>2, <2>4 DEF WatchInv, InStep
    <3> QED
      BY <1>1, <2>1, <3>1 DEF WatchInv, GoodHead, Has
  <2> QED
    BY <2>3, <2>4
<1> QED
  BY <1>7, <1>8, <1>9, <1>10 DEF WatchInv

\* An improvement that is committed, or is not.
LEMMA KeepKeeps == ASSUME WatchInv, Keep PROVE WatchInv'
<1>1. /\ wpc = "judge" /\ wpc' = "record" /\ plateau' = 0 /\ bestIter' = Number
      /\ wspec' = wspec /\ cost' = cost /\ iterations' = iterations /\ tree' = tree
      /\ experiments' = experiments /\ merged' = merged /\ orphans' = orphans /\ lastGood' = lastGood
  BY DEF Keep, histVars
<1>2. \/ /\ commits' = Append(commits, Committed) /\ iter' = [iter EXCEPT !.commit = TRUE]
      \/ commits' = commits /\ iter' = iter
  BY DEF Keep, GitCommit
<1>3. /\ iter \in Iterations /\ iter.edit # "invalid"
      /\ iter' \in Iterations /\ iter'.cost = iter.cost /\ iter'.edit = iter.edit
      /\ commits' = Append(commits, Committed) => iter'.commit
  <2>1. iter \in Iterations /\ iter.edit # "invalid"
    BY <1>1 DEF WatchInv, WatchTyped, InStep
  <2>2. CASE commits' = Append(commits, Committed) /\ iter' = [iter EXCEPT !.commit = TRUE]
    <3> DEFINE done == [iter EXCEPT !.commit = TRUE]
    <3>1. done \in Iterations /\ done.commit /\ done.cost = iter.cost /\ done.edit = iter.edit
      BY <2>1, IterationSteps
    <3>2. iter' = done
      BY <2>2
    <3> HIDE DEF done
    <3> QED
      BY <2>1, <3>1, <3>2
  <2>3. CASE commits' = commits /\ iter' = iter
    <3>1. commits # Append(commits, Committed)
      <4>1. Len(Append(commits, Committed)) = Len(commits) + 1 /\ Len(commits) \in Nat
        BY AppendSeq, SeqDomain DEF WatchInv, WatchTyped, CommitsOK
      <4> QED
        BY <4>1
    <3> QED
      BY <2>1, <2>3, <3>1
  <2> QED
    BY <1>2, <2>2, <2>3
<1>4. /\ RowsOK(experiments) /\ CommitsOK /\ cost \in Nat /\ iter.cost \in Nat
      /\ Number \in Nat /\ Rebuilt' = Rebuilt /\ Number' = Number /\ IsSeq(iterations)
  <2>1. RowsOK(experiments) /\ CommitsOK /\ cost \in Nat /\ IsSeq(iterations)
    BY DEF WatchInv, WatchTyped
  <2>2. Len(iterations) \in Nat
    BY <2>1, SeqDomain
  <2>3. iter.cost \in Nat
    BY <1>3, IterationSteps
  <2>4. Rebuilt' = Rebuilt /\ Number' = Number
    BY <1>1 DEF Rebuilt, Number
  <2> QED
    BY <2>1, <2>2, <2>3, <2>4 DEF Number
<1>5. Committed.content = tree /\ CommitOK(Committed)
  BY <1>4, EmptyRowsOK DEF Committed, CommitOK
<1>6. commits' = Append(commits, Committed) =>
        CommitsOK' /\ HEAD'.content = tree /\ Before' = HEAD.content
  BY <1>1, <1>4, <1>5, CommitAdded DEF Before
<1>7. commits' = commits => CommitsOK' /\ HEAD' = HEAD /\ iter' = iter
  <2>1. commits # Append(commits, Committed)
    <3>1. Len(Append(commits, Committed)) = Len(commits) + 1 /\ Len(commits) \in Nat
      BY <1>4, AppendSeq, SeqDomain DEF CommitsOK
    <3> QED
      BY <3>1
  <2> HIDE DEF Committed
  <2> QED
    BY <1>1, <1>2, <1>4, <2>1 DEF CommitsOK, CommitOK, RowsOK, HEAD
<1>8. WatchTyped'
  <2> HIDE DEF Committed
  <2> QED
    BY <1>1, <1>2, <1>3, <1>4, <1>6, <1>7 DEF WatchTyped, RowsOK
<1>9. Fresh'
  BY <1>1 DEF Fresh
<1>10. InStep'
  <2>1. LeftAlone => cost <= Rebuilt.cost + iter.cost
    BY <1>1 DEF WatchInv, InStep
  <2>2. LeftAlone' <=> LeftAlone
    BY <1>1 DEF LeftAlone
  <2> QED
    BY <1>1, <1>3, <1>4, <2>1, <2>2 DEF InStep
<1>11. GoodHead'
  <2> SUFFICES ASSUME wspec.onRegression = "rollback" PROVE GoodHead'
    BY <1>1 DEF GoodHead
  <2>1. ~iter.commit /\ \A content \in lastGood : Has(content, HEAD.content)
    BY <1>1 DEF WatchInv, GoodHead, AwaitsRow
  <2>2. CASE commits' = Append(commits, Committed)
    <3>1. \A content \in lastGood' : Has(content, Before)'
      BY <1>1, <1>6, <2>1, <2>2 DEF Has
    <3>2. AwaitsRow'
      BY <1>1, <1>3, <2>2 DEF AwaitsRow
    <3> QED
      BY <1>1, <1>6, <2>2, <3>1, <3>2 DEF GoodHead
  <2>3. CASE commits' = commits
    <3>1. ~AwaitsRow'
      BY <1>7, <2>1, <2>3 DEF AwaitsRow
    <3>2. \A content \in lastGood' : Has(content, HEAD.content)'
      BY <1>1, <1>7, <2>1, <2>3 DEF Has
    <3> QED
      BY <1>1, <3>1, <3>2 DEF GoodHead
  <2> QED
    BY <1>2, <2>2, <2>3
<1> QED
  BY <1>8, <1>9, <1>10, <1>11 DEF WatchInv

LEMMA NextWatch == WatchInv /\ [WatchNext]_watchVars => WatchInv'
<1> SUFFICES ASSUME WatchInv, [WatchNext]_watchVars PROVE WatchInv'
  OBVIOUS
<1>t. /\ bestIter \in Nat /\ plateau \in Nat /\ cost \in Nat /\ iter \in Iterations
      /\ IsSeq(iterations) /\ RowsOK(experiments) /\ CommitsOK /\ iter.cost \in Nat
      /\ Rebuilt.bestIter \in Nat /\ Rebuilt.plateau \in Nat /\ Rebuilt.cost \in Nat
  BY IterationSteps DEF WatchInv, WatchTyped, Rebuilt, RowsOK
<1>n. NoIter \in Iterations /\ ~NoIter.commit /\ NoIter.edit = "none"
  BY WatchBounds DEF NoIter, Iterations, Metrics, None
<1>1. CASE ApplyStone
  <2>1. /\ wpc = "start" /\ wpc' = "top" /\ iterations' = iterations /\ experiments' = experiments
        /\ bestIter' = bestIter /\ plateau' = plateau /\ cost' = cost /\ iter' = iter
        /\ commits' = commits /\ lastGood' = lastGood /\ wspec' = wspec
    BY <1>1 DEF ApplyStone, histVars
  <2>2. /\ iterations = <<>> /\ experiments = <<>> /\ lastGood = {}
        /\ bestIter = 0 /\ plateau = 0 /\ cost = 0
    BY <2>1 DEF WatchInv, Fresh
  <2>3. Rebuilt' = Forgotten
    BY <2>1, <2>2, RebuiltEmpty DEF Rebuilt
  <2>4. WatchTyped'
    BY <1>t, <2>1 DEF WatchTyped, CommitsOK, CommitOK, RowsOK
  <2>5. Fresh' /\ InStep' /\ GoodHead'
    BY <2>1, <2>2, <2>3 DEF Fresh, InStep, Forgotten, Baseline, GoodHead, AwaitsRow
  <2> QED
    BY <2>4, <2>5 DEF WatchInv
<1>2. CASE Begin
  <2>1. /\ wpc \in {"start", "resume"} /\ wpc' = "top" /\ iterations' = experiments
        /\ best' = Rebuilt.best /\ bestIter' = Rebuilt.bestIter
        /\ plateau' = Rebuilt.plateau /\ cost' = Rebuilt.cost
        /\ experiments' = experiments /\ commits' = commits /\ iter' = iter /\ tree' = tree
        /\ lastGood' = lastGood /\ merged' = merged /\ orphans' = orphans /\ wspec' = wspec
    BY <1>2 DEF Begin, diskVars, gitVars, histVars
  <2>2. Rebuilt' = Rebuilt
    BY <2>1 DEF Rebuilt
  <2>3. WatchTyped'
    BY <1>t, <2>1 DEF WatchTyped, CommitsOK, CommitOK, RowsOK
  <2>4. Fresh' /\ InStep'
    BY <1>t, <2>1, <2>2 DEF Fresh, InStep
  <2>5. GoodHead'
    <3>1. HEAD' = HEAD
      BY <2>1 DEF HEAD
    <3> QED
      BY <2>1, <3>1 DEF WatchInv, GoodHead, AwaitsRow, Has
  <2> QED
    BY <2>3, <2>4, <2>5 DEF WatchInv
<1>3. CASE StopLoop
  <2>1. /\ wpc = "top" /\ wpc' = "done" /\ experiments' = experiments /\ iterations' = iterations
        /\ bestIter' = bestIter /\ plateau' = plateau /\ cost' = cost /\ iter' = iter
        /\ commits' = commits /\ tree' = tree /\ lastGood' = lastGood
        /\ merged' = merged /\ orphans' = orphans /\ wspec' = wspec
    BY <1>3 DEF StopLoop, stateVars, diskVars, gitVars, histVars
  <2>2. WatchTyped'
    BY <1>t, <2>1 DEF WatchTyped, CommitsOK, CommitOK, RowsOK
  <2>3. Fresh' /\ InStep'
    BY <2>1 DEF Fresh, InStep
  <2>4. GoodHead'
    <3>1. HEAD' = HEAD
      BY <2>1 DEF HEAD
    <3> QED
      BY <2>1, <3>1 DEF WatchInv, GoodHead, AwaitsRow, Has
  <2> QED
    BY <2>2, <2>3, <2>4 DEF WatchInv
<1>4. CASE StartIteration
  <2>1. /\ wpc = "top" /\ wpc' \in {"agent", "target"} /\ iter' = NoIter
        /\ UNCHANGED <<wspec, best, bestIter, plateau, iterations, lastGood>>
        /\ experiments' = experiments /\ commits' = commits /\ cost' = cost /\ tree' = tree
        /\ merged' = merged /\ orphans' = orphans
    BY <1>4 DEF StartIteration, stateVars, diskVars, gitVars, histVars
  <2>2. CommitsOK' /\ RowsOK(experiments')
    BY <1>t, <2>1 DEF CommitsOK, CommitOK, RowsOK
  <2>3. \A content : Has(content, HEAD.content) => Has(content, HEAD.content)'
    BY <1>t, <2>1, StillHas
  <2> QED
    BY <1>t, <1>n, <2>1, <2>2, <2>3, GoesOn
<1>5. CASE ImproveAgent
  <2>1. /\ wpc = "agent" /\ wpc' \in {"invalid", "frozen"}
        /\ UNCHANGED <<wspec, best, bestIter, plateau, iterations, lastGood>>
        /\ experiments' = experiments /\ commits' = commits /\ cost' = cost
        /\ tree \subseteq tree' /\ merged' = merged /\ orphans' = orphans
    BY <1>5 DEF ImproveAgent, Edit, stateVars
  <2>2. PICK r \in Results, e \in {"none", "good", "invalid", "frozen"} :
          /\ iter' = [iter EXCEPT !.cost = r.cost, !.steps = r.steps, !.edit = e]
          /\ wpc' = IF e = "invalid" THEN "invalid" ELSE "frozen"
    BY <1>5 DEF ImproveAgent
  <2>3. iter' \in Iterations /\ iter'.commit = iter.commit /\ iter'.edit = e
    <3> DEFINE agent == [iter EXCEPT !.cost = r.cost, !.steps = r.steps, !.edit = e]
    <3>1. agent \in Iterations /\ agent.commit = iter.commit /\ agent.edit = e
      <4>1. r.cost \in Nat /\ r.steps \in Nat
        BY WatchBounds
      <4> QED
        BY <1>t, <4>1 DEF Iterations
    <3>2. iter' = agent
      BY <2>2
    <3> HIDE DEF agent
    <3> QED
      BY <3>1, <3>2
  <2>4. CommitsOK' /\ RowsOK(experiments')
    BY <1>t, <2>1 DEF CommitsOK, CommitOK, RowsOK
  <2>5. \A content : Has(content, HEAD.content) => Has(content, HEAD.content)'
    BY <1>t, <2>1, StillHas
  <2> QED
    BY <1>t, <2>1, <2>2, <2>3, <2>4, <2>5, GoesOn
<1>6. CASE Invalid
  BY <1>6, Regresses DEF Invalid
<1>7. CASE CheckFrozen
  <2>1. /\ wpc = "frozen" /\ wpc' = "target"
        /\ UNCHANGED <<wspec, best, bestIter, plateau, iterations, lastGood, iter, merged, orphans>>
        /\ cost' = cost /\ (GitRollback \/ UNCHANGED diskVars)
    BY <1>7 DEF CheckFrozen, stateVars, histVars
  <2>2. /\ RowsOK(experiments') /\ CommitsOK' /\ (LeftAlone => experiments' = experiments)
        /\ wspec.onRegression = "rollback" =>
             commits' = commits /\ (HEAD.content \subseteq tree => HEAD.content \subseteq tree')
    <3>1. CASE GitRollback
      BY <2>1, <3>1, RolledBack DEF WatchInv
    <3>2. CASE UNCHANGED diskVars
      <4>1. experiments' = experiments /\ commits' = commits /\ tree' = tree
        BY <3>2 DEF diskVars, gitVars
      <4> QED
        BY <1>t, <2>1, <4>1 DEF CommitsOK, CommitOK, RowsOK
    <3> QED
      BY <2>1, <3>1, <3>2
  <2>3. wspec.onRegression = "rollback" =>
          \A content : Has(content, HEAD.content) => Has(content, HEAD.content)'
    BY <1>t, <2>1, <2>2, StillHas
  <2>4. iter.edit # "invalid"
    BY <2>1 DEF WatchInv, InStep
  <2> QED
    BY <1>t, <2>1, <2>2, <2>3, <2>4, GoesOn
<1>8. CASE RunTasks
  <2>1. /\ wpc = "target" /\ wpc' = "measure"
        /\ UNCHANGED <<wspec, best, bestIter, plateau, iterations, lastGood, iter, orphans>>
        /\ experiments' = experiments /\ cost' = cost
    BY <1>8 DEF RunTasks, stateVars
  <2>2. /\ CommitsOK'
        /\ \A content : Has(content, HEAD.content) => Has(content, HEAD.content)'
    <3>1. CASE commits' = commits /\ merged' = merged /\ tree \subseteq tree'
      <4>1. CommitsOK'
        BY <1>t, <2>1, <3>1 DEF CommitsOK, CommitOK, RowsOK
      <4> QED
        BY <1>t, <2>1, <3>1, <4>1, StillHas
    <3>2. CASE /\ Edit /\ merged' = merged \cup {edits'}
               /\ commits' = Append(commits, [HEAD EXCEPT !.content = @ \cup {edits'}, !.by = "merge"])
      <4> DEFINE c == [HEAD EXCEPT !.content = @ \cup {edits'}, !.by = "merge"]
      <4>1. CommitOK(HEAD)
        BY <1>t, HeadIn DEF CommitsOK
      <4>2. CommitOK(c) /\ c.content = HEAD.content \cup {edits'}
        BY <4>1 DEF CommitOK
      <4> HIDE DEF c
      <4>3. CommitsOK' /\ HEAD' = c
        BY <1>t, <2>1, <3>2, <4>2, CommitAdded DEF c
      <4>4. tree' = tree \cup {edits'}
        BY <3>2 DEF Edit
      <4> QED
        BY <2>1, <3>2, <4>2, <4>3, <4>4 DEF Has
    <3> QED
      BY <1>8, <3>1, <3>2 DEF RunTasks, Edit
  <2>3. iter.edit # "invalid"
    BY <2>1 DEF WatchInv, InStep
  <2> QED
    BY <1>t, <2>1, <2>2, <2>3, GoesOn
<1>9. CASE RunTarget
  <2>1. /\ wpc = "measure" /\ wpc' = "judge"
        /\ UNCHANGED <<wspec, best, bestIter, plateau, iterations, lastGood, merged, orphans>>
        /\ experiments' = experiments /\ commits' = commits /\ tree' = tree
    BY <1>9 DEF RunTarget, diskVars, gitVars, histVars
  <2>2. PICK r \in Results :
          /\ iter' = [iter EXCEPT !.cost = @ + r.cost, !.steps = @ + r.steps, !.metric = r.metric]
          /\ cost' = cost + iter'.cost
    BY <1>9 DEF RunTarget
  <2>3. iter' \in Iterations /\ iter'.commit = iter.commit /\ iter'.edit = iter.edit
    <3> DEFINE target == [iter EXCEPT !.cost = @ + r.cost, !.steps = @ + r.steps, !.metric = r.metric]
    <3>1. target \in Iterations /\ target.commit = iter.commit /\ target.edit = iter.edit
      BY <1>t, IterationSteps
    <3>2. iter' = target
      BY <2>2
    <3> HIDE DEF target
    <3> QED
      BY <3>1, <3>2
  <2>4. CommitsOK' /\ RowsOK(experiments')
    BY <1>t, <2>1 DEF CommitsOK, CommitOK, RowsOK
  <2>5. \A content : Has(content, HEAD.content) => Has(content, HEAD.content)'
    BY <1>t, <2>1, StillHas
  <2>6. cost' = cost + iter'.cost /\ cost' \in Nat
    <3>1. iter'.cost \in Nat
      BY <2>3, IterationSteps
    <3> QED
      BY <1>t, <2>2, <3>1
  <2>7. iter.edit # "invalid"
    BY <2>1 DEF WatchInv, InStep
  <2> QED
    BY <1>t, <2>1, <2>3, <2>4, <2>5, <2>6, <2>7, GoesOn
<1>10. CASE Keep
  BY <1>10, KeepKeeps
<1>11. CASE Regress
  BY <1>11, Regresses DEF Regress
<1>12. CASE Record
  BY <1>12, RecordKeeps
<1>13. CASE Interrupt
  <2>1. /\ wpc \notin {"start", "resume", "done"} /\ wpc' = "done"
        /\ experiments' = experiments /\ iterations' = iterations
        /\ bestIter' = bestIter /\ plateau' = plateau /\ cost' = cost /\ iter' = iter
        /\ commits' = commits /\ tree' = tree /\ lastGood' = lastGood
        /\ merged' = merged /\ wspec' = wspec
        /\ orphans' = IF AwaitsRow THEN orphans \cup (HEAD.content \ Before) ELSE orphans
    BY <1>13 DEF Interrupt, stateVars, diskVars, gitVars, AwaitsRow, Before
  <2>2. WatchTyped'
    BY <1>t, <2>1 DEF WatchTyped, CommitsOK, CommitOK, RowsOK
  <2>3. Fresh' /\ InStep'
    BY <2>1 DEF Fresh, InStep
  <2>4. GoodHead'
    <3> SUFFICES ASSUME wspec.onRegression = "rollback", NEW content \in lastGood
                 PROVE  Has(content, HEAD.content)'
      BY <2>1 DEF GoodHead, AwaitsRow
    <3>1. HEAD' = HEAD
      BY <2>1 DEF HEAD
    <3>2. CASE AwaitsRow
      <4>1. HEAD.content = tree /\ Has(content, Before)
        BY <3>2 DEF WatchInv, GoodHead
      <4> QED
        BY <2>1, <3>1, <3>2, <4>1 DEF Has
    <3>3. CASE ~AwaitsRow
      BY <2>1, <3>1, <3>3 DEF WatchInv, GoodHead, Has
    <3> QED
      BY <3>2, <3>3
  <2> QED
    BY <2>2, <2>3, <2>4 DEF WatchInv
<1>14. CASE Restart
  <2>1. /\ wpc = "done" /\ iter' = NoIter /\ iterations' = <<>>
        /\ bestIter' = 0 /\ plateau' = 0 /\ cost' = 0
        /\ tree' = tree /\ merged' = merged /\ orphans' = orphans /\ wspec' = wspec
    BY <1>14 DEF Restart
  <2>2. CASE wpc' = "resume" /\ UNCHANGED <<experiments, commits, lastGood>>
    <3>1. WatchTyped'
      BY <1>t, <1>n, <2>1, <2>2, EmptyIsSeq DEF WatchTyped, CommitsOK, CommitOK, RowsOK
    <3>2. Fresh' /\ InStep'
      BY <2>1, <2>2 DEF Fresh, InStep
    <3>3. GoodHead'
      <4>1. HEAD' = HEAD
        BY <2>2 DEF HEAD
      <4> QED
        BY <2>1, <2>2, <4>1 DEF WatchInv, GoodHead, AwaitsRow, Has
    <3> QED
      BY <3>1, <3>2, <3>3 DEF WatchInv
  <2>3. CASE /\ wpc' = "start" /\ experiments' = <<>> /\ lastGood' = {}
             /\ commits' = [n \in DOMAIN commits |-> [commits[n] EXCEPT !.rows = <<>>]]
    <3>1. CommitsOK'
      <4> DEFINE of(n) == [commits[n] EXCEPT !.rows = <<>>]
      <4>1. \A n \in DOMAIN commits : CommitOK(of(n))
        <5> SUFFICES ASSUME NEW n \in DOMAIN commits PROVE CommitOK(of(n))
          OBVIOUS
        <5>1. CommitOK(commits[n])
          BY <1>t DEF CommitsOK
        <5>2. DOMAIN of(n) = DOMAIN commits[n] /\ of(n).rows = <<>>
          BY <5>1 DEF CommitOK
        <5> HIDE DEF of
        <5> QED
          BY <5>1, <5>2, EmptyRowsOK DEF CommitOK
      <4>2. commits' = [n \in DOMAIN commits |-> of(n)]
        BY <2>3
      <4>3. IsSeq(commits) /\ DOMAIN commits = 1 .. Len(commits) /\ Len(commits) \in Nat \ {0}
        BY <1>t, SeqDomain, EmptyDomain DEF CommitsOK
      <4> HIDE DEF of
      <4>4. /\ IsSeq(commits') /\ commits' # <<>>
            /\ \A n \in DOMAIN commits' : commits'[n] = of(n) /\ n \in DOMAIN commits
        BY <4>2, <4>3, DomainIsSeq
      <4> QED
        BY <2>1, <4>1, <4>4 DEF CommitsOK, CommitOK, RowsOK
    <3>2. WatchTyped'
      BY <1>n, <2>1, <2>3, <3>1, EmptyIsSeq, EmptyRowsOK DEF WatchTyped, RowsOK
    <3>3. Fresh' /\ InStep' /\ GoodHead'
      BY <2>1, <2>3 DEF Fresh, InStep, GoodHead, AwaitsRow
    <3> QED
      BY <3>2, <3>3 DEF WatchInv
  <2> QED
    BY <1>14, <2>2, <2>3 DEF Restart
<1>15. CASE UNCHANGED watchVars
  <2>1. /\ wpc' = wpc /\ experiments' = experiments /\ iterations' = iterations /\ best' = best
        /\ bestIter' = bestIter /\ plateau' = plateau /\ cost' = cost /\ iter' = iter /\ tree' = tree
        /\ commits' = commits /\ lastGood' = lastGood /\ merged' = merged /\ orphans' = orphans
        /\ wspec' = wspec
    BY <1>15 DEF watchVars, stateVars, diskVars, gitVars, histVars
  <2>2. /\ Rebuilt' = Rebuilt /\ HEAD' = HEAD /\ Number' = Number /\ (Baseline' <=> Baseline)
        /\ Before' = Before /\ (AwaitsRow' <=> AwaitsRow) /\ (LeftAlone' <=> LeftAlone)
    BY <2>1 DEF Rebuilt, HEAD, Number, Baseline, Before, AwaitsRow, LeftAlone
  <2>3. WatchTyped'
    BY <1>t, <2>1 DEF WatchTyped, CommitsOK, CommitOK, RowsOK
  <2>4. Fresh'
    BY <2>1 DEF WatchInv, Fresh
  <2>5. InStep'
    BY <2>1, <2>2 DEF WatchInv, InStep
  <2>6. GoodHead'
    BY <2>1, <2>2 DEF WatchInv, GoodHead, Has
  <2> QED
    BY <2>3, <2>4, <2>5, <2>6 DEF WatchInv
<1> QED
  BY <1>1, <1>2, <1>3, <1>4, <1>5, <1>6, <1>7, <1>8, <1>9, <1>10, <1>11, <1>12, <1>13, <1>14, <1>15
     DEF WatchNext, WatchStep

\* Whatever the plans return, wherever the watch is interrupted and however it
\* is restarted: when an iteration is about to start, experiments.jsonl has the
\* best metric of the running watch; where git leaves that file alone a resume
\* also has the iteration that made it and the plateau, and counts no less than
\* what was spent (_resume_watch_state).
THEOREM WatchesResume == WatchSpecification => []ResumeFaithful
<1>1. WatchInv => ResumeFaithful
  BY DEF WatchInv, InStep, LeftAlone, ResumeFaithful
<1> QED
  BY <1>1, InitWatch, NextWatch, PTL DEF WatchSpecification

\* With on_regression: rollback, the branch holds the content last measured as
\* best, and nothing more than what worktrees merged and what the watch died on,
\* across agents that break the plan, frozen tasks restored, regressions,
\* interrupts and restarts (_git_rollback).
THEOREM BestCommitsKept == WatchSpecification => []BestCommitKept
<1>1. WatchInv => BestCommitKept
  BY DEF WatchInv, GoodHead, AwaitsRow, Has, BestCommitKept
<1> QED
  BY <1>1, InitWatch, NextWatch, PTL DEF WatchSpecification

=============================================================================
