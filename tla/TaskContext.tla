------------------------------ MODULE TaskContext ------------------------------
(***************************************************************************)
(* What a task is told about the tasks before it: run_plan assembles the   *)
(* outputs of the upstream tasks on the main thread, task by task, and     *)
(* cuts them to a budget (scheduler.py _apply_context_budget and around,   *)
(* runners.py _build_layered_context, _apply_progressive_compaction,       *)
(* _run_summarization).                                                    *)
(*                                                                         *)
(* An output is a sequence of sections of n tokens, "slim" once compacted; *)
(* "hit" is how well one matches the words of the prompt, "key" says it is *)
(* a heading or a finding, "from" who wrote it: the task, a model or, as   *)
(* the notice of a failed call, the program.  What a model answers and the *)
(* order of equals are open.                                               *)
(***************************************************************************)
EXTENDS Integers, SequencesExt

CONSTANTS
  Upstream,    \* tasks that have results
  Consumers,   \* sequences of tasks to assemble for: [parents, sources, mode, budget, keywords,
               \* visible, compaction]
  Outputs,     \* functions from Upstream to their stdout_tail
  Breaker,     \* _SUMMARIZATION_CIRCUIT_BREAKER_THRESHOLD
  DefaultBudget,  \* 6000 tokens
  Share,       \* the least share of an upstream in stage 2, 2.5, 3 and 4 (here 2 to 5)
  Title, Findings,   \* _L0_TARGET_TOKENS and _L1_TARGET_TOKENS
  Header,      \* "--- id ---" and the blank line
  Mark         \* _COMPACTION_MARKER and the notice of a failed call

Sections == [n : Nat, slim : Nat, hit : Nat, key : BOOLEAN, from : {"task", "model", "program"}]
Texts == Seq(Sections)

ASSUME ContextAssumption ==
  /\ Breaker \in Nat \ {0} /\ Share \in [2 .. 5 -> Nat] /\ {DefaultBudget, Title, Findings, Header, Mark} \subseteq Nat
  /\ IsFiniteSet(Upstream) /\ Outputs \subseteq [Upstream -> Texts]
  /\ \A c \in Consumers :
       /\ c \in Seq(ToSet(c)) /\ c # <<>>
       /\ \A i \in DOMAIN c : /\ c[i].budget \in Nat /\ c[i].sources \subseteq Upstream \cup {"*"}
                             /\ c[i].parents["task"] \subseteq Upstream

VARIABLES
  todo,       \* the tasks to assemble for; the first is in hand
  output,     \* results[tid].stdout_tail
  summary,    \* structured_context.summary, of the result
  failures,   \* _summarization_consecutive_failures, of the process
  step,       \* assemble, fit, compact, visit, summarize, dispatch
  view,       \* upstream_for_task: the tails this task will see
  relevance,  \* the scores they are ranked by
  before,     \* the tails before they were fitted and compacted
  stage,      \* of the compaction: 0 for none; 3 is the code's 2.5, 4 its 3, 5 its 4, 6 its 5
  queue,      \* the upstreams the stage has still to visit
  synthesis   \* context_synthesis: sections of [id, text]

contextVars == <<todo, output, summary, failures, step, view, relevance, before, stage, queue, synthesis>>
Task == todo[1]

ContextInit ==
  /\ todo \in Consumers /\ output \in Outputs
  /\ summary = [u \in Upstream |-> <<>>] /\ failures = 0
  /\ step = "assemble" /\ view = <<>> /\ relevance = <<>> /\ before = <<>>
  /\ stage = 0 /\ queue = <<>> /\ synthesis = <<>>

-----------------------------------------------------------------------------
SizeTo(text, i) == SumFunctionOnSet([j \in DOMAIN text |-> text[j].n], 1 .. i)
Size(text) == SizeTo(text, Len(text))
Estimate(text) == IF Size(text) > 1 THEN Size(text) ELSE 1     \* _estimate_tokens
TotalOf(v, f(_)) == SumFunctionOnSet([u \in DOMAIN v |-> f(v[u])], DOMAIN v)
Synthesized == {"layered", "selective"}
Budget == IF Task.budget = 0 THEN DefaultBudget ELSE Task.budget

Written(by, k) == <<[n |-> k, slim |-> k, hit |-> 0, key |-> FALSE, from |-> by]>>
Notice == Written("program", Mark)

Cut(text, k) ==
  LET room(i) == k - SizeTo(text, i - 1) IN
  [i \in {j \in DOMAIN text : room(j) > 0} |->
     [text[i] EXCEPT !.n = IF @ < room(i) THEN @ ELSE room(i)]]

\* As many of the sections, in their order, as fit; the first that does not ends it.
Fitting(text, k) == [i \in {j \in DOMAIN text : SizeTo(text, j) <= k} |-> text[i]]

End(text, k) == Reverse(Cut(Reverse(text), k))

Those(s, S) == FlattenSeq([i \in DOMAIN s |-> IF s[i] \in S THEN <<s[i]>> ELSE <<>>])
Keys(text) == Those(text, {s \in ToSet(text) : s.key})
ExtractL0(text) == Cut(SubSeq(text, 1, IF text = <<>> THEN 0 ELSE 1), Title)
ExtractL1(text, k) == IF Fitting(Keys(text), k) = <<>> THEN Cut(text, k) ELSE Fitting(Keys(text), k)

\* The words of the prompt: the sections that match them, or else all.
Hits(text) == Those(text, {s \in ToSet(text) : s.hit > 0})
FilterByIntent(text) == IF Task.keywords /\ Hits(text) # <<>> THEN Hits(text) ELSE text
Score(text) == IF Task.keywords THEN SumFunctionOnSet([i \in DOMAIN text |-> text[i].hit], DOMAIN text) ELSE 0

-----------------------------------------------------------------------------
ContextIds == (Task.sources \ {"*"}) \cup IF "*" \in Task.sources THEN Task.parents["task"] ELSE {}

Layer[k \in Nat] == IF k = 0 THEN {"task"} ELSE UNION {Task.parents[t] : t \in Layer[k - 1]}

\* The length of the shortest path from the task; 1 where there is none.
HopDistance(u) ==
  IF \A k \in 1 .. Cardinality(Upstream) : u \notin Layer[k] THEN 1
  ELSE CHOOSE k \in 1 .. Cardinality(Upstream) : u \in Layer[k] /\ \A l \in 1 .. k - 1 : u \notin Layer[l]

\* _DECAY_BASE to the power of h: four fifths.
Decay(h) ==
  LET d[k \in 0 .. h] == IF k = 0 THEN [num |-> 1, den |-> 1]
                         ELSE [num |-> 4 * d[k - 1].num, den |-> 5 * d[k - 1].den] IN d[h]

HopDecay(u) ==
  LET d == Decay(HopDistance(u) - 1) IN Cut(output[u], (Size(output[u]) * d.num) \div d.den)

\* Reciprocal rank fusion, 1 / (60 + rank), of the score and the distance,
\* over the common denominator.  Equals rank in the order of a Python set.
Rankings(ids, Above(_, _)) ==
  {q \in SetToSeqs(ids) : \A i, j \in DOMAIN q : Above(q[i], q[j]) => i < j}
Rank(q, u) == CHOOSE i \in DOMAIN q : q[i] = u

RrfScores(v) ==
  LET den == FoldSet(LAMBDA i, n : n * (60 + i), 1, 1 .. Cardinality(DOMAIN v))
      score(p, q, u) == den \div (60 + Rank(p, u)) + den \div (60 + Rank(q, u)) IN
  {[u \in DOMAIN v |-> score(p, q, u)] :
     p \in Rankings(DOMAIN v, LAMBDA a, b : Score(v[a]) > Score(v[b])),
     q \in Rankings(DOMAIN v, LAMBDA a, b : HopDistance(a) < HopDistance(b))}

Relevance(v) ==
  IF Task.mode \notin Synthesized /\ Task.keywords /\ Task.budget # 0 THEN RrfScores(v)
  ELSE {[u \in DOMAIN v |-> Score(v[u])]}

Assemble ==
  /\ step = "assemble" /\ step' = "fit"
  /\ view' = [u \in ContextIds |-> IF Task.visible THEN HopDecay(u) ELSE <<>>]
  /\ before' = view' /\ relevance' \in Relevance(view')
  /\ stage' = 0 /\ queue' = <<>> /\ synthesis' = <<>>
  /\ UNCHANGED <<todo, output, summary, failures>>

-----------------------------------------------------------------------------
LeastFirst == Rankings(DOMAIN view, LAMBDA a, b : relevance[a] < relevance[b])

\* _apply_context_budget: filter, then shorten all alike, or, by relevance,
\* take from the least relevant what the whole is over, as far as those
\* before it in the order have not had to give it up.
Excess(v, order, u) ==
  LET had == [w \in DOMAIN v |-> IF v[w] = <<>> THEN 0 ELSE Estimate(v[w])] IN
  TotalOf(v, Estimate) - Budget - SumFunctionOnSet(had, {order[i] : i \in 1 .. Rank(order, u) - 1})

EvictOne(text, over) ==
  IF over <= 0 \/ text = <<>> THEN text
  ELSE Cut(text, IF over > Estimate(text) THEN 0 ELSE Estimate(text) - over)

Evict(v, order) == [u \in DOMAIN v |-> EvictOne(v[u], Excess(v, order, u))]

FitToBudget ==
  LET filtered == [u \in DOMAIN view |-> FilterByIntent(view[u])]
      total == TotalOf(filtered, Estimate) IN
  IF Task.budget = 0 \/ TotalOf(view, Estimate) <= Budget THEN view' = view
  ELSE IF total <= Budget THEN view' = filtered
  ELSE IF ~Task.keywords
    THEN view' = [u \in DOMAIN view |-> Cut(view[u], (Estimate(view[u]) * Budget) \div total)]
  ELSE \E order \in LeastFirst : view' = Evict(filtered, order)

\* _build_layered_context: a title for every upstream, then, from the most
\* relevant on, its findings and then its whole text where they still fit;
\* what is too long even so is cut at the end.
WithText(v) == SelectSeq(SetToSeq(DOMAIN v), LAMBDA u : v[u] # <<>>)
MostFirst(order) == Those(Reverse(order), {u \in DOMAIN view : view[u] # <<>>})

Upgrade(tier, u, text) ==
  LET more == Size(text) - Size(tier.text[u]) IN
  IF tier.total + more > Budget THEN tier
  ELSE [total |-> tier.total + more, text |-> [tier.text EXCEPT ![u] = text]]

Upgraded(first, order, whole) ==
  LET tier[i \in 0 .. Len(order)] ==
        IF i = 0 THEN first ELSE Upgrade(tier[i - 1], order[i], whole[order[i]]) IN
  tier[Len(order)]

\* mutant: the header is not counted.
RoomBare(list, i) == Budget - SumFunctionOnSet([j \in DOMAIN list |-> Size(list[j].text)], 1 .. i - 1)

Room(list, i) ==
  Budget - SumFunctionOnSet([j \in DOMAIN list |-> Header + Size(list[j].text)], 1 .. i - 1) - Header

FitSections(list) ==
  [i \in {j \in DOMAIN list : Room(list, j) > 0} |-> [list[i] EXCEPT !.text = Cut(@, Room(list, i))]]

Layered(order) ==
  LET titles == [u \in Upstream |-> IF u \in DOMAIN view THEN ExtractL0(view[u]) ELSE <<>>]
      total == SumFunctionOnSet([i \in DOMAIN order |-> Header + Size(titles[order[i]])], DOMAIN order)
      second == Upgraded([total |-> total, text |-> titles], order,
                         [u \in DOMAIN view |-> ExtractL1(view[u], Findings)])
      third == Upgraded(second, order, view) IN
  FitSections([i \in DOMAIN order |-> [id |-> order[i], text |-> third.text[order[i]]]])

\* _build_selective_context: the chunks that match, the best first, where
\* they fit; if none does match, the title of every upstream.
Chunks == {c \in UNION {{<<u, i>> : i \in DOMAIN view[u]} : u \in DOMAIN view} :
             view[c[1]][c[2]].hit + Score(view[c[1]]) > 0}
Worth(c) == view[c[1]][c[2]].hit + Score(view[c[1]])

Pick(done, c) ==
  LET more == view[c[1]][c[2]].n + IF \E d \in done.chunks : d[1] = c[1] THEN 0 ELSE Header IN
  IF done.total + more > Budget THEN done
  ELSE [total |-> done.total + more, chunks |-> done.chunks \cup {c}]

Selected(order) ==
  LET picked == FoldLeft(Pick, [total |-> 0, chunks |-> {}], order).chunks
      text(u) == FoldSeq(LAMBDA c, t : IF c[1] = u THEN <<view[u][c[2]]>> \o t ELSE t, <<>>,
                         SelectSeq(order, LAMBDA c : c \in picked)) IN
  SelectSeq([i \in DOMAIN WithText(view) |-> [id |-> WithText(view)[i], text |-> text(WithText(view)[i])]],
            LAMBDA s : s.text # <<>>)

Titles == [i \in DOMAIN WithText(view) |-> [id |-> WithText(view)[i], text |-> ExtractL0(view[WithText(view)[i]])]]

Fit ==
  /\ step = "fit" /\ step' = "compact"
  /\ \/ /\ Task.mode \notin Synthesized
        /\ FitToBudget /\ synthesis' = <<>>
     \/ /\ Task.mode = "layered"
        /\ \E order \in LeastFirst : synthesis' = Layered(MostFirst(order))
        /\ view' = view
     \/ /\ Task.mode = "selective"
        /\ \E order \in Rankings(Chunks, LAMBDA c, d : Worth(c) > Worth(d)) :
              synthesis' = IF Chunks = {} THEN Titles ELSE Selected(order)
        /\ view' = view
  /\ UNCHANGED <<todo, output, summary, failures, relevance, before, stage, queue>>

-----------------------------------------------------------------------------
\* _apply_progressive_compaction: stage after stage, the least relevant
\* upstream first, until the whole fits.
Whole == TotalOf(view, Size)
Least(s) == LET equal == Budget \div Len(WithText(view)) IN IF equal > Share[s] THEN equal ELSE Share[s]
Compacted(text) == [i \in DOMAIN text |-> [text[i] EXCEPT !.n = IF @ < text[i].slim THEN @ ELSE text[i].slim]]

Pruned(text, k) ==
  LET idx == [i \in DOMAIN text |-> i]
      ranked == SelectSeq(idx, LAMBDA i : text[i].key) \o SelectSeq(idx, LAMBDA i : ~text[i].key)
      kept == ToSet(SubSeq(ranked, 1, Len(Fitting([j \in DOMAIN ranked |-> text[ranked[j]]], k))))
      rest == SelectSeq(idx, LAMBDA i : i \in kept) IN
  [j \in DOMAIN rest |-> text[rest[j]]] \o IF Len(rest) < Len(text) THEN Notice ELSE <<>>

Truncated(text, k) ==
  LET front == (k * 35) \div 100 IN
  IF k <= Mark + 1 THEN End(text, k)
  ELSE Cut(text, front) \o Notice \o End(text, k - front - Mark)

StartCompaction ==
  /\ step = "compact"
  /\ IF Task.compaction = "none" \/ (Task.compaction = "progressive" /\ Whole <= Budget)
       THEN view' = view /\ step' = "summarize" /\ stage' = 0 /\ queue' = <<>>
     ELSE /\ view' = [u \in DOMAIN view |-> Compacted(view[u])]
          /\ IF Task.compaction = "standard" \/ TotalOf(view', Size) <= Budget
               THEN step' = "summarize" /\ stage' = 1 /\ queue' = <<>>
             ELSE step' = "visit" /\ stage' = 2 /\ queue' \in LeastFirst
  /\ UNCHANGED <<todo, output, summary, failures, relevance, before, synthesis>>

\* What a visit leaves to do: nothing once the whole fits or the last stage
\* is through, else the next upstream or the next stage.  The breaker is
\* looked at once, before stage 2.5.
Continue ==
  IF TotalOf(view', Size) <= Budget \/ (Len(queue) = 1 /\ stage = 6)
    THEN step' = "summarize" /\ stage' = stage /\ queue' = <<>>
  ELSE IF Len(queue) > 1 THEN step' = step /\ stage' = stage /\ queue' = SubSeq(queue, 2, Len(queue))
  ELSE /\ step' = step /\ queue' \in LeastFirst
       /\ stage' = IF stage = 2 /\ failures' >= Breaker THEN 4 ELSE stage + 1

\* _run_summarization: the reply, the notice of a failure or, once the
\* breaker is open, the findings.
Answers(text) ==
  IF failures >= Breaker
    THEN {[failures |-> failures, text |-> IF text = <<>> THEN Notice ELSE ExtractL1(text, Findings)]}
  ELSE {[failures |-> failures + 1, text |-> Notice]}
         \cup {[failures |-> 0, text |-> Written("model", k)] : k \in {1, Findings}}

\* What the stage makes of a text, if it is over its share.
Visits(text) ==
  IF text = <<>> \/ (stage \in 2 .. 4 /\ Size(text) <= Least(stage)) THEN {[failures |-> failures, text |-> text]}
  ELSE IF stage = 3 THEN {[a EXCEPT !.text = IF Size(@) < Size(text) THEN @ ELSE text] : a \in Answers(text)}
  ELSE {[failures |-> failures,
         text |-> IF stage = 2 THEN Pruned(text, Least(2)) ELSE IF stage = 4 THEN Truncated(text, Least(4))
                  ELSE IF stage = 5 THEN ExtractL1(text, Least(5)) ELSE ExtractL0(text)]}

VisitOne ==
  /\ step = "visit"
  /\ \E v \in Visits(view[queue[1]]) :
       view' = [view EXCEPT ![queue[1]] = v.text] /\ failures' = v.failures
  /\ Continue
  /\ UNCHANGED <<todo, output, summary, relevance, before, synthesis>>

-----------------------------------------------------------------------------
\* _prepare_summaries: an upstream is summarized for the first task that
\* wants it, from what that task would see of it, and kept for all.
PrepareSummary ==
  /\ step = "summarize" /\ Task.mode \in {"summarized", "map_reduce"}
  /\ \E u \in DOMAIN view : /\ summary[u] = <<>>
                            /\ \E a \in Answers(view[u]) : summary' = [summary EXCEPT ![u] = a.text]
                                                        /\ failures' = a.failures
  /\ UNCHANGED <<todo, output, step, view, relevance, before, stage, queue, synthesis>>

\* _run_map_reduce makes one text of the summaries.
FinishContext ==
  /\ step = "summarize" /\ step' = "dispatch"
  /\ Task.mode \in {"summarized", "map_reduce"} => \A u \in DOMAIN view : summary[u] # <<>>
  /\ synthesis' \in IF Task.mode # "map_reduce" THEN {synthesis}
                    ELSE {<<[id |-> "all", text |-> text]>> : text \in {Notice, Written("model", 1)}}
  /\ UNCHANGED <<todo, output, summary, failures, view, relevance, before, stage, queue>>

NextConsumer ==
  /\ step = "dispatch" /\ Len(todo) > 1
  /\ todo' = SubSeq(todo, 2, Len(todo)) /\ step' = "assemble"
  /\ view' = <<>> /\ relevance' = <<>> /\ before' = <<>> /\ stage' = 0 /\ queue' = <<>> /\ synthesis' = <<>>
  /\ UNCHANGED <<output, summary, failures>>

ContextNext ==
  Assemble \/ Fit \/ StartCompaction \/ VisitOne \/ PrepareSummary \/ FinishContext \/ NextConsumer

ContextSpec == ContextInit /\ [][ContextNext]_contextVars

-----------------------------------------------------------------------------
SynthesisSize == SumFunctionOnSet([i \in DOMAIN synthesis |-> Header + Size(synthesis[i].text)], DOMAIN synthesis)

\* What a task is given keeps to its budget: the tails of the upstreams,
\* unless compaction went to the last stage, and the layered text whatever
\* its upstreams say, its headers included.  When the tails are cut by
\* relevance, a tail that lost more than its filter took is the last to have
\* lost anything: all that are less relevant are gone.
CutToFit ==
  /\ step = "compact" /\ Task.mode \notin Synthesized /\ Task.budget # 0 => Whole <= Budget
  /\ step = "dispatch" /\ Task.compaction = "progressive" /\ stage < 6 => Whole <= Budget
  /\ step = "compact" /\ Task.mode = "layered" => SynthesisSize <= Budget
  /\ step = "compact" /\ Task.mode \notin Synthesized /\ Task.keywords =>
       \A u, w \in DOMAIN view :
         view[u] \notin {before[u], FilterByIntent(before[u])} /\ relevance[w] < relevance[u] => view[w] = <<>>

\* PLAN_GUIDE.md: progressive compaction "falls through to plain truncation
\* if the LLM call fails": the notice of a failure is never all that is
\* left of an upstream.
FailedSummaryFallsThrough == \A u \in DOMAIN view : view[u] # Notice
=============================================================================
