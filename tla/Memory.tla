------------------------------- MODULE Memory -------------------------------
(***************************************************************************)
(* What the runs of a plan learn and are told (knowledge.py, memory.py and *)
(* their calls in run_plan): a run loads the insights of earlier runs, its *)
(* tasks are told the most relevant ones, each retrieval is counted and an *)
(* insight retrieved out of all proportion is quarantined, and at the end  *)
(* the run stores what it learned. Several runs use the same SQLite file;  *)
(* each is a process of its own. A first SELECT is outside the transaction *)
(* that the first INSERT or UPDATE opens; the rest of an operation is one  *)
(* transaction. Nothing in the package invalidates or compacts rows, so    *)
(* valid_to stays NULL; the decay of confidence with the age of an insight *)
(* is left out (the runs are close together).                              *)
(***************************************************************************)
EXTENDS Integers, Sequences, FiniteSetsExt, SequencesExt

CONSTANTS
  MRuns,       \* the runs of the plan
  MTasks,      \* tasks with a prompt
  Worded,      \* tasks whose prompt has keywords
  Cluster,     \* _query_cluster of a task's prompt
  Hits(_, _),  \* lexical score of an insight for a task's prompt
  Commands,    \* texts at least _INSTRUCTIONALITY_THRESHOLD instruction-like
  Results,     \* what the tasks of a run may end with: functions from tasks to results
  Earlier,     \* insights left by earlier runs, oldest first
  MaxTold,     \* _MAX_RECORDS_PER_TASK
  MaxIndexed,  \* _KNOWLEDGE_INDEX_MAX_RECORDS
  MinCount,    \* _RETRIEVAL_DOMINANCE_MIN_COUNT
  ZScore       \* _RETRIEVAL_DOMINANCE_ZSCORE

ASSUME MemoryAssumption ==
  /\ MaxTold \in Nat /\ MaxIndexed \in Nat /\ MinCount \in Nat /\ ZScore \in Nat
  /\ Worded \subseteq MTasks /\ MTasks \subseteq DOMAIN Cluster
  /\ Earlier \in Seq(Range(Earlier))
  /\ \A results \in Results :
       IsFiniteSet(DOMAIN results) /\ \A t \in DOMAIN results : results[t].history \in Seq(Range(results[t].history))

VARIABLES
  rows,     \* table knowledge
  stats,    \* table retrieval_stats: cluster -> row -> retrieval_count
  jsonl,    \* the plan's JSONL file, read when the table is empty, written when SQLite fails
  phase,    \* per run: where it is
  known,    \* per run: _task_knowledge
  todo,     \* per run: the tasks whose context is still to be built
  retold,   \* per run: the insights of {{ task_knowledge }} in the prompt built last
  index,    \* per run: the insights _knowledge_index has a line for, which every prompt can show
  alerted,  \* history, per run: insights its own retrievals raised an alert for
  batch,    \* per run: what it learned, with the time of extraction
  found,    \* per run: what a read outside the transaction returned
  time

memoryVars == <<rows, stats, jsonl, phase, known, todo, retold, index, alerted, batch, found, time>>

-----------------------------------------------------------------------------
Note(cond, t, kind, text) == IF cond THEN <<[task |-> t, kind |-> kind, text |-> text]>> ELSE <<>>

\* The insights of one result; a text is the sequence of the words that vary.
Learned(t, r) ==
  IF r.status \in {"skipped", "dry_run"} THEN <<>>
  ELSE (IF r.status = "failed"
        THEN FlattenSeq([n \in DOMAIN r.history |->
               Note(r.history[n] # "unknown", t, "failure_pattern", <<r.history[n]>>)]) ELSE <<>>)
       \o Note(r.code = 124, t, "timeout_hint", <<r.duration>>)
       \o Note(r.status = "success" /\ r.retries = "0" /\ r.judge = "clear_pass", t, "success_pattern", <<>>)
       \o Note(r.cost # "none" /\ r.status = "success", t, "cost_pattern", <<r.cost>>)
       \o Note(r.duration # "short" /\ r.status \in {"success", "failed"}, t, "duration_pattern", <<r.duration, r.status>>)
       \o Note(r.retries # "0", t, "retry_pattern", <<r.retries, IF r.status = "success" THEN "succeeded" ELSE "failed">>)
       \o Note(r.model # "none", t, "model_pattern", <<r.model, r.status>>)
       \o Note(r.status = "failed" /\ r.judge = "fail" /\ r.reason # "short", t, "policy_rule", <<r.reason>>)
       \o Note(r.status = "success" /\ r.retries # "0" /\ r.history # <<>> /\ Last(r.history) # "unknown",
               t, "policy_rule", r.history)

ExtractKnowledge(results) ==
  LET order == SetToSeq(DOMAIN results) IN
  FlattenSeq([n \in DOMAIN order |-> Learned(order[n], results[order[n]])])

\* The insights that can supersede each other.
ConflictKey(i) ==
  <<i.task, i.kind,
    IF i.kind = "model_pattern" THEN <<Head(i.text)>>
    ELSE IF i.kind \in {"failure_pattern", "policy_rule"} THEN <<i.text>> ELSE <<>> >>

ComputedTrust(i) == IF i.text \in Commands THEN "quarantined" ELSE "trusted"

MergeTrustNewest(old, new) == new   \* mutant: the label of the last write
MergeTrust(old, new) == IF "quarantined" \in {old, new} THEN "quarantined" ELSE "trusted"

Confidence(occ) == IF occ = 1 THEN 5 ELSE IF occ < 5 THEN 5 + occ ELSE 10   \* in tenths

Row(i, now) == [what |-> i, occ |-> 1, from |-> now, seen |-> now, trust |-> ComputedTrust(i)]

\* Of several rows of a conflict family the one that began to be valid last.
Resolved(rs) ==
  LET Beats(m, n) == \/ rs[m].from > rs[n].from
                     \/ rs[m].from = rs[n].from /\ rs[m].seen > rs[n].seen
                     \/ rs[m].from = rs[n].from /\ rs[m].seen = rs[n].seen /\ m < n
      rival(n) == {m \in DOMAIN rs : ConflictKey(rs[m].what) = ConflictKey(rs[n].what)
                                     /\ rs[m].trust = rs[n].trust} IN
  {n \in DOMAIN rs : \A m \in rival(n) \ {n} : ~Beats(m, n)}

\* The score of select_relevant_knowledge, in twentieths.
Relevance(t, k) ==
  20 * Hits(t, k.what) + (IF k.what.task = t THEN 40 ELSE 0) + Confidence(k.occ)
  + (IF k.occ < 5 THEN k.occ ELSE 5)

Best(from, most, Worth(_)) ==
  {s \in SUBSET from : /\ Cardinality(s) = IF Cardinality(from) < most THEN Cardinality(from) ELSE most
                       /\ \A k \in s, o \in from \ s : Worth(k) >= Worth(o)}

\* _sort_records
MostUseful(from, most) == Best(from, most, LAMBDA k : 10 * Confidence(k.occ) + k.occ)

SelectRelevant(from, t) ==
  LET own == {k \in from : k.what.task = t} IN
  IF t \in Worded THEN Best(from, MaxTold, LAMBDA k : Relevance(t, k))
  ELSE MostUseful(IF own = {} THEN from ELSE own, MaxTold)

\* The rows, among those just retrieved, whose count is at least MinCount and
\* more than ZScore standard deviations above the mean of the plan's rows.
Dominant(count, hit) ==
  LET live == {n \in DOMAIN rows : rows[n].trust # "quarantined"}
      size == Cardinality(live)
      sum  == FoldSet(LAMBDA n, s : s + count[n], 0, live)
      sq   == FoldSet(LAMBDA n, s : s + count[n] * count[n], 0, live)
      over(n) == size * count[n] - sum IN
  {n \in hit \cap live : /\ size > 1 /\ count[n] >= MinCount /\ over(n) > 0
                         /\ over(n) * over(n) > ZScore * ZScore * (size * sq - sum * sum)}

-----------------------------------------------------------------------------
MaxRows == Len(Earlier) * 2 + 2 * Cardinality(MRuns)
None == [id |-> 0, occ |-> 0, trust |-> "none"]

MemoryInit ==
  /\ \/ rows = [n \in DOMAIN Earlier |-> Row(Earlier[n], n)] /\ jsonl = <<>>
     \/ rows = <<>> /\ jsonl = [n \in DOMAIN Earlier |-> Row(Earlier[n], n)]
  /\ stats = [c \in Range(Cluster) |-> [n \in 1..MaxRows |-> 0]]
  /\ phase = [r \in MRuns |-> "new"] /\ known = [r \in MRuns |-> {}]
  /\ todo = [r \in MRuns |-> MTasks] /\ retold = [r \in MRuns |-> {}]
  /\ index = [r \in MRuns |-> {}]
  /\ alerted = [r \in MRuns |-> {}] /\ batch = [r \in MRuns |-> <<>>]
  /\ found = [r \in MRuns |-> None] /\ time = Len(Earlier)

Move(r, p) == phase' = [phase EXCEPT ![r] = p]

\* Two runs that find the table empty both migrate.
MigrateCheck(r) ==
  /\ phase[r] = "new"
  /\ Move(r, IF rows = <<>> /\ jsonl # <<>> THEN "migrating" ELSE "migrated")
  /\ UNCHANGED <<rows, stats, jsonl, known, todo, retold, index, alerted, batch, found, time>>

MigrateWrite(r) ==
  /\ phase[r] = "migrating" /\ Move(r, "migrated")
  /\ rows' = rows \o jsonl
  /\ UNCHANGED <<stats, jsonl, known, todo, retold, index, alerted, batch, found, time>>

\* What is loaded, and the index of it that is made here and never again.
LoadKnowledge(r) ==
  /\ phase[r] = "migrated" /\ Move(r, "running")
  /\ LET live == SelectSeq(rows, LAMBDA x : x.trust # "quarantined") IN
     known' = [known EXCEPT ![r] = {[what |-> live[n].what, occ |-> live[n].occ] : n \in Resolved(live)}]
  /\ \E listed \in MostUseful(known'[r], MaxIndexed) :
       index' = [index EXCEPT ![r] = {k.what : k \in listed}]
  /\ UNCHANGED <<rows, stats, jsonl, todo, retold, alerted, batch, found, time>>

\* Any row of the insight: a store may have changed which of two is the more
\* confident since the lookup.
RowsOf(chosen) ==
  {f \in [chosen -> DOMAIN rows] : \A k \in chosen : rows[f[k]].what = k.what}

UnlearnNothing(from, alerts) == from   \* mutant: left out of this prompt only
Unlearn(from, alerts) == {k \in from : k.what \notin alerts}

RecordRetrievals(r, t, row) ==
  LET count  == [n \in 1..MaxRows |-> stats[Cluster[t]][n] + IF n \in Range(row) THEN 1 ELSE 0]
      bad    == Dominant(count, Range(row))
      alerts == {rows[n].what : n \in bad} IN
  /\ stats' = [stats EXCEPT ![Cluster[t]] = count]
  /\ rows' = [n \in DOMAIN rows |-> IF n \in bad THEN [rows[n] EXCEPT !.trust = "quarantined"] ELSE rows[n]]
  /\ alerted' = [alerted EXCEPT ![r] = @ \cup alerts]
  /\ retold' = [retold EXCEPT ![r] = {k.what : k \in DOMAIN row} \ alerts]
  /\ known' = [known EXCEPT ![r] = Unlearn(@, alerts)]

\* A database that stays locked for ten seconds: no count, no alert.
RetrievalFails(r, chosen) ==
  /\ retold' = [retold EXCEPT ![r] = {k.what : k \in chosen}]
  /\ UNCHANGED <<rows, stats, known, alerted>>

TellTask(r, t) ==
  /\ phase[r] = "running" /\ t \in todo[r]
  /\ todo' = [todo EXCEPT ![r] = @ \ {t}]
  /\ \E chosen \in SelectRelevant(known[r], t) :
       \/ \E row \in RowsOf(chosen) : RecordRetrievals(r, t, row)
       \/ RetrievalFails(r, chosen)
  /\ UNCHANGED <<jsonl, phase, index, batch, found, time>>

-----------------------------------------------------------------------------
Find(rs, i) ==
  LET ids == {n \in DOMAIN rs : rs[n].what = i} IN
  IF ids = {} THEN None ELSE LET n == CHOOSE n \in ids : \A m \in ids : n <= m IN
                             [id |-> n, occ |-> rs[n].occ, trust |-> rs[n].trust]

\* One insight of a batch, given what the SELECT for it returned.
PutInsight(rs, i, old, now) ==
  IF old.id = 0 THEN Append(rs, Row(i, now))
  ELSE [rs EXCEPT ![old.id].occ = old.occ + 1, ![old.id].seen = now,
                  ![old.id].trust = MergeTrust(old.trust, ComputedTrust(i))]

\* A batch, insight by insight, each after a SELECT of its own.
PutAll(rs, learned, now) ==
  LET put[n \in 0 .. Len(learned)] ==
        IF n = 0 THEN rs
        ELSE LET sofar == put[n - 1] IN PutInsight(sofar, learned[n], Find(sofar, learned[n]), now)
  IN put[Len(learned)]

\* The run is over, its locals go: what it learned, and the SELECT for the first insight,
\* which no transaction protects.
StoreBegin(r, results) ==
  LET learned == ExtractKnowledge(results) IN
  /\ phase[r] = "running"
  /\ time' = time + 1
  /\ batch' = [batch EXCEPT ![r] = [learned |-> learned, at |-> time + 1]]
  /\ IF learned = <<>> THEN Move(r, "done") /\ UNCHANGED found
     ELSE Move(r, "storing") /\ found' = [found EXCEPT ![r] = Find(rows, Head(learned))]
  /\ known' = [known EXCEPT ![r] = {}] /\ index' = [index EXCEPT ![r] = {}]
  /\ todo' = [todo EXCEPT ![r] = {}]
  /\ UNCHANGED <<rows, stats, jsonl, retold, alerted>>

Forget(r) == batch' = [batch EXCEPT ![r] = <<>>] /\ found' = [found EXCEPT ![r] = None]

StoreWrite(r) ==
  LET b == batch[r] IN
  /\ phase[r] = "storing" /\ Move(r, "done")
  /\ rows' = PutAll(PutInsight(rows, Head(b.learned), found[r], b.at), Tail(b.learned), b.at)
  /\ Forget(r)
  /\ UNCHANGED <<stats, jsonl, known, todo, retold, index, alerted, time>>

\* SQLite raised: the JSONL file is read, merged and written back, unlocked.
FallbackRead(r) ==
  /\ phase[r] = "storing" /\ Move(r, "fallback")
  /\ found' = [found EXCEPT ![r] = jsonl]
  /\ UNCHANGED <<rows, stats, jsonl, known, todo, retold, index, alerted, batch, time>>

FallbackWrite(r) ==
  /\ phase[r] = "fallback" /\ Move(r, "done")
  /\ jsonl' = PutAll(found[r], batch[r].learned, batch[r].at)
  /\ Forget(r)
  /\ UNCHANGED <<rows, stats, known, todo, retold, index, alerted, time>>

MemoryStep(r) ==
  \/ MigrateCheck(r) \/ MigrateWrite(r) \/ LoadKnowledge(r)
  \/ \E t \in MTasks : TellTask(r, t)
  \/ \E results \in Results : StoreBegin(r, results)
  \/ StoreWrite(r) \/ FallbackRead(r) \/ FallbackWrite(r)

MemoryOver == (\A r \in MRuns : phase[r] = "done") /\ UNCHANGED memoryVars
MemoryNext == (\E r \in MRuns : MemoryStep(r)) \/ MemoryOver
MemorySpec == MemoryInit /\ [][MemoryNext]_memoryVars

-----------------------------------------------------------------------------
\* An insight that a run's own retrievals found to dominate is in none of the
\* {{ task_knowledge }} the run builds from then on, the one that raised the alert
\* included, although the run loaded its knowledge only once and other runs may
\* since have put the row's label back.  The index is not made again: what it lists
\* beyond what the run still tells in full is what the run itself has raised an
\* alert for.  And the label is put back ("Preserve the most restrictive trust label
\* seen") only through a store that had read the row before it was quarantined.
QuarantineKept ==
  [][/\ \A r \in MRuns : /\ retold'[r] \cap alerted'[r] = {}
                        /\ index'[r] \ {k.what : k \in known'[r]} \subseteq alerted'[r]
     /\ \A n \in DOMAIN rows : rows[n].trust = "quarantined" /\ rows'[n].trust # "quarantined"
          => \E r \in MRuns : phase[r] = "storing" /\ found[r].id = n
                              /\ found[r].trust # "quarantined" /\ phase'[r] = "done"]_memoryVars
=============================================================================
