----------------------------- MODULE MCTaskParts -----------------------------
(***************************************************************************)
(* A task and its parts: what it is told before it starts, the council     *)
(* that deliberates for it, its attempts from beginning to end, the stream *)
(* of a process and the judging of an output.  One of them is chosen; each *)
(* has an instance of its own.                                             *)
(***************************************************************************)
EXTENDS MCTaskRunner, ProcessStream, Judging, TaskContext, Council, TLC

VARIABLE part

-----------------------------------------------------------------------------
Section(n, slim, hit, key) == [n |-> n, slim |-> slim, hit |-> hit, key |-> key, from |-> "task"]
MCUpstream == {"a", "b", "c"}
MCShare == (2 :> 4) @@ (3 :> 4) @@ (4 :> 3) @@ (5 :> 2)
MCParents == [t \in MCUpstream \cup {"task"} |-> IF t = "task" THEN {"a", "b"} ELSE IF t = "b" THEN {"c"} ELSE {}]

Consumer(mode, budget, words, compaction) ==
  [parents |-> MCParents, sources |-> {"*", "c"}, mode |-> mode, budget |-> budget, keywords |-> words,
   visible |-> TRUE, compaction |-> compaction]
Only(consumer) == [consumer EXCEPT !.sources = {"a", "b"}]
MCConsumers ==
  {<<Consumer("raw", b, k, "none")>> : b \in {0, 5, 9}, k \in BOOLEAN}
  \cup {<<Only(Consumer(m, 6, TRUE, "none")), [Consumer("raw", 4, TRUE, "standard") EXCEPT !.visible = FALSE]>> :
          m \in {"layered", "selective"}}
  \cup {<<Only(Consumer("layered", 3, TRUE, "none"))>>}
  \cup {<<Only(Consumer("selective", b, FALSE, "progressive")), Consumer("raw", 0, TRUE, "progressive")>> : b \in {3, 5}}
  \cup {<<Consumer("summarized", 6, TRUE, "none"), Consumer("map_reduce", 0, TRUE, "none")>>}
Long == <<Section(2, 2, 0, FALSE), Section(5, 3, 2, FALSE), Section(2, 2, 0, TRUE)>>
Short == <<Section(3, 2, 1, TRUE), Section(4, 4, 0, FALSE)>>
MCOutputs ==
  {[u \in MCUpstream |-> IF u = "a" THEN x ELSE IF u = "b" THEN y ELSE Short] :
     x \in {Long, <<>>}, y \in {Long, Short}}

PlainJudge == [method |-> "direct", llm |-> 1, rubric |-> <<>>, checks |-> <<>>, aggregation |-> "mean",
          threshold |-> 3, rounds |-> 1, quorum |-> 0, strategy |-> "majority", onFail |-> "fail"]
Criterion(type) == [type |-> type, limit |-> 2]
MCJudges ==
  {[PlainJudge EXCEPT !.onFail = "retry", !.checks = c, !.aggregation = a] :
     c \in {<<>>, <<Criterion("contains")>>}, a \in {"mean", "min"}}
  \cup {[PlainJudge EXCEPT !.quorum = 3, !.strategy = s] : s \in {"majority", "unanimous", "any"}}
  \cup {[PlainJudge EXCEPT !.method = "g_eval", !.quorum = 2, !.onFail = "warn"], [PlainJudge EXCEPT !.llm = 0]}
  \cup {[PlainJudge EXCEPT !.method = "debate", !.rounds = n, !.threshold = t] : n \in {0, 2}, t \in {2, 3}}
  \cup {[PlainJudge EXCEPT !.method = "reflection", !.quorum = 2]}
  \cup {[PlainJudge EXCEPT !.llm = 0, !.rubric = <<2, 1>>, !.checks = <<Criterion(t)>>, !.aggregation = "weighted_mean"] :
          t \in {"regex", "is-json", "cost_under", "duration_under", "json-schema", "other"}}
  \cup {[PlainJudge EXCEPT !.llm = 0, !.rubric = <<0>>, !.aggregation = "weighted_mean", !.onFail = "retry"]}
MCJudged == {[finds |-> {2}, json |-> "fits", cost |-> 1, duration |-> 3],
             [finds |-> {}, json |-> "other", cost |-> Missing, duration |-> 1]}

Role(r) == [role |-> r, engine |-> "claude", model |-> NoModel]
Unnamed(m) == [role |-> NoRole, engine |-> "claude", model |-> m]
Lenses == <<Role("architect"), Role("critic"), Role("security")>>
CouncilOf(seats, topology, rounds, connections) ==
  [mode |-> "council", sources |-> {"a"},
   council |-> [participants |-> seats, topology |-> topology, rounds |-> rounds, connections |-> connections]]
Spokes == "architect" :> {"critic", "security"} @@ "critic" :> {"architect"}
MCCouncilTasks ==
  {CouncilOf(seats, "star", r, <<>>) : r \in {1, 2}, seats \in {Lenses, <<Unnamed("opus"), Role("critic"), Unnamed("opus")>>}}
  \cup {CouncilOf(seats, "chain", r, <<>>) : r \in {1, 2}, seats \in {Lenses, <<Unnamed("opus"), Unnamed("opus"), Unnamed("haiku")>>}}
  \cup {CouncilOf(Lenses, "graph", 2, c) : c \in {Spokes, <<>>, "critic" :> {"judge"}}}
  \cup {CouncilOf(SubSeq(Lenses, 1, n), "star", 0, <<>>) : n \in {1, 2}}
  \cup {CouncilOf(Append(SubSeq(Lenses, 1, 2), Unnamed("opus")), "graph", 3, Spokes)}
  \cup {[CouncilOf(Lenses, "star", 1, <<>>) EXCEPT !.sources = s] : s \in {{}, {"b"}}}

-----------------------------------------------------------------------------
NoStream  == StreamAt("closed")
NoJudge   == JudgeInit /\ judge = (CHOOSE j \in Judges : TRUE) /\ out = (CHOOSE o \in JudgedOutputs : TRUE)
NoContext == ContextInit /\ todo = (CHOOSE c \in Consumers : TRUE) /\ output = (CHOOSE o \in Outputs : TRUE)
NoCouncilHere == CouncilInit /\ sitting = (CHOOSE t \in CouncilTasks : CouncilAccepted(t))
NoRunner ==
  /\ task = Plain /\ pc = "idle" /\ attempt = 0 /\ iterations = 0 /\ status = None /\ failure = None
  /\ engine = "own" /\ model = Plain.model /\ command = [engine |-> "own", model |-> Plain.model]
  /\ feedback = FALSE /\ history = <<>> /\ launches = <<>> /\ passed = {}
  /\ tracked = FALSE /\ worktree = "none" /\ work = {} /\ published = {} /\ handoff = FALSE

PartsInit ==
  \/ part = "runner" /\ Init /\ NoStream /\ NoJudge /\ NoContext /\ NoCouncilHere
  \/ part = "stream" /\ NoRunner /\ StreamInit /\ NoJudge /\ NoContext /\ NoCouncilHere
  \/ part = "judge" /\ NoRunner /\ NoStream /\ JudgeInit /\ NoContext /\ NoCouncilHere
  \/ part = "context" /\ NoRunner /\ NoStream /\ NoJudge /\ ContextInit /\ NoCouncilHere
  \/ part = "council" /\ NoRunner /\ NoStream /\ NoJudge /\ NoContext /\ CouncilInit

PartsNext ==
  \/ part = "runner" /\ Step /\ UNCHANGED <<part, streamVars, judgeVars, contextVars, councilVars>>
  \/ part = "stream" /\ StreamNext /\ UNCHANGED <<part, vars, judgeVars, contextVars, councilVars>>
  \/ part = "judge" /\ JudgeNext /\ UNCHANGED <<part, vars, streamVars, contextVars, councilVars>>
  \/ part = "context" /\ ContextNext /\ UNCHANGED <<part, vars, streamVars, judgeVars, councilVars>>
  \/ part = "council" /\ CouncilNext /\ UNCHANGED <<part, vars, streamVars, judgeVars, contextVars>>

PartsSpec ==
  /\ PartsInit /\ [][PartsNext]_<<part, vars, streamVars, judgeVars, contextVars, councilVars>>
  /\ Fairness /\ WF_vars(Step)
=============================================================================
