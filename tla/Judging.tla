-------------------------------- MODULE Judging --------------------------------
(***************************************************************************)
(* The judge of one task (runners.py): every call of a judge model, by     *)
(* method, the quorum of votes, and the attempts that a verdict asks for.  *)
(* A score is a part of Scale; an overall score is [sum, of], the mean of  *)
(* "of" scores.  What the models say is open, and so is whether they       *)
(* answer at all.                                                          *)
(***************************************************************************)
EXTENDS Integers, FiniteSets, SequencesExt

CONSTANTS
  Scale,        \* the score 1.0
  Judges,       \* JudgeSpecs: method, criteria by kind (llm: how many; rubric: their weights;
                \* checks: [type, limit]), aggregation, threshold, rounds, quorum, strategy, onFail
  JudgedOutputs,      \* what an attempt may leave: finds, json, cost, duration
  JudgeAttempts   \* 1 + max_retries

Half == Scale \div 2
Missing == -1    \* no score in the answer
NotANumber == -2

ASSUME JudgingAssumption ==
  /\ Scale \in Nat \ {0} /\ Scale % 2 = 0 /\ JudgeAttempts \in Nat \ {0}
  /\ \A j \in Judges : /\ j.method \in {"direct", "g_eval", "reflection", "debate"}
                       /\ j.threshold \in 1 .. Scale /\ j.rounds \in Nat /\ j.quorum \in Nat
                       /\ j.llm \in Nat /\ j.rubric \in Seq(Int)

\* What comes of a call: it raises (a timeout, no executable), or there is a
\* process whose exit code is 0 or not and whose text holds no JSON object,
\* one that does not parse, or one with a score and with scores per criterion.
Replies ==
  {[text |-> "raises", ok |-> FALSE, score |-> Missing, each |-> <<>>]} \cup
  [text : {"none", "broken"}, ok : BOOLEAN, score : {Missing}, each : {<<>>}] \cup
  [text : {"json"}, ok : BOOLEAN, score : {NotANumber, Missing, 0, Half, Scale + 1}, each : {<<>>, <<0>>, <<Scale + 1>>}]

VARIABLES
  judge, out,
  evaluation,  \* the attempt in hand, from 1
  call,       \* the call to come: rubric, steps, score, bull, bear, critique, fallback,
              \* calibrate; start and tally around them; verdict, compare, over after
  scored,     \* the scores of this evaluation: [score, weight]
  round,      \* of the debate
  votes,      \* of this attempt: [verdict, sum, of]
  final,      \* of this attempt: the vote that represents it, the verdict and the score
  previous,   \* previous_judge_output: the attempt it is of, or 0
  heard,      \* history: a call of this attempt was answered with a number
  judged,     \* history: the last attempt that was judged and its verdict
  compared    \* history: [evaluation, with]

judgeVars == <<judge, out, evaluation, call, scored, round, votes, final, previous, heard, judged, compared>>

NoFinal == [vote |-> 0, verdict |-> "none", sum |-> 0, of |-> 1]

JudgeInit ==
  /\ judge \in Judges /\ out \in JudgedOutputs
  /\ evaluation = 1 /\ call = "start" /\ scored = <<>> /\ round = 1 /\ votes = <<>> /\ final = NoFinal
  /\ previous = 0 /\ heard = FALSE /\ judged = [evaluation |-> 0, verdict |-> "none"]
  /\ compared = [evaluation |-> 0, with |-> 0]

NoCriteria == judge.llm = 0 /\ judge.rubric = <<>> /\ judge.checks = <<>>
Clamp(s) == IF s > Scale THEN Scale ELSE IF s < 0 THEN 0 ELSE s
Repeat(x, n) == [i \in 1 .. n |-> x]

\* The deterministic criteria.  An unknown type, a limit or pattern that is
\* not one, and a cost nobody knows do not pass.
TypedAssertion(c) ==
  \/ c.type \in {"contains", "regex"} /\ c.limit \in out.finds
  \/ c.type = "is-json" /\ out.json # "none"
  \/ c.type = "cost_under" /\ out.cost # Missing /\ out.cost < c.limit
  \/ c.type = "duration_under" /\ out.duration < c.limit
  \/ c.type = "json-schema" /\ out.json = "fits"

Checked == [i \in DOMAIN judge.checks |-> [score |-> IF TypedAssertion(judge.checks[i]) THEN Scale ELSE 0, weight |-> 1]]

-----------------------------------------------------------------------------
Weights == [i \in DOMAIN scored |-> IF judge.aggregation = "weighted_mean" THEN scored[i].weight ELSE 1]
Products == [i \in DOMAIN scored |-> scored[i].score * Weights[i]]
Total(values) == SumFunctionOnSet(values, DOMAIN values)

\* The mean, the weighted mean, or the least of the scores; 0 for none.
AggregateScores ==
  IF scored = <<>> THEN [sum |-> 0, of |-> 1]
  ELSE IF judge.aggregation = "min"
    THEN [sum |-> Min({scored[i].score : i \in DOMAIN scored}), of |-> 1]
  ELSE IF Total(Weights) <= 0 THEN [sum |-> 0, of |-> 1]
  ELSE [sum |-> Total(Products), of |-> Total(Weights)]

Verdict(o, partial) ==
  IF o.sum >= judge.threshold * o.of THEN "pass"
  ELSE IF partial /\ 2 * o.sum >= judge.threshold * o.of THEN "warn" ELSE "fail"

Ballot(verdict, o) == [verdict |-> verdict, sum |-> o.sum, of |-> o.of]
Nothing == [sum |-> 0, of |-> 1]

\* An evaluation ends: its vote is in; the next judge of the quorum, if any.
Cast(ballot) ==
  /\ votes' = Append(votes, ballot)
  /\ scored' = <<>> /\ round' = 1
  /\ call' = IF Len(votes') < judge.quorum THEN "start" ELSE "tally"
  /\ UNCHANGED <<judge, out, evaluation, final, previous, judged, compared>>

Ask(next, scores) ==
  /\ call' = next /\ scored' = scores
  /\ UNCHANGED <<judge, out, evaluation, votes, final, previous, judged, compared>>

Hear(r) == heard' = (heard \/ (r.text = "json" /\ (r.score >= 0 \/ r.each # <<>>)))

AfterRubric == IF judge.llm = 0 THEN "sum" ELSE IF judge.method = "g_eval" THEN "steps" ELSE "score"

Start ==
  /\ call = "start" /\ UNCHANGED heard
  /\ IF NoCriteria THEN Cast(Ballot("pass", [sum |-> Scale, of |-> 1]))
     ELSE /\ UNCHANGED round
          /\ IF judge.method = "debate" THEN Ask("bull", <<>>)
             ELSE IF judge.method = "reflection" THEN Ask("critique", <<>>)
             ELSE Ask(IF judge.rubric # <<>> THEN "rubric" ELSE AfterRubric, Checked)

\* The rubric call: a criterion it does not answer, and every one when the
\* call comes to nothing, scores 0.
RubricScores(r) ==
  [i \in DOMAIN judge.rubric |->
     [score |-> IF r.text = "json" /\ r.ok /\ i <= Len(r.each) THEN Clamp(r.each[i]) ELSE 0, weight |-> judge.rubric[i]]]

EvaluateRubricCriteria(r) ==
  /\ call = "rubric" /\ Hear(r)
  /\ Ask(AfterRubric, scored \o RubricScores(r)) /\ UNCHANGED round

\* G-Eval: the steps only shape the prompt of the next call.
GenerateEvalSteps == call = "steps" /\ Ask("score", scored) /\ UNCHANGED <<round, heard>>

\* In the mean an overall score stands for every criterion of the model, as
\* it is; otherwise the scores it gave the criteria count.
ModelScores(r) ==
  IF judge.aggregation = "mean"
    THEN Repeat([score |-> IF r.score < 0 THEN 0 ELSE r.score, weight |-> 1], judge.llm)
    ELSE [i \in DOMAIN r.each |-> [score |-> r.each[i], weight |-> 1]]

ScoreCall(r) ==
  /\ call = "score"
  /\ IF r.text = "json" /\ r.ok
       THEN Hear(r) /\ Ask("sum", scored \o ModelScores(r)) /\ UNCHANGED round
       ELSE UNCHANGED heard /\ Cast(Ballot("error", Nothing))

SumUp == call = "sum" /\ Cast(Ballot(Verdict(AggregateScores, TRUE), AggregateScores)) /\ UNCHANGED heard

-----------------------------------------------------------------------------
\* Debate and reflection do not look at the exit code; a text without a
\* score is a score of one half.
Raises(r) == r.text \in {"raises", "broken"} \/ r.score = NotANumber
\* mutant: a reply without a score takes the highest.
SaidScoreTrusting(r) == IF r.score = Missing THEN Scale ELSE Clamp(r.score)
SaidScore(r) == IF r.score = Missing THEN Half ELSE Clamp(r.score)
Rounds == IF judge.rounds < 1 THEN 1 ELSE IF judge.rounds > 4 THEN 4 ELSE judge.rounds

ScoresMean(scores) ==
  [sum |-> Total([i \in DOMAIN scores |-> scores[i].score]), of |-> Len(scores)]
CastMean(scores) == Cast(Ballot(Verdict(ScoresMean(scores), FALSE), ScoresMean(scores)))

Said(r) == Append(scored, [score |-> SaidScore(r), weight |-> 1])

\* A call that raises ends the debate with the scores there are.
Bull(r) ==
  /\ call = "bull"
  /\ IF Raises(r)
       THEN /\ UNCHANGED heard
            /\ IF scored # <<>> THEN CastMean(scored) ELSE Cast(Ballot("error", Nothing))
       ELSE Hear(r) /\ Ask("bear", Said(r)) /\ UNCHANGED round

Bear(r) ==
  /\ call = "bear"
  /\ IF Raises(r) THEN UNCHANGED heard /\ CastMean(scored)
     ELSE /\ Hear(r)
          /\ IF round < Rounds THEN Ask("bull", Said(r)) /\ round' = round + 1
             ELSE CastMean(Said(r))

\* Reflection: a critique that finds nothing, or comes to nothing, is
\* replaced by a direct question.
Critique(r) ==
  /\ call = "critique" /\ UNCHANGED <<round, heard>>
  /\ Ask(IF r.text = "json" /\ r.each # <<>> THEN "calibrate" ELSE "fallback", scored)

Calibrate(r) ==
  /\ call \in {"fallback", "calibrate"}
  /\ IF Raises(r) THEN UNCHANGED heard /\ Cast(Ballot("error", Nothing))
     ELSE Hear(r) /\ CastMean(Said(r))

-----------------------------------------------------------------------------
With(verdict) == {i \in DOMAIN votes : votes[i].verdict = verdict}
Valid == DOMAIN votes \ With("error")

\* _run_judge_quorum: errors do not vote; without any vote the output fails.
QuorumVerdict ==
  LET passes == Cardinality(With("pass"))
      enough == IF judge.strategy = "unanimous" THEN passes = Cardinality(Valid)
                ELSE IF judge.strategy = "any" THEN passes > 0
                ELSE 2 * passes > Cardinality(Valid)
  IN IF Valid # {} /\ enough THEN "pass" ELSE "fail"

\* The vote whose criteria and reasoning go into the result, by preference.
Representative(verdict) ==
  LET order == IF verdict = "pass" THEN <<"pass", "warn", "fail", "error">>
               ELSE <<"fail", "warn", "error", "pass">>
      best == CHOOSE k \in 1 .. 4 : With(order[k]) # {} /\ \A l \in 1 .. k - 1 : With(order[l]) = {} IN
  CHOOSE i \in With(order[best]) : \A l \in With(order[best]) : i <= l

\* The average of the valid votes, over a common denominator.
QuorumScore ==
  LET D == FoldSet(LAMBDA i, n : n * votes[i].of, 1, Valid) IN
  IF Valid = {} THEN Nothing
  ELSE [sum |-> FoldSet(LAMBDA i, n : n + votes[i].sum * (D \div votes[i].of), 0, Valid),
        of |-> D * Cardinality(Valid)]

RunJudgeQuorum ==
  /\ call = "tally" /\ call' = "compare"
  /\ final' = IF judge.quorum < 2
                THEN [vote |-> 1, verdict |-> votes[1].verdict, sum |-> votes[1].sum, of |-> votes[1].of]
                ELSE [vote |-> Representative(QuorumVerdict), verdict |-> QuorumVerdict,
                      sum |-> QuorumScore.sum, of |-> QuorumScore.of]
  /\ UNCHANGED <<judge, out, evaluation, scored, round, votes, previous, heard, judged, compared>>

\* After a failed attempt the judge also compares, once; what it says goes
\* into the feedback and the log.  Then the verdict is applied.
Failed == final.verdict \in {"fail", "error"} /\ judge.onFail # "warn"
Retries == judge.onFail # "fail" /\ evaluation < JudgeAttempts

ApplyVerdict ==
  /\ call = "compare"
  /\ compared' = IF previous # 0 THEN [evaluation |-> evaluation, with |-> previous] ELSE compared
  /\ previous' = IF Failed /\ judge.onFail = "retry" /\ final.verdict = "fail" THEN evaluation ELSE 0
  /\ judged' = [evaluation |-> evaluation, verdict |-> final.verdict]
  /\ call' = IF Failed /\ Retries THEN "next" ELSE "over"
  /\ UNCHANGED <<judge, out, evaluation, scored, round, votes, final, heard>>

\* The next attempt: its command and checks may fail before the judge.
NextAttempt(o, reached) ==
  /\ call = "next" /\ out' = o /\ evaluation' = evaluation + 1
  /\ call' = IF reached THEN "start" ELSE IF evaluation' < JudgeAttempts THEN "next" ELSE "over"
  /\ scored' = <<>> /\ round' = 1 /\ votes' = <<>> /\ final' = NoFinal /\ heard' = FALSE
  /\ UNCHANGED <<judge, previous, judged, compared>>

JudgeNext ==
  \/ Start \/ GenerateEvalSteps \/ SumUp \/ RunJudgeQuorum \/ ApplyVerdict
  \/ \E r \in Replies :
       \/ EvaluateRubricCriteria(r) \/ ScoreCall(r)
       \/ Bull(r) \/ Bear(r) \/ Critique(r) \/ Calibrate(r)
  \/ \E o \in JudgedOutputs, reached \in BOOLEAN : NextAttempt(o, reached)
JudgeSpec == JudgeInit /\ [][JudgeNext]_judgeVars

-----------------------------------------------------------------------------
\* A verdict rests on what was said.  Judge models that all fail to answer never
\* let an output pass: with only criteria for the models and a threshold above one
\* half, a pass takes an answer with a number in it (timeouts, exit codes and
\* texts that do not parse become errors, zeros or halves on five different
\* paths).  And an output is compared with that of the last attempt that was
\* judged, and only when the judge failed it, however many attempts in between
\* did not get as far as the judge.
PassTakesAnAnswer ==
  /\ ~NoCriteria /\ judge.checks = <<>> /\ judge.threshold > Half
  /\ final.verdict = "pass"
  => heard
VerdictGrounded ==
  [][/\ PassTakesAnAnswer'
     /\ compared' # compared => compared'.with = judged.evaluation /\ judged.verdict = "fail"]_judgeVars
===============================================================================
