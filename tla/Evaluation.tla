----------------------------- MODULE Evaluation -----------------------------
(***************************************************************************)
(* The evaluators and the batches that run them.  An evaluator scores one  *)
(* case (variable verdict); a batch runs the agent for the cases without   *)
(* an answer, evaluates them one by one or concurrently under a semaphore, *)
(* and sums up (variable batch).  Scores are fractions num / den.          *)
(***************************************************************************)
EXTENDS Integers, Sequences, FiniteSets, FiniteSetsExt

CONSTANTS
  Cases,         \* cases of a batch
  Concurrency,   \* WithConcurrency
  MaxToolCalls,  \* tool calls of an answer
  EvalBudget     \* CostConfig.Budget, the latency threshold

ASSUME EvalAssumption ==
  Cases \in Nat /\ Concurrency \in Nat \ {0} /\ MaxToolCalls \in Nat /\ EvalBudget \in Nat \ {0}

VARIABLES verdict, batch

evalVars == <<verdict, batch>>

---------------------------------------------------------------------------
(* Evaluators *)

ToolCalls == UNION {[1..n -> [name : {"a", "b"}, args : {1, 2}]] : n \in 0..MaxToolCalls}

Clamp(n, lo, hi) == IF n < lo THEN lo ELSE IF n > hi THEN hi ELSE n
Score(num, den, passed) == [num |-> num, den |-> den, passed |-> passed, error |-> FALSE]
EvalError == [num |-> 0, den |-> 1, passed |-> FALSE, error |-> TRUE]

\* The search for every expected call starts where the previous one ended.
Scan_FromStart(expected, actual, strict) ==
  LET name(i) == {j \in 1..Len(actual) : actual[j].name = expected[i].name} IN
  {i \in 1..Len(expected) : \E j \in name(i) : strict => actual[j].args = expected[i].args}

\* The position each expected call is found at, Len(actual) + 1 when it is not.
FoundAt(expected, actual) ==
  LET at[i \in 0..Len(expected)] ==
        IF i = 0 THEN 0
        ELSE LET later == {j \in at[i-1] + 1 .. Len(actual) : actual[j].name = expected[i].name}
             IN IF later = {} THEN Len(actual) + 1 ELSE Min(later)
  IN at

\* A call with other arguments is found but does not match.
Scan(expected, actual, strict) ==
  LET at == FoundAt(expected, actual) IN
  {i \in 1..Len(expected) :
     at[i] # Len(actual) + 1 /\ (strict => actual[at[i]].args = expected[i].args)}

ToolCallEval(expected, actual, strict) ==
  IF expected = <<>> THEN Score(1, 1, TRUE)
  ELSE LET matched == Cardinality(Scan(expected, actual, strict))
       IN Score(matched, Len(expected), matched = Len(expected))

\* No keywords pass; otherwise the share found against a threshold in halves.
ContainsEval(found, keywords, threshold) ==
  IF keywords = 0 THEN Score(1, 1, TRUE)
  ELSE Score(found, keywords, 2 * found >= threshold * keywords)

ExactMatchEval(same) == IF same THEN Score(1, 1, TRUE) ELSE Score(0, 1, FALSE)

\* 1 - used / (2 * budget), within the budget or not.
LinearScore(used) ==
  Score(Clamp(2 * EvalBudget - used, 0, 2 * EvalBudget), 2 * EvalBudget, used <= EvalBudget)

CostEval(usage, failOnMissing) ==
  IF usage = {} THEN IF failOnMissing THEN Score(0, 1, FALSE) ELSE Score(1, 1, TRUE)
  ELSE LinearScore(CHOOSE n \in usage : TRUE)

LatencyEval(duration) == LinearScore(duration)

\* The lines of a judge's answer up to the one that completes all three
\* labels; a value that does not parse, or a missing label, fails the case.
JudgeLine == {"score0", "score1", "scoreX", "passT", "passF", "passX", "reason", "other"}
ParseJudge(lines) ==
  LET has(k, set) == \E i \in 1..k : lines[i] \in set
      complete == {k \in 1..Len(lines) : /\ has(k, {"score0", "score1"}) /\ has(k, {"passT", "passF"})
                                         /\ has(k, {"reason"})}
      n == IF complete = {} THEN Len(lines) ELSE Min(complete)
      last(set) == Max({0} \cup {i \in 1..n : lines[i] \in set})
      s == last({"score0", "score1"})  p == last({"passT", "passF"})
  IN IF has(n, {"scoreX", "passX"}) \/ s = 0 \/ p = 0 THEN Score(0, 1, FALSE)
     ELSE Score(IF lines[s] = "score1" THEN 1 ELSE 0, 1, lines[p] = "passT")

Total(points) ==
  LET sum[i \in 0..Len(points)] == IF i = 0 THEN 0 ELSE sum[i - 1] + points[i]
  IN sum[Len(points)]

\* What one evaluator of a composite made of the case, its score in halves, and
\* its weight.  Score and pass go their own ways: half the keywords may pass or
\* fail, a judge may fail what it scores in full.
SubResult == {r \in [score : 0..2, passed : BOOLEAN, error : BOOLEAN, weight : 0..2] :
                r.error => r.score = 0 /\ ~r.passed}

\* CompositeEvaluator: an error fails the case or, with FailFast, the
\* evaluation; it scores zero under its weight.
CompositeEval(subs, failFast) ==
  LET n == Len(subs)
      w == IF \A i \in 1..n : subs[i].weight = 0 THEN [i \in 1..n |-> 1]
           ELSE [i \in 1..n |-> subs[i].weight]
      erred == \E i \in 1..n : subs[i].error
  IN IF n = 0 THEN Score(1, 1, TRUE)
     ELSE IF failFast /\ erred THEN EvalError
     ELSE [num |-> Total([i \in 1..n |-> w[i] * subs[i].score]), den |-> 2 * Total(w),
           passed |-> \A i \in 1..n : subs[i].passed, error |-> erred]

NoVerdict == [kind |-> "none", expected |-> <<>>, actual |-> <<>>, strict |-> FALSE, subs |-> <<>>,
              score |-> Score(1, 1, TRUE)]
Verdict(kind, score) == verdict' = [NoVerdict EXCEPT !.kind = kind, !.score = score]

EvaluateCase ==
  /\ verdict = NoVerdict
  /\ \/ \E e, a \in ToolCalls, strict \in BOOLEAN :
          verdict' = [kind |-> "calls", expected |-> e, actual |-> a, strict |-> strict, subs |-> <<>>,
                      score |-> ToolCallEval(e, a, strict)]
     \/ \E k \in 0..2, threshold \in 1..2 : \E n \in 0..k :
          Verdict("contains", ContainsEval(n, k, threshold))
     \/ \E same \in BOOLEAN : Verdict("exact", ExactMatchEval(same))
     \/ \E usage \in {{}} \cup {{n} : n \in 0..3*EvalBudget}, fail \in BOOLEAN :
          Verdict("cost", CostEval(usage, fail))
     \/ \E duration \in 0..3*EvalBudget : Verdict("latency", LatencyEval(duration))
     \/ \E lines \in [1..3 -> JudgeLine] : Verdict("judge", ParseJudge(lines))
     \/ \E n \in 0..2, failFast \in BOOLEAN :
        \E subs \in [1..n -> SubResult] :
          verdict' = [NoVerdict EXCEPT !.kind = "composite", !.subs = subs,
                                       !.score = CompositeEval(subs, failFast)]
  /\ UNCHANGED batch

---------------------------------------------------------------------------
(* Batches *)

\* "partial": an EvalResult that carries an error text, as a composite makes.
CaseOutcome == {"pass", "fail", "partial", "error"}

EvalInit ==
  /\ verdict = NoVerdict
  /\ \E mode \in {"one", "many"}, answered \in SUBSET (1..Cases) :
       batch = [at |-> "new", mode |-> mode, answered |-> answered, next |-> 1, waiting |-> {},
                evaluating |-> {}, slots |-> [i \in 1..Cases |-> "nil"], read |-> 1, results |-> <<>>,
                cancelled |-> FALSE, stopped |-> FALSE, pass |-> 0, fail |-> 0, errors |-> 0, scored |-> 0]

CancelBatch ==
  /\ batch.at # "done" /\ ~batch.cancelled
  /\ batch' = [batch EXCEPT !.cancelled = TRUE]
  /\ UNCHANGED verdict

\* RunAndEvaluate: the agent answers the cases without an answer, in order; a
\* failure or a cancellation ends the whole call without a report.
RunAgent ==
  /\ batch.at = "new"
  /\ \/ /\ batch.answered # 1..Cases /\ ~batch.cancelled
        /\ batch' = [batch EXCEPT !.answered = @ \cup {Min(1..Cases \ @)}]
     \/ /\ batch.answered # 1..Cases
        /\ batch' = [batch EXCEPT !.at = "failed"]
     \/ /\ batch.answered = 1..Cases
        /\ batch' = [batch EXCEPT !.at = "loop"]
  /\ UNCHANGED verdict

Result(i, o) == [case |-> i, outcome |-> o]

\* An error is a failed case too.
Counted_Both(b, o) ==
  [b EXCEPT !.errors = @ + (IF o = "error" THEN 1 ELSE 0),
            !.pass = @ + (IF o = "pass" THEN 1 ELSE 0),
            !.fail = @ + (IF o # "pass" THEN 1 ELSE 0)]

\* The sequential loop counts a result with an error text as failed, the
\* collection of the concurrent one as an error.
Counted(b, o) ==
  LET err == o = "error" \/ (b.mode = "many" /\ o = "partial") IN
  [b EXCEPT !.errors = @ + (IF err THEN 1 ELSE 0),
            !.pass = @ + (IF o = "pass" THEN 1 ELSE 0),
            !.fail = @ + (IF ~err /\ o # "pass" THEN 1 ELSE 0)]

EvaluateNext ==
  /\ batch.at = "loop" /\ batch.mode = "one"
  /\ IF batch.next > Cases \/ batch.cancelled
       THEN batch' = [batch EXCEPT !.at = "average", !.stopped = batch.next <= Cases]
       ELSE \E o \in CaseOutcome :
              batch' = Counted([batch EXCEPT !.next = @ + 1,
                                             !.results = Append(@, Result(batch.next, o))], o)
  /\ UNCHANGED verdict

\* One goroutine per case, started unless the context is cancelled.
StartCase ==
  /\ batch.at = "loop" /\ batch.mode = "many"
  /\ batch' = IF batch.next > Cases \/ batch.cancelled
                THEN [batch EXCEPT !.at = "wait", !.stopped = batch.next <= Cases]
                ELSE [batch EXCEPT !.waiting = @ \cup {batch.next}, !.next = @ + 1]
  /\ UNCHANGED verdict

TakeSem(i) ==
  /\ i \in batch.waiting /\ Cardinality(batch.evaluating) < Concurrency
  /\ batch' = [batch EXCEPT !.waiting = @ \ {i}, !.evaluating = @ \cup {i}]
  /\ UNCHANGED verdict

\* results[idx] is written by its own goroutine.
FinishCase(i) ==
  /\ i \in batch.evaluating
  /\ \E o \in CaseOutcome :
       batch' = [batch EXCEPT !.evaluating = @ \ {i}, !.slots[i] = o]
  /\ UNCHANGED verdict

WaitAll ==
  /\ batch.at = "wait" /\ batch.waiting = {} /\ batch.evaluating = {}
  /\ batch' = [batch EXCEPT !.at = "collect"]
  /\ UNCHANGED verdict

\* One turn of the loop over the results: a slot nothing was written to is
\* left out of the report.
CollectNext ==
  /\ batch.at = "collect"
  /\ LET i == batch.read
         next == [batch EXCEPT !.read = @ + 1] IN
     batch' = IF i > Cases THEN [batch EXCEPT !.at = "average"]
              ELSE IF batch.slots[i] = "nil" THEN next
              ELSE Counted([next EXCEPT !.results = Append(@, Result(i, batch.slots[i]))], batch.slots[i])
  /\ UNCHANGED verdict

WithOutcome(set) == Cardinality({i \in DOMAIN batch.results : batch.results[i].outcome \in set})

ComputeAvgScore ==
  /\ batch.at = "average"
  /\ batch' = [batch EXCEPT !.at = "done", !.scored = WithOutcome({"pass", "fail"})]
  /\ UNCHANGED verdict

BatchStep ==
  \/ CancelBatch \/ RunAgent \/ EvaluateNext \/ StartCase \/ WaitAll \/ CollectNext \/ ComputeAvgScore
  \/ \E i \in 1..Cases : TakeSem(i) \/ FinishCase(i)

EvalStep == EvaluateCase \/ BatchStep

EvalSpec == EvalInit /\ [][EvalStep]_evalVars

---------------------------------------------------------------------------
(* Expected tool calls pass by name exactly when they occur in the answer   *)
(* in that order, and with arguments only if they do; a score is between 0  *)
(* and 1, and for cost, latency and tool calls it is at least the mark of a *)
(* pass exactly when the case passed.  A composite passes no case one of    *)
(* its evaluators could not evaluate, scores in full only if each evaluator *)
(* that has a weight does, and at least one half if all do; its score says  *)
(* nothing of a pass, nor a pass of its score.                              *)
VerdictsSound ==
  LET v == verdict  s == v.score
      Occurs(e, a, strict) ==
        \E f \in [1..Len(e) -> 1..Len(a)] :
          /\ \A i, j \in 1..Len(e) : i < j => f[i] < f[j]
          /\ \A i \in 1..Len(e) : a[f[i]].name = e[i].name /\ (strict => a[f[i]].args = e[i].args)
  IN /\ 0 <= s.num /\ s.num <= s.den /\ s.den > 0
     /\ v.kind = "calls" =>
          /\ s.passed => Occurs(v.expected, v.actual, v.strict)
          /\ ~v.strict => s.passed = Occurs(v.expected, v.actual, FALSE)
          /\ s.passed = (s.num = s.den)
     /\ v.kind \in {"cost", "latency"} => s.passed = (2 * s.num >= s.den)
     /\ v.kind = "composite" =>
          /\ s.passed => ~s.error /\ \A i \in DOMAIN v.subs : ~v.subs[i].error
          /\ s.num = s.den => \A i \in DOMAIN v.subs :
               v.subs[i].score = 2 \/ (v.subs[i].weight = 0 /\ \E j \in DOMAIN v.subs : v.subs[j].weight > 0)
          /\ (\A i \in DOMAIN v.subs : v.subs[i].score >= 1) => 2 * s.num >= s.den

(* A report accounts for each evaluated case once, in the order of the      *)
(* cases and whatever order they finished in: passed, failed and error      *)
(* cases add up to the results, the average is taken over all that are not  *)
(* errors (a sequential batch also counts there, as failed, the results     *)
(* that carry an error text), and cases are missing only when the context   *)
(* was cancelled before they were started.                                  *)
ReportExact ==
  LET b == batch IN
  b.at = "done" =>
    /\ b.pass + b.fail + b.errors = Len(b.results)
    /\ \A i, j \in 1..Len(b.results) : i < j => b.results[i].case < b.results[j].case
    /\ {b.results[i].case : i \in 1..Len(b.results)} = 1 .. b.next - 1
    /\ b.next = Cases + 1 \/ (b.cancelled /\ b.stopped)
    /\ b.mode = "many" => b.scored = b.pass + b.fail
    /\ b.mode = "one" => b.scored + WithOutcome({"partial"}) = b.pass + b.fail

(* An evaluator's verdict means what it says about the case, and the report *)
(* of a batch accounts for all of them.                                     *)
EvaluationSound == VerdictsSound /\ ReportExact
=============================================================================
