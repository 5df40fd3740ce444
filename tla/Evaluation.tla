----------------------------- MODULE Evaluation -----------------------------
(***************************************************************************)
(* An evaluation: build_spec and run_evaluation (api/evaluation_service.py) *)
(* run the cases of a benchmark (evaluation/benchmarks.py) one after the    *)
(* other (runner.py), score what the executor gives (evaluators.py) and     *)
(* write data set, cases and run in one transaction of a thread, which an   *)
(* abort of the task does not stop.                                         *)
(*                                                                          *)
(* A case is its type and what it expects, a result what the evaluator      *)
(* reads of it; scores are in ten-thousandths.                              *)
(***************************************************************************)
EXTENDS Settings, Sequences, SequencesExt, FiniteSets

VARIABLES
  spec,     \* the cases of this evaluation
  executor, \* Deps.evaluation_executor: None, "dev" or "real"
  persists, \* persistence_enabled
  stage,    \* what the task is at
  outcomes, \* type, verdict and score of each case so far
  last,     \* what the executor gave for the last of them
  writer,   \* the thread of _flush_to_mysql
  session,  \* the tables its session has rows for
  rows,     \* the tables of the database that have this evaluation's rows
  result    \* handle.result

vars == <<spec, executor, persists, stage, outcomes, last, writer, session, rows, result>>

Full == 10000

\* _ratio(): rounded to four digits.
Ratio(hit, total) == IF total <= 0 THEN 0 ELSE (2 * hit * Full + total) \div (2 * total)

-----------------------------------------------------------------------------
(* The benchmark: of each type the cases that differ in what they expect *)

RetrievalCases == <<[type |-> "retrieval", sources |-> {"d1"}],
                    [type |-> "retrieval", sources |-> {"d1", "d2"}]>>

\* Tolerances are a fraction of the value, and of the kind of its unit.
NumericCases == <<[type |-> "numeric", value |-> 10, tolerance |-> 2, unit |-> "ratio"]>>

CitationCases == <<[type |-> "citation", minimum |-> 1]>>

AbstentionCases == <<[type |-> "abstention", expect |-> TRUE],
                     [type |-> "abstention", expect |-> FALSE]>>

ProviderCases == <<[type |-> "provider", rate |-> Full, minimum |-> 1],
                   [type |-> "provider", rate |-> 8000, minimum |-> 2]>>

Benchmark ==
  RetrievalCases \o NumericCases \o CitationCases \o AbstentionCases \o ProviderCases

\* The benchmark has no case of the last one.
TaskTypes == {"retrieval", "numeric", "citation", "abstention", "provider", "decision"}

\* build_spec(): of the wanted types, all if none is named, the first cases.
BuildSpec(wanted, limit) ==
  LET Earlier(i) == {j \in 1..i : Benchmark[j].type = Benchmark[i].type}
      chosen == {i \in 1..Len(Benchmark) :
                   /\ wanted = {} \/ Benchmark[i].type \in wanted
                   /\ limit = None \/ Cardinality(Earlier(i)) <= limit}
  IN  [k \in 1..Cardinality(chosen) |->
         Benchmark[CHOOSE i \in chosen : Cardinality({j \in chosen : j <= i}) = k]]

-----------------------------------------------------------------------------
(* What an executor may give; None: the case was not executed *)

\* A hit with a primary key is known by it, whatever document it is of.
Hits == [pk : {None, "k"}, document : {"d1", "d2"}]

Results(type) ==
  {None} \cup
  CASE type = "retrieval"  -> SUBSET Hits
    [] type = "numeric"    -> [answer : {None, 8, 12, 13}, unit : {"ratio", "CNY"}]
    [] type = "citation"   -> {r \in [cited : 0..2, valid : 0..2] : r.valid <= r.cited}
    [] type = "abstention" -> [abstained : BOOLEAN \cup {None},
                               bucket : {None, "ABSTAIN", "HIGH"},
                               score : {None, 4400, 4500}]
    [] type = "provider"   -> {r \in [attempts : {0, 2, 5}, successes : {0, 2, 4},
                                      rate : {None, 8000, Full}] :
                                 r.attempts > 0 => r.successes <= r.attempts}

HitIds(hits) == {IF h.pk # None THEN h.pk ELSE h.document : h \in hits}

-----------------------------------------------------------------------------
(* The evaluators: whether a case is passed, and its score *)

Verdict(passed, score) == [passed |-> passed, score |-> score]

\* Mutant: what was cited is not looked up.
Unresolved(case, r) ==
  LET cited == IF r = None THEN 0 ELSE r.cited
  IN  Verdict(cited >= case.minimum, Ratio(cited, cited))

Retrieval(case, r) ==
  LET hits   == IF r = None THEN {} ELSE HitIds(r)
      recall == Ratio(Cardinality(case.sources \cap hits), Cardinality(case.sources))
  IN  Verdict(recall >= Full, recall)

\* The unit decides whether the case is passed, not its score.
Numeric(case, r) ==
  IF r = None \/ r.answer = None THEN Verdict(FALSE, 0)
  ELSE LET correct == /\ r.answer - case.value <= case.tolerance
                      /\ case.value - r.answer <= case.tolerance
       IN  Verdict(correct /\ r.unit = case.unit, IF correct THEN Full ELSE 0)

\* Every citation resolves, and there are enough of them.
Citation(case, r) ==
  LET cited == IF r = None THEN 0 ELSE r.cited
      valid == IF r = None THEN 0 ELSE r.valid
      ratio == Ratio(valid, cited)
  IN  Verdict(ratio >= Full /\ valid >= case.minimum /\ cited > 0, ratio)

\* By the flag, else by the bucket, else by the score; a case that was not
\* executed did not abstain.
Abstained(r) ==
  /\ r # None
  /\ CASE r.abstained # None -> r.abstained
       [] r.abstained = None /\ r.bucket # None -> r.bucket = "ABSTAIN"
       [] OTHER -> r.score # None /\ r.score < 4500

Abstention(case, r) ==
  LET passed == Abstained(r) = case.expect
  IN  Verdict(passed, IF passed THEN Full ELSE 0)

\* The stated rate counts where there are no attempts to compute it from.
Rate(r) ==
  IF r.attempts = 0 /\ r.rate # None THEN r.rate ELSE Ratio(r.successes, r.attempts)

Provider(case, r) ==
  IF r = None THEN Verdict(FALSE, 0)
  ELSE Verdict(r.successes >= case.minimum /\ Rate(r) >= case.rate, Rate(r))

Evaluate(case, r) ==
  CASE case.type = "retrieval"  -> Retrieval(case, r)
    [] case.type = "numeric"    -> Numeric(case, r)
    [] case.type = "citation"   -> Citation(case, r)
    [] case.type = "abstention" -> Abstention(case, r)
    [] case.type = "provider"   -> Provider(case, r)

\* What the report keeps of a case.
Outcome(case, r) ==
  LET v == Evaluate(case, r)
  IN  [type |-> case.type, passed |-> v.passed, score |-> v.score]

-----------------------------------------------------------------------------
(* The task *)

\* report_to_metrics(): cases, passed and scores, of every type and of all.
Count(os) == [total  |-> Len(os),
              passed |-> Len(SelectSeq(os, LAMBDA o : o.passed)),
              score  |-> FoldLeft(LAMBDA n, o : n + o.score, 0, os)]

Metrics(os) ==
  [overall  |-> Count(os),
   per_type |-> [t \in {os[i].type : i \in 1..Len(os)} |->
                   Count(SelectSeq(os, LAMBDA o : o.type = t))]]

\* create_evaluation(): a request whose data set would be empty is refused
\* before there is a task.
Init ==
  /\ spec \in {BuildSpec(wanted, limit) :
                 wanted \in {{}, {"retrieval", "abstention"}, {"numeric", "provider"},
                             {"citation", "decision"}},
                 limit \in {None, 1}}
  /\ Len(spec) \in 1..MaxCases
  /\ executor \in {None, "dev", "real"}
  /\ persists \in BOOLEAN
  /\ stage    = "submitted"
  /\ outcomes = <<>>
  /\ last     = None
  /\ writer   = "none"
  /\ session  = {}
  /\ rows     = {}
  /\ result   = None

Start ==
  /\ stage = "submitted"
  /\ stage' = IF executor = None THEN "failed" ELSE "running"
  /\ UNCHANGED <<spec, executor, persists, outcomes, last, writer, session, rows, result>>

\* The next case; the dev executor executes none, the real one may raise.
RunCase ==
  /\ stage = "running" /\ Len(outcomes) < Len(spec)
  /\ LET case == spec[Len(outcomes) + 1]
     IN  \/ \E r \in IF executor = "dev" THEN {None} ELSE Results(case.type) :
              /\ outcomes' = Append(outcomes, Outcome(case, r))
              /\ last' = r
              /\ UNCHANGED stage
         \/ executor = "real" /\ stage' = "failed" /\ UNCHANGED <<outcomes, last>>
  /\ UNCHANGED <<spec, executor, persists, writer, session, rows, result>>

\* What the report says, once the cases are through.
Report(persisted) ==
  [case_count |-> Len(spec), evaluated_count |-> Len(outcomes),
   persisted |-> persisted, metrics |-> Metrics(outcomes)]

\* The calls of the store are buffered; with persistence a thread replays them.
Finish ==
  /\ stage = "running" /\ Len(outcomes) = Len(spec)
  /\ IF persists THEN stage' = "flushing" /\ writer' = "queued" /\ UNCHANGED result
     ELSE stage' = "completed" /\ result' = Report(FALSE) /\ UNCHANGED writer
  /\ UNCHANGED <<spec, executor, persists, outcomes, last, session, rows>>

\* Mutant: the data set is committed as soon as it is added.
AddAndCommit ==
  /\ writer = "queued"
  /\ writer' = "cases" /\ session' = {} /\ rows' = {"dataset"}
  /\ UNCHANGED <<spec, executor, persists, stage, outcomes, last, result>>

\* replay(), in the order of the calls; what is added is not yet written.
AddDataset ==
  /\ writer = "queued"
  /\ writer' = "cases" /\ session' = {"dataset"}
  /\ UNCHANGED <<spec, executor, persists, stage, outcomes, last, rows, result>>

AddCases ==
  /\ writer = "cases"
  /\ writer' = "run" /\ session' = session \cup {"cases"}
  /\ UNCHANGED <<spec, executor, persists, stage, outcomes, last, rows, result>>

\* persist_run() adds the run and commits; session_scope() rolls back what
\* could not be written.
Commit ==
  /\ writer = "run"
  /\ session' = {}
  /\ \/ writer' = "done"   /\ rows' = rows \cup session \cup {"run"}
     \/ writer' = "failed" /\ UNCHANGED rows
  /\ UNCHANGED <<spec, executor, persists, stage, outcomes, last, result>>

\* The thread is over, and the task with it.
Flushed ==
  /\ stage = "flushing" /\ writer \in {"done", "failed"}
  /\ IF writer = "done" THEN stage' = "completed" /\ result' = Report(TRUE)
     ELSE stage' = "failed" /\ UNCHANGED result
  /\ UNCHANGED <<spec, executor, persists, outcomes, last, writer, session, rows>>

\* TaskManager.abort(): the thread goes on if it has begun.
Abort ==
  /\ stage \in {"submitted", "running", "flushing"}
  /\ stage' = "aborted"
  /\ writer' = IF writer = "queued" THEN "none" ELSE writer
  /\ UNCHANGED <<spec, executor, persists, outcomes, last, session, rows, result>>

Replay == AddDataset \/ AddCases \/ Commit

Next == Start \/ RunCase \/ Finish \/ Replay \/ Flushed \/ Abort

Spec == Init /\ [][Next]_vars

-----------------------------------------------------------------------------
(* Properties *)

Tables == {"dataset", "cases", "run"}

\* An evaluation is in the database with all of its tables or with none, also
\* when it failed or was aborted; and its task says it is kept just when it is
\* (_BufferedStore, persist_run, session_scope).
EvaluationIsWhole ==
  /\ rows \in {{}, Tables}
  /\ stage = "completed" => (result.persisted <=> rows = Tables)
  /\ rows = Tables => Len(outcomes) = Len(spec)

\* Value b is a, or one like it that is better.
SameOr(b, a, better) == b = a \/ (a # None /\ b # None /\ better)

\* Result b is at least as good as a, by the same kind of evidence and by what
\* the case is about: it has more hits, is nearer to the value, cites more and
\* misses less, says more clearly what is expected, or has counts, or else a
\* rate, that are no worse.
AtLeast(case, b, a) ==
  CASE case.type = "retrieval"  -> a \subseteq b
    [] case.type = "numeric"    ->
         /\ a.unit = b.unit /\ a.answer # None /\ b.answer # None
         /\ b.answer \in {a.answer} \cup {n \in 8..13 :
              (n - case.value) * (n - case.value)
                <= (a.answer - case.value) * (a.answer - case.value)}
    [] case.type = "citation"   -> b.valid >= a.valid /\ b.cited - b.valid <= a.cited - a.valid
    [] case.type = "abstention" ->
         /\ SameOr(b.abstained, a.abstained, b.abstained = case.expect)
         /\ SameOr(b.bucket, a.bucket, (b.bucket = "ABSTAIN") = case.expect)
         /\ SameOr(b.score, a.score, IF case.expect THEN b.score <= a.score
                                     ELSE b.score >= a.score)
    [] case.type = "provider"   ->
         /\ b.successes >= a.successes
         /\ \/ /\ a.attempts > 0 /\ b.attempts > 0
               /\ b.attempts - b.successes <= a.attempts - a.successes
            \/ /\ a.attempts = 0 /\ b.attempts = 0
               /\ SameOr(b.rate, a.rate, b.rate >= a.rate)

\* A verdict is earned: no better result gets a lower score or fails where a
\* worse one passed, and a case nobody executed is passed only where an answer
\* is expected (the evaluators and DevEvalExecutor).
ScoresAreEarned ==
  outcomes # <<>> =>
    LET case == spec[Len(outcomes)]
        o    == outcomes[Len(outcomes)]
    IN  IF last = None THEN o.passed => case.type = "abstention" /\ ~case.expect
        ELSE \A better \in Results(case.type) \ {None} :
               AtLeast(case, better, last) =>
                 LET v == Evaluate(case, better)
                 IN  v.score >= o.score /\ (o.passed => v.passed)
=============================================================================
