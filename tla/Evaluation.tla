------------------------------- MODULE Evaluation -------------------------------
(***************************************************************************)
(* Two ways to the predictions evals/risk_eval.py measures: the worker's   *)
(* --predict-jsonl (offline), which writes a file that may be cut short,   *)
(* and its /score endpoint, asked row by row.  The evaluation joins        *)
(* predictions to rows by position.                                        *)
(*                                                                         *)
(* An event stands for its id as well.  --benchmark takes the other branch *)
(* of offline and reports percentiles of its samples.                      *)
(***************************************************************************)
EXTENDS RiskModel

CONSTANTS
    MaxRows,        \* bound: rows of a dataset
    Counts          \* sample counts a benchmark is asked for

ASSUME EvaluationAssumption == MaxRows \in Nat /\ Counts \subseteq Nat \ {0}

(* How a line of the dataset spells its event: with its label; without it; *)
(* with a value valid() refuses; with a member nobody knows; not as JSON.  *)
Kinds == {"labelled", "unlabelled", "invalid", "unknown", "text"}

Row     == [event : Samples, kind : Kinds]
Dataset == UNION {[1..n -> Row] : n \in 0..MaxRows}

VARIABLES
    artifact,   \* the model.json in the binary, and given to the evaluation
    rows,       \* the dataset
    parsed,     \* lines offline has parsed
    printed,    \* predictions in its output
    offline,    \* how far it is, or how it ended
    bench,      \* sample count and indexes of the reported percentiles
    verdict,    \* how the evaluation of that output ended
    answers,    \* predictions from /score
    http        \* how the evaluation over HTTP ended

fileVars == <<parsed, printed, offline, bench, verdict>>
vars     == <<artifact, rows, fileVars, answers, http>>

-----------------------------------------------------------------------------
(* Serde takes the fields of an event and no others; the event is checked. *)
Valid(row) == row.kind \in {"labelled", "unlabelled"}

(* Mutant: the checks of valid() are left to the model. *)
ScoresAnything(row) == row.kind # "text"

(* The endpoint gets the row without its label.                            *)
Scores(row) == Valid(row)

(* Mutant: a line that is no valid event is left out. *)
SkipLine ==
    /\ offline = "reading" /\ parsed < Len(rows)
    /\ parsed' = parsed + 1
    /\ printed' = IF Valid(rows[parsed']) /\ Loads(artifact)
                  THEN Append(printed, score(artifact, rows[parsed'].event))
                  ELSE printed
    /\ UNCHANGED <<artifact, rows, offline, bench, verdict, answers, http>>

(* The first line that is no valid event ends the process with an error.   *)
ParseLine ==
    /\ offline = "reading" /\ parsed < Len(rows)
    /\ IF Valid(rows[parsed + 1]) THEN parsed' = parsed + 1 /\ offline' = offline
       ELSE parsed' = parsed /\ offline' = "error"
    /\ UNCHANGED <<artifact, rows, printed, bench, verdict, answers, http>>

EndOfFile ==
    /\ offline = "reading" /\ parsed = Len(rows)
    /\ offline' = IF rows = <<>> THEN "error" ELSE "parsed"
    /\ UNCHANGED <<artifact, rows, parsed, printed, bench, verdict, answers, http>>

PrintLine ==
    /\ offline = "parsed" /\ Loads(artifact) /\ Len(printed) < Len(rows)
    /\ printed' = Append(printed, score(artifact, rows[Len(printed) + 1].event))
    /\ offline' = IF Len(printed') = Len(rows) THEN "done" ELSE offline
    /\ UNCHANGED <<artifact, rows, parsed, bench, verdict, answers, http>>

(* The first use of the artifact aborts the process unless it loads.       *)
Abort ==
    /\ offline = "parsed" /\ ~Loads(artifact)
    /\ offline' = "error"
    /\ UNCHANGED <<artifact, rows, parsed, printed, bench, verdict, answers, http>>

(* The process is killed, or its output cannot be written.  A line printed *)
(* in part does not parse, which the evaluation refuses as well.           *)
Cut ==
    /\ offline \in {"reading", "parsed"}
    /\ offline' = "cut"
    /\ UNCHANGED <<artifact, rows, parsed, printed, bench, verdict, answers, http>>

(* Indexes into the sorted times, from 0.                                  *)
P50(count) == count \div 2

(* Mutant: one sample too early. *)
P99Early(count) == (count * 99) \div 100 - 1

P99(count) == LET i == (count * 99) \div 100 IN IF i < count - 1 THEN i ELSE count - 1

Benchmark ==
    /\ offline = "parsed" /\ Loads(artifact) /\ printed = <<>>
    /\ \E count \in Counts :
          bench' = [count |-> count, p50 |-> P50(count), p99 |-> P99(count)]
    /\ offline' = "benchmarked"
    /\ UNCHANGED <<artifact, rows, parsed, printed, verdict, answers, http>>

-----------------------------------------------------------------------------
(* risk_eval.py: every line is JSON, and the row has a label.              *)
Readable == \A i \in DOMAIN rows : rows[i].kind # "text"
Measured(row) == row.kind # "unlabelled"

(* The score in Python, from the transform of the training script.         *)
Expected(e) ==
    LET x == [k \in 1..7 |-> Trained(FeatureNames[k], e)]
    IN  Slope * (Intercept * Unit + Dot(x, Weights(artifact))) + Offset

(* The comparison of model_version is passed: artifact is also the model   *)
(* the evaluation is given.                                                *)
Matches(prediction, row) ==
    /\ prediction.event = row.event
    /\ prediction.score = Expected(row.event)
    /\ prediction.risky = (Expected(row.event) >= Cutoff)
    /\ Measured(row)

(* Mutant: predictions are zipped to as many rows. *)
JoinsShort(predictions) ==
    /\ Readable /\ predictions # <<>>
    /\ \A i \in DOMAIN predictions : i <= Len(rows) /\ Matches(predictions[i], rows[i])

Joins(predictions) ==
    /\ Readable /\ rows # <<>>
    /\ Len(predictions) = Len(rows)
    /\ \A i \in DOMAIN rows : Matches(predictions[i], rows[i])

Evaluate ==
    /\ offline \in {"done", "error", "cut"} /\ verdict = "none"
    /\ verdict' = IF Joins(printed) THEN "ok" ELSE "error"
    /\ UNCHANGED <<artifact, rows, parsed, printed, offline, bench, answers, http>>

Post ==
    /\ http = "none" /\ Readable /\ Len(answers) < Len(rows)
    /\ LET row == rows[Len(answers) + 1]
       IN  IF Loads(artifact) /\ Scores(row) /\ Matches(score(artifact, row.event), row)
           THEN answers' = Append(answers, score(artifact, row.event)) /\ http' = http
           ELSE answers' = answers /\ http' = "error"
    /\ UNCHANGED <<artifact, rows, fileVars>>

EndOfRows ==
    /\ http = "none" /\ (~Readable \/ Len(answers) = Len(rows))
    /\ http' = IF Joins(answers) THEN "ok" ELSE "error"
    /\ UNCHANGED <<artifact, rows, fileVars, answers>>

-----------------------------------------------------------------------------
Init ==
    /\ artifact \in Artifact /\ rows \in Dataset
    /\ parsed = 0 /\ printed = <<>> /\ offline = "reading" /\ bench = <<>>
    /\ verdict = "none" /\ answers = <<>> /\ http = "none"

Next ==
    \/ ParseLine \/ EndOfFile \/ PrintLine \/ Abort \/ Cut \/ Benchmark
    \/ Evaluate \/ Post \/ EndOfRows

Spec == Init /\ [][Next]_vars

-----------------------------------------------------------------------------
(* A file is evaluated only if it is the whole run over this dataset: a cut*)
(* or refused run never passes for the predictions of its first rows.  And *)
(* a whole run over labelled rows passes: the evaluation computes the same *)
(* scores and decisions as the worker.                                     *)
EvaluatedWhole ==
    /\ verdict = "ok" => offline = "done" /\ Len(printed) = Len(rows)
    /\ offline = "done" /\ verdict # "none" /\ (\A i \in DOMAIN rows : Measured(rows[i]))
          => verdict = "ok"

(* All or nothing: a dataset with a line that is no valid event leaves no  *)
(* prediction behind, and no prediction is out of place.                   *)
NoPartialPredictions ==
    /\ offline = "error" => printed = <<>>
    /\ Len(printed) <= Len(rows)
    /\ \A i \in DOMAIN printed : printed[i].event = rows[i].event

(* Both ways agree.  Unless the file was cut they end alike, with the same *)
(* predictions: /score and offline take the same rows for valid.           *)
RoutesAgree ==
    verdict # "none" /\ offline # "cut" /\ http # "none" =>
        /\ verdict = http
        /\ verdict = "ok" => printed = answers

(* The reported percentiles are samples, in order, and hold what they say: *)
(* counting from 1, half or 99 of 100 samples are not above them.          *)
PercentilesHold ==
    bench # <<>> =>
        /\ 0 <= bench.p50 /\ bench.p50 <= bench.p99 /\ bench.p99 < bench.count
        /\ 2 * (bench.p50 + 1) >= bench.count
        /\ 100 * (bench.p99 + 1) >= 99 * bench.count

Predictions ==
    {printed[i] : i \in DOMAIN printed} \cup {answers[i] : i \in DOMAIN answers}

(* Served as trained.  A worker that starts computes for every event what  *)
(* the exported model predicts: each weight meets the feature it was fitted*)
(* to, transformed as in training, limits included.                        *)
ServedAsTrained ==
    \A p \in Predictions : p.score = Modelled(p.event)

(* A stronger risk never scores lower, and an event is not allowed when a  *)
(* weaker one is up for review: clamping saturates and never turns over.   *)
StrongerRiskScoresHigher ==
    \A p, q \in Predictions :
        Riskier(p.event, q.event) =>
            p.score <= q.score /\ (p.risky => q.risky)
=============================================================================
