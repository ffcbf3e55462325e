--------------------------- MODULE EvaluationProofs ---------------------------
(***************************************************************************)
(* The worker scores as trained, monotonically, and only whole runs are    *)
(* evaluated: for every model with non-negative weights, all events and    *)
(* datasets of any length.  First the arithmetic of RiskModel, then the    *)
(* invariant of the two routes to predictions.                             *)
(***************************************************************************)
EXTENDS Evaluation, SequenceTheorems, TLAPS

(* The clamps of the two languages agree, give no negative numbers and keep*)
(* the order.                                                              *)
LEMMA ClampedIsSaturated ==
  ASSUME NEW x \in Nat, NEW s \in Nat
  PROVE  Clamped(x, s) = Saturated(x, s)
  BY DEF Clamped, Saturated, Smaller, Larger

LEMMA UnitDivided ==
  ASSUME NEW s \in Nat \ {0}
  PROVE  Unit \div s \in Nat
  BY DEF Unit

LEMMA Product ==
  ASSUME NEW w \in Nat, NEW x \in Int, NEW y \in Int, x <= y
  PROVE  x * w \in Int /\ y * w \in Int /\ x * w <= y * w
  OBVIOUS

LEMMA ClampedOrder ==
  ASSUME NEW x \in Nat, NEW y \in Nat, x <= y, NEW s \in Nat \ {0}
  PROVE  Clamped(x, s) \in Int /\ Clamped(y, s) \in Int /\ Clamped(x, s) <= Clamped(y, s)
<1> DEFINE Bound(n) == IF n < 0 THEN 0 ELSE IF n > 10 * s THEN 10 * s ELSE n
<1>1. Bound(x) \in Int /\ Bound(y) \in Int /\ Bound(x) <= Bound(y)
  OBVIOUS
<1>2. Clamped(x, s) = Bound(x) * (Unit \div s) /\ Clamped(y, s) = Bound(y) * (Unit \div s)
  BY DEF Clamped
<1> QED BY <1>1, <1>2, UnitDivided, Product

(* The k-th feature is the transform of the k-th name.                     *)
LEMMA FeaturesAsTrained ==
  ASSUME NEW e \in Event, NEW k \in 1..7
  PROVE  features(e)[k] = Trained(FeatureNames[k], e)
<1> USE DEF Event
<1>1. /\ Clamped(e.amount_cents, 100000) = Saturated(e.amount_cents, 100000)
      /\ Clamped(e.velocity_5m, 10) = Saturated(e.velocity_5m, 10)
      /\ Clamped(e.velocity_1h, 30) = Saturated(e.velocity_1h, 30)
      /\ Clamped(e.prior_declines, 5) = Saturated(e.prior_declines, 5)
  BY ClampedIsSaturated
<1>2. /\ Night(e) <=> e.hour_utc \notin 6..22
      /\ ~e.card_present <=> e.card_present = FALSE
      /\ e.country # "US" <=> e.country = "other"
  BY DEF Night
<1>3. /\ Flag(Night(e)) = Flag(e.hour_utc \notin 6..22)
      /\ Flag(~e.card_present) = Flag(e.card_present = FALSE)
      /\ Flag(e.country # "US") = Flag(e.country = "other")
  BY <1>2 DEF Flag
<1>4. k = 1 \/ k = 2 \/ k = 3 \/ k = 4 \/ k = 5 \/ k = 6 \/ k = 7
  OBVIOUS
<1> QED BY <1>1, <1>3, <1>4 DEF features, Trained, FeatureNames

(* A riskier event has no smaller feature.                                 *)
LEMMA FeatureOrder ==
  ASSUME NEW e \in Event, NEW f \in Event, Riskier(e, f), NEW k \in 1..7
  PROVE  features(e)[k] \in Int /\ features(f)[k] \in Int /\ features(e)[k] <= features(f)[k]
<1>1. /\ e.amount_cents \in Nat /\ f.amount_cents \in Nat
      /\ e.velocity_5m \in Nat /\ f.velocity_5m \in Nat
      /\ e.velocity_1h \in Nat /\ f.velocity_1h \in Nat
      /\ e.prior_declines \in Nat /\ f.prior_declines \in Nat
      /\ e.card_present \in BOOLEAN /\ f.card_present \in BOOLEAN
      /\ Night(e) \in BOOLEAN /\ Night(f) \in BOOLEAN
      /\ (e.country # "US") \in BOOLEAN /\ (f.country # "US") \in BOOLEAN
  BY DEF Event, Night
<1>2. CASE k = 1
  BY <1>1, <1>2, ClampedOrder DEF Riskier, features
<1>3. CASE k = 2
  BY <1>1, <1>3 DEF Riskier, features, Flag, Unit
<1>4. CASE k = 3
  BY <1>1, <1>4 DEF Riskier, features, Flag, Unit
<1>5. CASE k = 4
  BY <1>1, <1>5 DEF Riskier, features, Flag, Unit
<1>6. CASE k = 5
  BY <1>1, <1>6, ClampedOrder DEF Riskier, features
<1>7. CASE k = 6
  BY <1>1, <1>7, ClampedOrder DEF Riskier, features
<1>8. CASE k = 7
  BY <1>1, <1>8, ClampedOrder DEF Riskier, features
<1> QED BY <1>2, <1>3, <1>4, <1>5, <1>6, <1>7, <1>8

LEMMA WeightTypes ==
  ASSUME NEW a, Loads(a), NEW k \in 1..7
  PROVE  Weights(a)[k] = Weight[FeatureNames[k]] /\ Weights(a)[k] \in Nat
<1>1. FeatureNames[k] \in Names
  BY DEF Names
<1> QED BY <1>1, ModelAssumption DEF Weights, Loads

(* A worker that starts scores as the exported model does ...              *)
LEMMA ScoreIsModelled ==
  ASSUME NEW a, Loads(a), NEW e \in Event
  PROVE  score(a, e).score = Modelled(e)
<1> DEFINE w(k) == Weight[FeatureNames[k]]
           x(k) == Trained(FeatureNames[k], e)
<1>1. \A k \in 1..7 : features(e)[k] = x(k) /\ Weights(a)[k] = w(k)
  BY FeaturesAsTrained, WeightTypes
<1>2. \A k \in 1..7 : x(k) \in Int /\ w(k) \in Int
  <2>1. Riskier(e, e)
    BY DEF Riskier, Event
  <2> QED BY <1>1, <2>1, FeatureOrder, WeightTypes
<1>3. Dot(features(e), Weights(a)) =
        x(1)*w(1) + x(2)*w(2) + x(3)*w(3) + x(4)*w(4) + x(5)*w(5) + x(6)*w(6) + x(7)*w(7)
  BY <1>1 DEF Dot
<1>4. Fitted(e) = Intercept * Unit + w(2)*x(2) + w(4)*x(4) + w(3)*x(3)
                    + w(6)*x(6) + w(5)*x(5) + w(1)*x(1) + w(7)*x(7)
  BY DEF Fitted, FeatureNames
<1>5. Intercept * Unit \in Int
  BY ModelAssumption DEF Unit
<1>6. \A k \in 1..7 : x(k)*w(k) \in Int /\ x(k)*w(k) = w(k)*x(k)
  BY <1>2
<1> HIDE DEF w, x
<1>7. Intercept * Unit + Dot(features(e), Weights(a)) = Fitted(e)
  BY <1>3, <1>4, <1>5, <1>6
<1> QED BY <1>7 DEF score, Modelled

(* ... and in the order of the risk.                                       *)
LEMMA ScoreOrder ==
  ASSUME NEW a, Loads(a), NEW e \in Event, NEW f \in Event, Riskier(e, f)
  PROVE  /\ score(a, e).score \in Int /\ score(a, f).score \in Int
         /\ score(a, e).score <= score(a, f).score
<1> DEFINE w(k) == Weights(a)[k]
           x(k) == features(e)[k]
           y(k) == features(f)[k]
<1>1. \A k \in 1..7 : /\ x(k)*w(k) \in Int /\ y(k)*w(k) \in Int
                      /\ x(k)*w(k) <= y(k)*w(k)
  BY FeatureOrder, WeightTypes, Product
<1>2. Intercept * Unit \in Int
  BY ModelAssumption DEF Unit
<1> DEFINE z1 == Intercept * Unit + Dot(features(e), Weights(a))
           z2 == Intercept * Unit + Dot(features(f), Weights(a))
<1>3. z1 \in Int /\ z2 \in Int /\ z1 <= z2
  BY <1>1, <1>2 DEF Dot
<1>4. score(a, e).score = Slope * z1 + Offset /\ score(a, f).score = Slope * z2 + Offset
  BY DEF score
<1> HIDE DEF z1, z2
<1>5. z1 * Slope \in Int /\ z2 * Slope \in Int /\ z1 * Slope <= z2 * Slope
  BY <1>3, Product, ModelAssumption
<1> QED BY <1>3, <1>4, <1>5, ModelAssumption

-----------------------------------------------------------------------------
(* Both routes accept a dataset for the same reasons.                      *)
Sound ==
    /\ Loads(artifact) /\ rows # <<>>
    /\ \A i \in 1..Len(rows) : rows[i].kind = "labelled"

(* Every prediction is the score of its row.                               *)
Scored(predictions) ==
    /\ predictions \in Seq([event : Event, score : Int, risky : BOOLEAN])
    /\ Len(predictions) <= Len(rows)
    /\ predictions # <<>> => Loads(artifact)
    /\ \A i \in 1..Len(predictions) : predictions[i] = score(artifact, rows[i].event)

(* Offline: what has been read is valid, nothing is printed before all of  *)
(* it is read, and an error is the dataset's or the artifact's.            *)
OfflineOK ==
    /\ offline \in {"reading", "parsed", "done", "error", "cut", "benchmarked"}
    /\ parsed \in 0..Len(rows)
    /\ \A i \in 1..parsed : Valid(rows[i])
    /\ Scored(printed)
    /\ offline \in {"reading", "error"} => printed = <<>>
    /\ offline \in {"parsed", "done", "benchmarked"} => parsed = Len(rows) /\ rows # <<>>
    /\ offline \in {"parsed", "cut"} => rows = <<>> \/ Len(printed) < Len(rows)
    /\ offline = "done" => Len(printed) = Len(rows)
    /\ offline = "error" => ~Sound

VerdictOK ==
    /\ verdict \in {"none", "ok", "error"}
    /\ verdict # "none" => offline \in {"done", "error", "cut"}
    /\ verdict = "ok" => Sound /\ offline = "done"
    /\ verdict = "error" => offline = "cut" \/ ~Sound

HttpOK ==
    /\ http \in {"none", "ok", "error"}
    /\ Scored(answers)
    /\ \A i \in 1..Len(answers) : rows[i].kind = "labelled"
    /\ http = "ok" => Sound /\ Len(answers) = Len(rows)
    /\ http = "error" => ~Sound

Routes ==
    /\ rows \in Seq(Row)
    /\ OfflineOK /\ VerdictOK /\ HttpOK

LEMMA ScoreTypes ==
  ASSUME NEW a, Loads(a), NEW e \in Event
  PROVE  /\ score(a, e) \in [event : Event, score : Int, risky : BOOLEAN]
         /\ score(a, e).event = e
<1>1. Riskier(e, e)
  BY DEF Riskier, Event
<1>2. score(a, e).score \in Int
  BY <1>1, ScoreOrder
<1> DEFINE n == score(a, e).score
           b == (n >= Cutoff)
<1>3. score(a, e) = [event |-> e, score |-> n, risky |-> b]
  BY DEF score
<1>4. n \in Int /\ b \in BOOLEAN
  BY <1>2
<1> HIDE DEF n, b
<1> QED BY <1>3, <1>4

(* The evaluation computes the score of the worker.                        *)
LEMMA ScoreMatches ==
  ASSUME Loads(artifact), NEW row \in Row
  PROVE  Matches(score(artifact, row.event), row) <=> Measured(row)
<1>1. row.event \in Event
  BY ModelAssumption DEF Row
<1> DEFINE e == row.event
           x == [k \in 1..7 |-> Trained(FeatureNames[k], e)]
<1>2. Dot(x, Weights(artifact)) = Dot(features(e), Weights(artifact))
  BY <1>1, FeaturesAsTrained DEF Dot
<1>3. Expected(e) = score(artifact, e).score
  BY <1>2 DEF Expected, score
<1>4. score(artifact, e).risky = (score(artifact, e).score >= Cutoff)
  BY DEF score
<1>5. score(artifact, e).event = e
  BY <1>1, ScoreTypes
<1> HIDE DEF e
<1>6. \A m : (m.event = e /\ m.score = Expected(e) /\ m.risky = (Expected(e) >= Cutoff))
              /\ row.event = e
            => (Matches(m, row) <=> Measured(row))
  BY DEF Matches
<1> QED BY <1>3, <1>4, <1>5, <1>6 DEF e

LEMMA JoinsWhole ==
  ASSUME NEW p, Scored(p), rows \in Seq(Row), p # <<>>,
         \A i \in 1..Len(rows) : Valid(rows[i])
  PROVE  Joins(p) <=> Len(p) = Len(rows) /\ Sound
<1>1. Loads(artifact) /\ Len(p) <= Len(rows) /\ rows # <<>>
  BY DEF Scored
<1>2. Readable
  BY DEF Readable, Valid
<1>3. ASSUME Len(p) = Len(rows), NEW i \in 1..Len(rows)
      PROVE  Matches(p[i], rows[i]) <=> rows[i].kind = "labelled"
  <2>1. rows[i] \in Row /\ p[i] = score(artifact, rows[i].event)
    BY <1>3 DEF Scored
  <2>2. Matches(p[i], rows[i]) <=> Measured(rows[i])
    BY <1>1, <2>1, ScoreMatches
  <2> QED BY <2>2 DEF Measured, Valid
<1> QED BY <1>1, <1>2, <1>3 DEF Joins, Sound

LEMMA ScoredOneMore ==
  ASSUME NEW p, Scored(p), rows \in Seq(Row), Loads(artifact), Len(p) < Len(rows),
         NEW q, q = Append(p, score(artifact, rows[Len(p) + 1].event))
  PROVE  Scored(q) /\ q # <<>> /\ Len(q) = Len(p) + 1
<1>1. Len(p) \in Nat /\ Len(p) + 1 \in 1..Len(rows)
  BY DEF Scored
<1>2. rows[Len(p) + 1].event \in Event
  <2>1. rows[Len(p) + 1] \in Row
    BY <1>1
  <2> QED BY <2>1, ModelAssumption DEF Row
<1>3. score(artifact, rows[Len(p) + 1].event) \in [event : Event, score : Int, risky : BOOLEAN]
  BY <1>2, ScoreTypes
<1> DEFINE S == [event : Event, score : Int, risky : BOOLEAN]
           new == score(artifact, rows[Len(p) + 1].event)
<1>4. p \in Seq(S) /\ new \in S
  BY <1>3 DEF Scored
<1> HIDE DEF S, new
<1>5. /\ Append(p, new) \in Seq(S) /\ Len(Append(p, new)) = Len(p) + 1
      /\ Append(p, new)[Len(p) + 1] = new
      /\ \A i \in 1..Len(p) : Append(p, new)[i] = p[i]
  BY <1>4, AppendProperties
<1>6. q = Append(p, new)
  BY DEF new
<1>7. q \in Seq(S) /\ Len(q) = Len(p) + 1 /\ q # <<>> /\ Len(q) <= Len(rows)
  BY <1>1, <1>5, <1>6
<1>8. \A i \in 1..Len(q) : q[i] = score(artifact, rows[i].event)
  BY <1>1, <1>5, <1>6 DEF Scored, new
<1> QED BY <1>7, <1>8 DEF Scored, S

LEMMA RoutesInit == Init => Routes
<1> SUFFICES ASSUME Init PROVE Routes
  OBVIOUS
<1>1. rows \in Seq(Row)
  BY DEF Init, Dataset
<1> HIDE DEF Row
<1>2. Len(rows) \in Nat /\ (rows = <<>> \/ 0 < Len(rows))
  BY <1>1
<1>3. <<>> \in Seq([event : Event, score : Int, risky : BOOLEAN]) /\ Len(<<>>) = 0
  OBVIOUS
<1>4. Scored(<<>>)
  BY <1>2, <1>3 DEF Scored
<1> QED BY <1>1, <1>2, <1>3, <1>4 DEF Init, Routes, OfflineOK, VerdictOK, HttpOK

(* The steps of offline.                                                   *)
LEMMA OfflineStep ==
  ASSUME Routes, ParseLine \/ EndOfFile \/ PrintLine \/ Abort \/ Cut \/ Benchmark
  PROVE  Routes'
<1> USE DEF Routes
<1>1. HttpOK' /\ (rows \in Seq(Row))' /\ Sound' = Sound
  BY DEF HttpOK, Scored, Sound, ParseLine, EndOfFile, PrintLine, Abort, Cut, Benchmark
<1>2. /\ offline \in {"reading", "parsed"} /\ verdict = "none" /\ verdict' = verdict
      /\ rows' = rows /\ artifact' = artifact
  BY DEF VerdictOK, ParseLine, EndOfFile, PrintLine, Abort, Cut, Benchmark
<1>3. VerdictOK'
  BY <1>2 DEF VerdictOK
<1>4. Len(rows) \in Nat /\ Len(printed) \in Nat /\ Len(printed) <= Len(rows)
      /\ (rows = <<>> <=> Len(rows) = 0) /\ (printed = <<>> <=> Len(printed) = 0)
  BY DEF OfflineOK, Scored
<1>5. CASE ParseLine
  <2>1. parsed + 1 \in 1..Len(rows) /\ printed' = printed /\ printed = <<>>
    BY <1>4, <1>5 DEF ParseLine, OfflineOK
  <2>2. Scored(printed)'
    BY <1>2, <2>1 DEF Scored, OfflineOK
  <2>3. CASE Valid(rows[parsed + 1])
    <3>1. parsed' = parsed + 1 /\ offline' = offline /\ offline = "reading" /\ bench' = bench
      BY <1>5, <2>3 DEF ParseLine
    <3>2. \A i \in 1..parsed' : Valid(rows[i])
      BY <2>1, <2>3, <3>1 DEF OfflineOK
    <3>3. \A i \in 1..parsed' : Valid(rows'[i])
      BY <1>2, <3>2
    <3> QED BY <1>1, <1>2, <1>3, <2>1, <2>2, <3>1, <3>3 DEF OfflineOK, Valid
  <2>4. CASE ~Valid(rows[parsed + 1])
    <3>1. parsed' = parsed /\ offline' = "error" /\ bench' = bench
      BY <1>5, <2>4 DEF ParseLine
    <3>2. ~Sound
      BY <2>1, <2>4 DEF Sound, Valid
    <3>3. \A i \in 1..parsed' : Valid(rows'[i])
      BY <1>2, <3>1 DEF OfflineOK
    <3> QED BY <1>1, <1>2, <1>3, <2>1, <2>2, <3>1, <3>2, <3>3 DEF OfflineOK, Valid
  <2> QED BY <2>3, <2>4
<1>6. CASE EndOfFile
  <2>1. printed = <<>> /\ printed' = printed /\ parsed' = parsed
    BY <1>6 DEF EndOfFile, OfflineOK
  <2> QED BY <1>1, <1>2, <1>3, <1>4, <1>6, <2>1 DEF EndOfFile, OfflineOK, Scored, Sound, Valid
<1>7. CASE PrintLine
  <2>1. Scored(printed') /\ Len(printed') = Len(printed) + 1
    BY <1>7, ScoredOneMore DEF PrintLine, OfflineOK
  <2>2. Scored(printed)'
    BY <1>2, <2>1 DEF Scored
  <2> QED BY <1>1, <1>2, <1>3, <1>4, <1>7, <2>1, <2>2 DEF PrintLine, OfflineOK, Valid
<1>8. CASE Abort
  BY <1>1, <1>2, <1>3, <1>4, <1>8 DEF Abort, OfflineOK, Scored, Sound, Valid
<1>9. CASE Cut
  BY <1>1, <1>2, <1>3, <1>4, <1>9 DEF Cut, OfflineOK, Scored, Valid
<1>10. CASE Benchmark
  BY <1>1, <1>2, <1>3, <1>4, <1>10 DEF Benchmark, OfflineOK, Scored, Valid
<1> QED BY <1>5, <1>6, <1>7, <1>8, <1>9, <1>10

(* The evaluation of the file.                                             *)
LEMMA EvaluateStep ==
  ASSUME Routes, Evaluate
  PROVE  Routes'
<1> USE DEF Routes
<1>1. HttpOK' /\ OfflineOK' /\ (rows \in Seq(Row))' /\ Sound' = Sound
  BY DEF HttpOK, OfflineOK, Scored, Sound, Valid, Evaluate
<1>2. Len(rows) \in Nat /\ Len(printed) \in Nat
      /\ (rows = <<>> <=> Len(rows) = 0) /\ (printed = <<>> <=> Len(printed) = 0)
  BY DEF OfflineOK, Scored
<1>3. CASE offline = "done"
  <2>1. Joins(printed) <=> Sound
    BY <1>2, <1>3, JoinsWhole DEF OfflineOK
  <2> QED BY <1>1, <1>3, <2>1 DEF Evaluate, VerdictOK
<1>4. CASE offline \in {"error", "cut"}
  <2>1. ~Joins(printed)
    BY <1>2, <1>4 DEF OfflineOK, Joins
  <2> QED BY <1>1, <1>4, <2>1 DEF Evaluate, VerdictOK, OfflineOK
<1> QED BY <1>3, <1>4 DEF Evaluate

(* The evaluation over HTTP.                                               *)
LEMMA HttpStep ==
  ASSUME Routes, Post \/ EndOfRows
  PROVE  Routes'
<1> USE DEF Routes
<1>1. OfflineOK' /\ VerdictOK' /\ (rows \in Seq(Row))' /\ Sound' = Sound
  BY DEF OfflineOK, VerdictOK, Scored, Sound, Valid, fileVars, Post, EndOfRows
<1>2. Len(rows) \in Nat /\ Len(answers) \in Nat /\ rows' = rows /\ artifact' = artifact
      /\ (rows = <<>> <=> Len(rows) = 0) /\ (answers = <<>> <=> Len(answers) = 0)
  BY DEF HttpOK, Scored, Post, EndOfRows
<1>3. CASE Post
  <2> DEFINE k == Len(answers) + 1
             row == rows[k]
  <2>1. k \in 1..Len(rows) /\ row \in Row
    BY <1>2, <1>3 DEF Post
  <2>2. Scores(row) /\ Measured(row) <=> row.kind = "labelled"
    BY <2>1 DEF Scores, Valid, Measured
  <2>3. CASE Loads(artifact) /\ row.kind = "labelled"
    <3>1. Matches(score(artifact, row.event), row) /\ Scores(row)
      BY <2>1, <2>2, <2>3, ScoreMatches
    <3>2. answers' = Append(answers, score(artifact, row.event)) /\ http' = http /\ http = "none"
      BY <1>3, <2>3, <3>1 DEF Post
    <3>3. Scored(answers') /\ Len(answers') = Len(answers) + 1
      BY <1>3, <2>3, <3>2, ScoredOneMore DEF Post, HttpOK
    <3>4. Scored(answers)'
      BY <1>2, <3>3 DEF Scored
    <3> QED BY <1>1, <1>2, <2>3, <3>2, <3>3, <3>4 DEF HttpOK
  <2>4. CASE ~(Loads(artifact) /\ row.kind = "labelled")
    <3>1. ~(Loads(artifact) /\ Scores(row) /\ Matches(score(artifact, row.event), row))
      BY <2>1, <2>2, <2>4, ScoreMatches
    <3>2. answers' = answers /\ http' = "error"
      BY <1>3, <3>1 DEF Post
    <3>3. ~Sound
      BY <2>1, <2>4 DEF Sound
    <3> QED BY <1>1, <1>2, <3>2, <3>3 DEF HttpOK, Scored
  <2> QED BY <2>3, <2>4
<1>4. CASE EndOfRows
  <2>1. answers' = answers
    BY <1>4 DEF EndOfRows
  <2>2. Joins(answers) <=> Sound /\ Len(answers) = Len(rows)
    <3>1. CASE ~Readable \/ rows = <<>>
      BY <3>1 DEF Joins, Sound, Readable
    <3>2. CASE Readable /\ rows # <<>>
      <4>1. Len(answers) = Len(rows) /\ answers # <<>>
        BY <1>2, <1>4, <3>2 DEF EndOfRows
      <4>2. \A i \in 1..Len(rows) : Valid(rows[i])
        BY <4>1 DEF HttpOK, Valid
      <4> QED BY <4>1, <4>2, JoinsWhole DEF HttpOK
    <3> QED BY <3>1, <3>2
  <2>3. ~Joins(answers) => ~Sound
    <3>1. Sound => Readable
      BY DEF Sound, Readable
    <3> QED BY <1>4, <2>2, <3>1 DEF EndOfRows
  <2> QED BY <1>1, <1>2, <1>4, <2>1, <2>2, <2>3 DEF EndOfRows, HttpOK, Scored
<1> QED BY <1>3, <1>4

LEMMA RoutesStep == Routes /\ [Next]_vars => Routes'
<1> SUFFICES ASSUME Routes, [Next]_vars PROVE Routes'
  OBVIOUS
<1>1. CASE UNCHANGED vars
  BY <1>1 DEF vars, fileVars, Routes, OfflineOK, VerdictOK, HttpOK, Scored, Sound, Valid
<1> QED BY <1>1, OfflineStep, EvaluateStep, HttpStep DEF Next

LEMMA RoutesHold == Spec => []Routes
<1> QED BY RoutesInit, RoutesStep, PTL DEF Spec

(* The scores on both routes are those of the rows.                        *)
LEMMA PredictionsScored ==
  ASSUME Routes, NEW p \in Predictions
  PROVE  /\ Loads(artifact) /\ p.event \in Event
         /\ p = score(artifact, p.event)
<1>1. PICK q \in {printed, answers} : \E i \in 1..Len(q) : p = q[i]
  BY DEF Predictions, Routes, OfflineOK, HttpOK, Scored
<1>2. Scored(q) /\ rows \in Seq(Row)
  BY DEF Routes, OfflineOK, HttpOK
<1>3. PICK i \in 1..Len(q) : p = q[i]
  BY <1>1
<1>4. Loads(artifact) /\ i \in 1..Len(rows) /\ p = score(artifact, rows[i].event)
  BY <1>2, <1>3 DEF Scored
<1>5. rows[i] \in Row
  BY <1>2, <1>4
<1>6. rows[i].event \in Event
  BY <1>5, ModelAssumption DEF Row
<1>7. score(artifact, rows[i].event).event = rows[i].event
  BY <1>4, <1>6, ScoreTypes
<1> QED BY <1>4, <1>6, <1>7

-----------------------------------------------------------------------------
(* Served as trained: whatever artifact is in the binary, a worker that    *)
(* scores at all scores every event as the exported model predicts.        *)
THEOREM ServedAsTrainedHolds == Spec => []ServedAsTrained
<1>1. Routes => ServedAsTrained
  BY PredictionsScored, ScoreIsModelled DEF ServedAsTrained
<1> QED BY <1>1, RoutesHold, PTL

(* Monotonicity: with non-negative weights a riskier event never scores    *)
(* lower, however far its fields are beyond the clamps.                    *)
THEOREM StrongerRiskScoresHigherHolds == Spec => []StrongerRiskScoresHigher
<1>1. ASSUME Routes, NEW p \in Predictions, NEW q \in Predictions, Riskier(p.event, q.event)
      PROVE  p.score <= q.score /\ (p.risky => q.risky)
  <2>1. /\ Loads(artifact) /\ p.event \in Event /\ q.event \in Event
        /\ p = score(artifact, p.event) /\ q = score(artifact, q.event)
    BY <1>1, PredictionsScored
  <2>2. p.score \in Int /\ q.score \in Int /\ p.score <= q.score
    BY <1>1, <2>1, ScoreOrder
  <2>3. \A e : score(artifact, e).risky = (score(artifact, e).score >= Cutoff)
    BY DEF score
  <2>4. (p.risky <=> p.score >= Cutoff) /\ (q.risky <=> q.score >= Cutoff)
    BY <2>1, <2>3
  <2>5. p.score >= Cutoff => q.score >= Cutoff
    BY <2>2, ModelAssumption
  <2> QED BY <2>2, <2>4, <2>5, Zenon
<1>2. Routes => StrongerRiskScoresHigher
  BY <1>1 DEF StrongerRiskScoresHigher
<1> QED BY <1>2, RoutesHold, PTL

(* All or nothing: offline checks the whole dataset before it prints, and  *)
(* prints in its order.                                                    *)
THEOREM NoPartialPredictionsHolds == Spec => []NoPartialPredictions
<1>1. ASSUME Routes, NEW i \in DOMAIN printed
      PROVE  printed[i].event = rows[i].event
  <2>1. /\ Scored(printed) /\ rows \in Seq(Row) /\ i \in 1..Len(printed)
    BY <1>1 DEF Routes, OfflineOK, Scored
  <2>2. Loads(artifact) /\ i \in 1..Len(rows) /\ printed[i] = score(artifact, rows[i].event)
    BY <2>1 DEF Scored
  <2>3. rows[i] \in Row
    BY <2>1, <2>2
  <2>4. rows[i].event \in Event
    BY <2>3, ModelAssumption DEF Row
  <2> QED BY <2>2, <2>4, ScoreTypes
<1>2. Routes => NoPartialPredictions
  BY <1>1 DEF NoPartialPredictions, Routes, OfflineOK, Scored
<1> QED BY <1>2, RoutesHold, PTL

(* Only whole runs pass: a verdict is "ok" exactly for the predictions of  *)
(* every row of a dataset both programs accept.                            *)
THEOREM EvaluatedWholeHolds == Spec => []EvaluatedWhole
<1>1. ASSUME Routes, offline = "done", verdict # "none",
             \A i \in DOMAIN rows : Measured(rows[i])
      PROVE  verdict = "ok"
  <2>1. /\ parsed = Len(rows) /\ rows # <<>> /\ Len(printed) = Len(rows)
        /\ Len(rows) \in Nat /\ DOMAIN rows = 1..Len(rows)
    BY <1>1 DEF Routes, OfflineOK
  <2>2. Len(rows) > 0
    BY <2>1 DEF Routes
  <2>3. \A i \in 1..Len(rows) : Valid(rows[i]) /\ Measured(rows[i])
    BY <1>1, <2>1 DEF Routes, OfflineOK
  <2>4. printed # <<>>
    BY <2>1, <2>2
  <2>5. Scored(printed)
    BY <1>1 DEF Routes, OfflineOK
  <2>6. Loads(artifact)
    BY <2>4, <2>5 DEF Scored
  <2> QED BY <1>1, <2>1, <2>3, <2>6 DEF Routes, VerdictOK, Sound, Valid, Measured
<1>2. ASSUME Routes, verdict = "ok"
      PROVE  offline = "done" /\ Len(printed) = Len(rows)
  BY <1>2 DEF Routes, VerdictOK, OfflineOK
<1>3. Routes => EvaluatedWhole
  BY <1>1, <1>2 DEF EvaluatedWhole
<1> QED BY <1>3, RoutesHold, PTL

(* The two routes agree: a run that was not cut passes exactly if the      *)
(* evaluation over HTTP passes, with the same predictions.                 *)
THEOREM RoutesAgreeHolds == Spec => []RoutesAgree
<1>1. ASSUME Routes, verdict # "none", offline # "cut", http # "none"
      PROVE  verdict = http /\ (verdict = "ok" => printed = answers)
  <2>1. (verdict = "ok" <=> Sound) /\ (http = "ok" <=> Sound) /\ verdict = http
    BY <1>1 DEF Routes, VerdictOK, HttpOK
  <2>2. ASSUME verdict = "ok"
        PROVE  printed = answers
    <3> DEFINE S == [event : Event, score : Int, risky : BOOLEAN]
    <3>1. Scored(printed) /\ Scored(answers) /\ Len(printed) = Len(rows) /\ Len(answers) = Len(rows)
      BY <1>1, <2>1, <2>2 DEF Routes, VerdictOK, OfflineOK, HttpOK
    <3>2. /\ Len(printed) = Len(rows) /\ Len(answers) = Len(rows)
          /\ printed \in Seq(S) /\ answers \in Seq(S)
          /\ \A i \in 1..Len(printed) : printed[i] = score(artifact, rows[i].event)
          /\ \A i \in 1..Len(answers) : answers[i] = score(artifact, rows[i].event)
      BY <3>1 DEF Scored
    <3> HIDE DEF S
    <3> QED BY <3>2, SeqEqual
  <2> QED BY <2>1, <2>2
<1>2. Routes => RoutesAgree
  BY <1>1 DEF RoutesAgree
<1> QED BY <1>2, RoutesHold, PTL

-----------------------------------------------------------------------------
(* A report of the benchmark names the percentiles of its own sample count.*)
Reported ==
    \/ bench = <<>>
    \/ \E n \in Counts : bench = [count |-> n, p50 |-> P50(n), p99 |-> P99(n)]

LEMMA Percentiles ==
  ASSUME NEW n \in Nat \ {0}
  PROVE  /\ 0 <= P50(n) /\ P50(n) <= P99(n) /\ P99(n) < n
         /\ 2 * (P50(n) + 1) >= n /\ 100 * (P99(n) + 1) >= 99 * n
  BY DEF P50, P99

(* The reported percentiles are what their names say for every number of   *)
(* samples, a single one included.                                         *)
THEOREM PercentilesHoldForAll == Spec => []PercentilesHold
<1>1. Init => Reported
  BY DEF Init, Reported
<1>2. Reported /\ [Next]_vars => Reported'
  <2> SUFFICES ASSUME Reported, [Next]_vars PROVE Reported'
    OBVIOUS
  <2>1. CASE Benchmark
    BY <2>1 DEF Benchmark, Reported
  <2>2. CASE ~Benchmark
    <3>1. bench' = bench
      BY <2>2 DEF Next, vars, fileVars, ParseLine, EndOfFile, PrintLine, Abort, Cut,
                  Evaluate, Post, EndOfRows
    <3> QED BY <3>1 DEF Reported
  <2> QED BY <2>1, <2>2
<1>3. Reported => PercentilesHold
  <2>1. ASSUME NEW n \in Counts, bench = [count |-> n, p50 |-> P50(n), p99 |-> P99(n)]
        PROVE  PercentilesHold
    <3>1. n \in Nat \ {0} /\ bench.count = n /\ bench.p50 = P50(n) /\ bench.p99 = P99(n)
      BY <2>1, EvaluationAssumption
    <3> QED BY <3>1, Percentiles DEF PercentilesHold
  <2> QED BY <2>1 DEF Reported, PercentilesHold
<1> QED BY <1>1, <1>2, <1>3, PTL DEF Spec
=============================================================================
