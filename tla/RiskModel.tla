------------------------------- MODULE RiskModel -------------------------------
(***************************************************************************)
(* Scoring in the worker (model.rs) beside the training that exported its  *)
(* artifact (scripts/train_model.py): the checks on the embedded artifact, *)
(* the transform, the linear model and the decision.                       *)
(*                                                                         *)
(* Numbers are exact.  A feature is in units of 1/Unit, which every scale  *)
(* of the transform divides; weights and the calibration are integers of a *)
(* common scale.  The sigmoid is strictly increasing, so the score is given*)
(* by its argument, and the threshold by its logit, Cutoff.                *)
(***************************************************************************)
EXTENDS Integers, Sequences

CONSTANTS
    Weight,         \* the weight training fitted to each feature name
    Intercept, Slope, Offset, Cutoff,
    Orders,         \* feature_names an artifact may come with
    Samples         \* events that are scored

FeatureNames == <<"amount_100k", "night", "card_not_present", "non_us",
                  "velocity_5m_10", "velocity_1h_30", "declines_5">>

Names == {FeatureNames[k] : k \in 1..7}

(* The fields of a valid event that are scored.                            *)
Event == [amount_cents : Nat, hour_utc : 0..23, card_present : BOOLEAN,
          country : {"US", "other"}, velocity_5m : Nat, velocity_1h : Nat,
          prior_declines : Nat]

Artifact == [schema_version : {1, 2}, feature_version : {"payment-risk-v1", "other"},
             feature_names : Orders, in_range : BOOLEAN]

(* The values of model.json: every feature adds to the risk.               *)
ASSUME ModelAssumption ==
    /\ Weight \in [Names -> Nat]
    /\ Intercept \in Int /\ Slope \in Nat \ {0} /\ Offset \in Int /\ Cutoff \in Int
    /\ Orders \subseteq [1..7 -> Names]
    /\ Samples \subseteq Event

Unit == 300000

(* Mutant: what is above the upper limit counts as an outlier.             *)
WithoutOutliers(x, scale) ==
    LET y == IF x < 0 \/ x > 10 * scale THEN 0 ELSE x
    IN  y * (Unit \div scale)

(* x / scale in units, clamped to 0..10.                                   *)
Clamped(x, scale) ==
    LET y == IF x < 0 THEN 0 ELSE IF x > 10 * scale THEN 10 * scale ELSE x
    IN  y * (Unit \div scale)

Flag(b) == IF b THEN Unit ELSE 0

Night(e) == e.hour_utc <= 5 \/ e.hour_utc >= 23

features(e) == <<
    Clamped(e.amount_cents, 100000),
    Flag(Night(e)),
    Flag(~e.card_present),
    Flag(e.country # "US"),
    Clamped(e.velocity_5m, 10),
    Clamped(e.velocity_1h, 30),
    Clamped(e.prior_declines, 5)>>

(* Mutant: any order of names will do. *)
LoadsInAnyOrder(a) ==
    /\ a.schema_version = 1 /\ a.feature_version = "payment-risk-v1"
    /\ a.in_range

(* The assertions of parameters(); in_range stands for those on numbers.   *)
Loads(a) ==
    /\ a.schema_version = 1 /\ a.feature_version = "payment-risk-v1"
    /\ a.feature_names = FeatureNames
    /\ a.in_range

(* The artifact lists its weights in the order of its names.               *)
Weights(a) == [k \in 1..7 |-> Weight[a.feature_names[k]]]

Dot(w, x) == w[1]*x[1] + w[2]*x[2] + w[3]*x[3] + w[4]*x[4] + w[5]*x[5]
             + w[6]*x[6] + w[7]*x[7]

score(a, e) ==
    LET z == Intercept * Unit + Dot(features(e), Weights(a))
        p == Slope * z + Offset
    IN  [event |-> e, score |-> p, risky |-> p >= Cutoff]

-----------------------------------------------------------------------------
(* The transform of the training script, by feature name.                  *)
Smaller(x, y) == IF x < y THEN x ELSE y
Larger(x, y)  == IF x > y THEN x ELSE y
Saturated(x, scale) ==
    Smaller(Larger(x, 0), 10 * scale) * (Unit \div scale)

Trained(name, e) ==
    CASE name = "amount_100k"      -> Saturated(e.amount_cents, 100000)
      [] name = "night"            -> Flag(e.hour_utc \notin 6..22)
      [] name = "card_not_present" -> Flag(e.card_present = FALSE)
      [] name = "non_us"           -> Flag(e.country = "other")
      [] name = "velocity_5m_10"   -> Saturated(e.velocity_5m, 10)
      [] name = "velocity_1h_30"   -> Saturated(e.velocity_1h, 30)
      [] name = "declines_5"       -> Saturated(e.prior_declines, 5)

Fitted(e) ==
    LET Term(name) == Weight[name] * Trained(name, e)
    IN  Intercept * Unit + Term("night") + Term("non_us") + Term("card_not_present")
          + Term("velocity_1h_30") + Term("velocity_5m_10")
          + Term("amount_100k") + Term("declines_5")

Modelled(e) == Slope * Fitted(e) + Offset

(* f is at least as risky as e in every respect.                           *)
Riskier(e, f) ==
    /\ e.amount_cents <= f.amount_cents /\ e.velocity_5m <= f.velocity_5m
    /\ e.velocity_1h <= f.velocity_1h /\ e.prior_declines <= f.prior_declines
    /\ (Night(e) => Night(f)) /\ (f.card_present => e.card_present)
    /\ (f.country = "US" => e.country = "US")
=============================================================================
