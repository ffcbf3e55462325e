------------------------------ MODULE MCEvaluation ------------------------------
(* The values of model.json in tenths (Cutoff and Offset in 1/100 units),  *)
(* events on both sides of every limit, and artifacts whose feature names  *)
(* are in order or have two neighbours swapped.                            *)
EXTENDS Evaluation

MCWeight == [n \in Names |->
    CASE n = "amount_100k" -> 20 [] n = "night" -> 10 [] n = "card_not_present" -> 15
      [] n = "non_us" -> 12 [] n = "velocity_5m_10" -> 23
      [] n = "velocity_1h_30" -> 9 [] n = "declines_5" -> 21]
MCIntercept == -79
MCOffset    == -903000
MCCutoff    == -3123000

Swapped(k) == [j \in 1..7 |->
    FeatureNames[IF j = k THEN k + 1 ELSE IF j = k + 1 THEN k ELSE j]]

MCOrders == {FeatureNames} \cup {Swapped(k) : k \in 1..6}

Middle == [amount_cents |-> 249900, hour_utc |-> 22, card_present |-> TRUE,
           country |-> "US", velocity_5m |-> 99, velocity_1h |-> 299,
           prior_declines |-> 49]

MCSamples ==
    {Middle} \cup {[Middle EXCEPT !.amount_cents = n] : n \in {0, 999999, 1100000}}
    \cup {[Middle EXCEPT !.hour_utc = n] : n \in {5, 6, 23}}
    \cup {[Middle EXCEPT !.card_present = FALSE], [Middle EXCEPT !.country = "other"]}
    \cup {[Middle EXCEPT !.velocity_5m = n] : n \in {100, 101}}
    \cup {[Middle EXCEPT !.velocity_1h = n] : n \in {300, 301}}
    \cup {[Middle EXCEPT !.prior_declines = n] : n \in {50, 55}}
    \cup {[amount_cents |-> 1100000, hour_utc |-> 23, card_present |-> FALSE,
            country |-> "other", velocity_5m |-> 101, velocity_1h |-> 301,
            prior_declines |-> 51]}
=============================================================================
