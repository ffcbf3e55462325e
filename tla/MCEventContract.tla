--------------------------- MODULE MCEventContract ---------------------------
(***************************************************************************)
(* All pairs of bodies that are one edit away from a valid event: a member *)
(* changed, repeated, renamed, added or dropped, the order rotated.  The   *)
(* values an edit writes lie on both sides of every limit.                 *)
(***************************************************************************)
EXTENDS EventContract

Text(n, classes) == [kind |-> "text", len |-> n, of |-> classes]
Number(x)        == [kind |-> "number", n |-> x]
Flag(b)          == [kind |-> "flag", on |-> b]

Good ==
    [k \in Fields |->
        CASE k = "event_id" -> Text(5, {"lower", "digit"})
          [] k = "currency" -> Text(3, {"upper"})
          [] k = "country"  -> Text(2, {"upper"})
          [] k = "card_present" -> Flag(TRUE)
          [] OTHER -> Number(1)]

Candidates(k) ==
    {Null, Other, Number(0)} \cup
    CASE k = "event_id" -> {Text(0, {}), Text(128, {"upper", "mark"}),
                            Text(129, {"digit"}), Text(3, {"symbol"}), Text(4, {"foreign"})}
      [] k = "currency" -> {Text(3, {"upper", "lower"}), Text(2, {"upper"}), Text(3, {"foreign"})}
      [] k = "country"  -> {Text(2, {"foreign"}), Text(3, {"upper"}), Text(2, {"digit"})}
      [] k = "card_present" -> {Flag(FALSE), Text(4, {"lower"})}
      [] k = "amount_cents" -> {Number(x) : x \in {-1, AmountMax, AmountMax + 1}}
      [] k = "merchant_category" -> {Number(x) : x \in {-1, 9999, 10000}}
      [] k = "hour_utc" -> {Number(x) : x \in {-1, 23, 24}}
      [] OTHER -> {Number(x) : x \in {-CountMax - 2, -1, CountMax, CountMax + 1}}

Edits(b) ==
    LET m == b.members
        D == DOMAIN m
    IN  {[b EXCEPT !.alone = FALSE]}
        \cup UNION {{[b EXCEPT !.members[i].value = v] : v \in Candidates(m[i].key)} : i \in D}
        \cup UNION {{[b EXCEPT !.members = Append(m, [key |-> m[i].key, value |-> v])]
                        : v \in Candidates(m[i].key)} : i \in D}
        \cup {[b EXCEPT !.members[i].key = "surplus"] : i \in D}
        \cup {[b EXCEPT !.members = Append(m, [key |-> "surplus", value |-> Null])]}
        \cup {[b EXCEPT !.members = SubSeq(m, 1, i - 1) \o SubSeq(m, i + 1, Len(m))] : i \in D}
        \cup {[b EXCEPT !.members = SubSeq(m, i, Len(m)) \o SubSeq(m, 1, i - 1)] : i \in D}

MCNames == Fields \cup {"surplus"}

MCAttempts == LET Near == Edits(Marshal(Good)) IN Near \X Near
=============================================================================
