---------------------------- MODULE EventContract ----------------------------
(***************************************************************************)
(* The event contract between the two languages: what the Go gateway takes *)
(* for a valid event, the canonical payload it queues, and what the Rust   *)
(* worker takes for a valid event when it reads that payload.  The two     *)
(* validators are written separately; an event only the first one accepts  *)
(* is answered 202 and ends as a dead letter.                              *)
(*                                                                         *)
(* A body is the sequence of the members of its JSON object.  Texts are    *)
(* known by their length in bytes and the classes of their characters.     *)
(***************************************************************************)
EXTENDS Integers, FiniteSets, Sequences

CONSTANTS
    AmountMax,      \* largest int64
    CountMax,       \* largest int32
    Names,          \* names the members of a body may have
    Attempts        \* pairs of bodies: one that is sent, and one sent later

(* The fields of PaymentEvent, in the order of the Go struct.              *)
Order == <<"event_id", "amount_cents", "currency", "merchant_category",
           "country", "card_present", "hour_utc", "velocity_5m",
           "velocity_1h", "prior_declines">>
Fields == {Order[i] : i \in 1..10}

Texts  == {"event_id", "currency", "country"}
Counts == {"merchant_category", "hour_utc", "velocity_5m", "velocity_1h",
           "prior_declines"}

CategoryMax == 9999

(* Character classes; "mark" is one of _ - . : and "foreign" any character *)
(* outside ASCII, or the U+FFFD Go puts in place of one it cannot decode.  *)
Classes == {"upper", "lower", "digit", "mark", "symbol", "foreign"}

(* JSON values.  Other stands for fractions, arrays and objects.           *)
Null   == [kind |-> "null"]
Other  == [kind |-> "other"]
Value  == [kind : {"text"}, len : Nat, of : SUBSET Classes]
            \cup [kind : {"number"}, n : Int] \cup [kind : {"flag"}, on : BOOLEAN]
            \cup {Null, Other}

(* alone: the body is one JSON object and nothing follows it.              *)
Member == [key : Names, value : Value]
Body   == [alone : BOOLEAN, members : Seq(Member)]

ASSUME ContractAssumption ==
    /\ CountMax \in Nat /\ AmountMax \in Nat
    /\ CategoryMax < CountMax /\ CountMax <= AmountMax
    /\ Fields \subseteq Names
    /\ Attempts \subseteq Body \X Body

VARIABLES
    raw,        \* the bodies of the two requests
    payload,    \* the canonical payload queued for each
    stage       \* how far each has come

vars == <<raw, payload, stage>>

-----------------------------------------------------------------------------
Given(b) == {b.members[i].key : i \in DOMAIN b.members}

Unique(b) ==
    \A i, j \in DOMAIN b.members :
        b.members[i].key = b.members[j].key => i = j

(* The value of member k; of the last one, if there are several.           *)
ValueOf(b, k) ==
    LET at == {i \in DOMAIN b.members : b.members[i].key = k}
    IN  b.members[CHOOSE i \in at : \A j \in at : j <= i].value

(* The value can be stored in the field, which has a type and a width.     *)
Fits(k, v) ==
    /\ k \in Texts => v.kind = "text"
    /\ k = "card_present" => v.kind = "flag"
    /\ k = "amount_cents" => v.kind = "number" /\ v.n \in (-AmountMax - 1)..AmountMax
    /\ k \in Counts => v.kind = "number" /\ v.n \in (-CountMax - 1)..CountMax

-----------------------------------------------------------------------------
(* Go.                                                                     *)

upperASCII(v, n) == v.len = n /\ v.of \subseteq {"upper"}

Zero(k) ==
    CASE k \in Texts -> [kind |-> "text", len |-> 0, of |-> {}]
      [] k = "card_present" -> [kind |-> "flag", on |-> FALSE]
      [] OTHER -> [kind |-> "number", n |-> 0]

(* json.Unmarshal leaves a field alone when its value is null.             *)
Event(b) ==
    [k \in Fields |-> IF ValueOf(b, k) = Null THEN Zero(k) ELSE ValueOf(b, k)]

(* Mutant: members given twice are not refused. *)
AnyFields(b) == b.alone

uniqueFields(b) == b.alone /\ Unique(b)

(* Mutant: null passes for a value. *)
NullPasses(b) == Fields \subseteq Given(b)

Complete(b) == \A k \in Fields : k \in Given(b) /\ ValueOf(b, k) # Null

(* Mutant: an hour too many. *)
LaxLimits(e) ==
    /\ e["event_id"].len \in 1..128
    /\ e["event_id"].of \subseteq {"upper", "lower", "digit", "mark"}
    /\ e["amount_cents"].n >= 0
    /\ upperASCII(e["currency"], 3) /\ upperASCII(e["country"], 2)
    /\ e["merchant_category"].n \in 0..CategoryMax
    /\ e["hour_utc"].n \in 0..24
    /\ \A k \in {"velocity_5m", "velocity_1h", "prior_declines"} : e[k].n >= 0

Limits(e) ==
    /\ e["event_id"].len \in 1..128
    /\ e["event_id"].of \subseteq {"upper", "lower", "digit", "mark"}
    /\ e["amount_cents"].n >= 0
    /\ upperASCII(e["currency"], 3) /\ upperASCII(e["country"], 2)
    /\ e["merchant_category"].n \in 0..CategoryMax
    /\ e["hour_utc"].n \in 0..23
    /\ \A k \in {"velocity_5m", "velocity_1h", "prior_declines"} : e[k].n >= 0

Decodes(b) ==
    /\ uniqueFields(b)
    /\ Complete(b)
    /\ Cardinality(Given(b)) = 10
    /\ \A k \in Fields : ValueOf(b, k) # Null => Fits(k, ValueOf(b, k))
    /\ Limits(Event(b))

(* json.Marshal writes the members of the struct in their order.           *)
Marshal(e) ==
    [alone   |-> TRUE,
     members |-> [i \in 1..10 |-> [key |-> Order[i], value |-> e[Order[i]]]]]

-----------------------------------------------------------------------------
(* Rust.                                                                   *)

(* serde with deny_unknown_fields; no field has a default.                 *)
Parses(p) ==
    /\ p.alone /\ Unique(p)
    /\ Given(p) = Fields
    /\ \A k \in Fields : Fits(k, ValueOf(p, k))

Struct(p) == [k \in Fields |-> ValueOf(p, k)]

valid(e) ==
    /\ e["event_id"].len > 0 /\ e["event_id"].len <= 128
    /\ e["event_id"].of \subseteq {"upper", "lower", "digit", "mark"}
    /\ e["amount_cents"].n >= 0
    /\ e["currency"].len = 3 /\ e["currency"].of \subseteq {"upper"}
    /\ e["country"].len = 2 /\ e["country"].of \subseteq {"upper"}
    /\ e["merchant_category"].n \in 0..CategoryMax
    /\ e["hour_utc"].n \in 0..23
    /\ e["velocity_5m"].n >= 0 /\ e["velocity_1h"].n >= 0
    /\ e["prior_declines"].n >= 0

-----------------------------------------------------------------------------
(* The gateway handles attempt a.                                          *)
Handle(a) ==
    /\ stage[a] = "sent"
    /\ IF Decodes(raw[a])
       THEN /\ payload' = [payload EXCEPT ![a] = Marshal(Event(raw[a]))]
            /\ stage'   = [stage EXCEPT ![a] = "queued"]
       ELSE /\ stage'   = [stage EXCEPT ![a] = "refused"]
            /\ UNCHANGED payload
    /\ UNCHANGED raw

(* A worker reads its payload.                                             *)
Consume(a) ==
    /\ stage[a] = "queued"
    /\ stage' = [stage EXCEPT ![a] =
          IF Parses(payload[a]) /\ valid(Struct(payload[a])) THEN "decided" ELSE "dead"]
    /\ UNCHANGED <<raw, payload>>

Nothing == [alone |-> FALSE, members |-> <<>>]

Init ==
    /\ raw \in Attempts
    /\ payload = [a \in 1..2 |-> Nothing]
    /\ stage   = [a \in 1..2 |-> "sent"]

Next == \E a \in 1..2 : Handle(a) \/ Consume(a)

Spec == Init /\ [][Next]_vars

-----------------------------------------------------------------------------
Admitted(a) == stage[a] \in {"queued", "decided", "dead"}

Contents(b) == {b.members[i] : i \in DOMAIN b.members}

(* The validators agree: what the gateway admits is never dead-lettered.   *)
NoAdmittedDeadLetter == \A a \in 1..2 : stage[a] # "dead"

(* The payload says what the provider signed: the members of the body, and *)
(* nothing a decoder put in place of a missing, null or repeated one.      *)
PayloadIsTheBody ==
    \A a \in 1..2 : Admitted(a) => Contents(payload[a]) = Contents(raw[a])

(* The digest the gateway keeps under an event id tells events apart and   *)
(* not spellings: two admitted bodies give the same payload exactly when   *)
(* they have the same members, in whatever order.                          *)
PayloadTellsEvents ==
    Admitted(1) /\ Admitted(2) =>
        (payload[1] = payload[2] <=> Contents(raw[1]) = Contents(raw[2]))
=============================================================================
