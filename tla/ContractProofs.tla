--------------------------- MODULE ContractProofs ---------------------------
(***************************************************************************)
(* Theorems about the event contract, for bodies of any length with any    *)
(* values, and for any integer widths: the two validators agree, and the   *)
(* canonical payload stands for the body.                                  *)
(***************************************************************************)
EXTENDS EventContract, FiniteSetTheorems, TLAPS

-----------------------------------------------------------------------------
(* The fields: ten names, all different.                                   *)
LEMMA OrderIsInjective ==
    \A i, j \in 1..10 : Order[i] = Order[j] => i = j
<1>1. \A i \in 1..10 : i \in {1, 2, 3, 4, 5, 6, 7, 8, 9, 10}
  OBVIOUS
<1> QED BY <1>1 DEF Order

(* The members of a body are pairs of a key and a value.                   *)
LEMMA MemberOfBody ==
    ASSUME NEW b \in Body
    PROVE  /\ DOMAIN b.members = 1..Len(b.members) /\ Len(b.members) \in Int
           /\ \A i \in DOMAIN b.members : b.members[i] \in Member
<1>1. b.members \in Seq(Member)
  BY DEF Body
<1>2. ASSUME NEW M, NEW s \in Seq(M)
      PROVE  DOMAIN s = 1..Len(s) /\ Len(s) \in Int /\ \A i \in 1..Len(s) : s[i] \in M
  OBVIOUS
<1> QED BY <1>1, <1>2

LEMMA TenFields == Cardinality(Fields) = 10
<1> DEFINE f == [i \in 1..10 |-> Order[i]]
<1>1. IsFiniteSet(1..10) /\ Cardinality(1..10) = 10
  <2>1. 1 \in Int /\ 10 \in Int /\ ~(1 > 10) /\ 10 - 1 + 1 = 10
    OBVIOUS
  <2> QED BY <2>1, FS_Interval, Zenon
<1>2. f \in Surjection(1..10, Fields)
  BY DEF Surjection, Fields
<1>3. f \in Injection(1..10, Fields)
  BY OrderIsInjective DEF Injection, IsInjective, Fields
<1> QED BY <1>1, <1>2, <1>3, FS_Surjection

(* A member is found under its key, whichever way a body is written.       *)
LEMMA UniqueValue ==
    ASSUME NEW b \in Body, Unique(b), NEW i \in DOMAIN b.members
    PROVE  ValueOf(b, b.members[i].key) = b.members[i].value
<1> DEFINE k  == b.members[i].key
           at == {j \in DOMAIN b.members : b.members[j].key = k}
<1>1. at = {i}
  BY DEF Unique
<1>2. i \in Int
  BY DEF Body
<1>3. (CHOOSE x \in at : \A y \in at : y <= x) = i
  BY <1>1, <1>2
<1> QED BY <1>3 DEF ValueOf

(* The payload of an event has exactly its fields, each with its value.    *)
LEMMA MarshalFacts ==
    ASSUME NEW e \in [Fields -> Value]
    PROVE  /\ Marshal(e) \in Body /\ Marshal(e).alone
           /\ Unique(Marshal(e)) /\ Given(Marshal(e)) = Fields
           /\ \A k \in Fields : ValueOf(Marshal(e), k) = e[k]
           /\ Contents(Marshal(e)) = {[key |-> k, value |-> e[k]] : k \in Fields}
<1> DEFINE m == Marshal(e).members
<1>1. /\ Marshal(e).alone = TRUE /\ DOMAIN m = 1..10
      /\ \A i \in 1..10 : m[i] = [key |-> Order[i], value |-> e[Order[i]]]
  BY DEF Marshal
<1>2. \A i \in 1..10 : m[i] \in Member
  <2>1. \A i \in 1..10 : Order[i] \in Fields /\ Order[i] \in Names
    BY ContractAssumption DEF Fields
  <2> QED BY <1>1, <2>1 DEF Member
<1>3. m \in Seq(Member)
  <2>1. m = [i \in 1..10 |-> [key |-> Order[i], value |-> e[Order[i]]]]
    BY DEF Marshal
  <2>2. ASSUME NEW M, NEW s, NEW n \in Nat, s \in [1..n -> M] PROVE s \in Seq(M)
    BY <2>2
  <2> QED BY <1>2, <2>1, <2>2
<1>4. Marshal(e) \in Body
  BY <1>1, <1>3 DEF Body, Marshal
<1>5. Unique(Marshal(e))
  BY <1>1, OrderIsInjective DEF Unique
<1>6. Given(Marshal(e)) = Fields
  BY <1>1 DEF Given, Fields
<1>7. \A k \in Fields : ValueOf(Marshal(e), k) = e[k]
  <2> SUFFICES ASSUME NEW k \in Fields PROVE ValueOf(Marshal(e), k) = e[k]
    OBVIOUS
  <2>1. PICK i \in 1..10 : k = Order[i]
    BY DEF Fields
  <2> QED BY <1>1, <1>4, <1>5, <2>1, UniqueValue
<1>8. Contents(Marshal(e)) = {[key |-> k, value |-> e[k]] : k \in Fields}
  BY <1>1 DEF Contents, Fields
<1> QED BY <1>1, <1>4, <1>5, <1>6, <1>7, <1>8

(* A body the gateway decodes has the ten fields and no other member, none *)
(* of them twice or null, so nothing in the event is filled in.            *)
LEMMA DecodesFacts ==
    ASSUME NEW b \in Body, Decodes(b)
    PROVE  /\ Unique(b) /\ Given(b) = Fields
           /\ \A k \in Fields : ValueOf(b, k) # Null /\ Fits(k, ValueOf(b, k))
           /\ Event(b) = [k \in Fields |-> ValueOf(b, k)]
           /\ Event(b) \in [Fields -> Value]
           /\ Contents(b) = {[key |-> k, value |-> Event(b)[k]] : k \in Fields}
<1> DEFINE D == DOMAIN b.members
           f == [i \in D |-> b.members[i].key]
<1>1. Unique(b) /\ Complete(b) /\ Cardinality(Given(b)) = 10
  BY DEF Decodes, uniqueFields
<1>2. /\ D = 1..Len(b.members) /\ Len(b.members) \in Int
      /\ \A i \in D : b.members[i] \in Member
  BY MemberOfBody
<1>3. IsFiniteSet(Given(b))
  <2>1. IsFiniteSet(D)
    <3>1. \A n \in Int : IsFiniteSet(1..n)
      <4>1. 1 \in Int
        OBVIOUS
      <4> QED BY <4>1, FS_Interval, Zenon
    <3> QED BY <1>2, <3>1
  <2>2. f \in Surjection(D, Given(b))
    BY DEF Surjection, Given
  <2> QED BY <2>1, <2>2, FS_Surjection
<1>4. Given(b) = Fields
  <2>1. Fields \in SUBSET Given(b)
    BY <1>1 DEF Complete
  <2> QED BY <1>1, <1>3, <2>1, TenFields, FS_Subset
<1>5. \A k \in Fields : ValueOf(b, k) # Null /\ Fits(k, ValueOf(b, k))
  BY <1>1 DEF Complete, Decodes
<1>6. Event(b) = [k \in Fields |-> ValueOf(b, k)]
  BY <1>5 DEF Event
<1>7. ASSUME NEW i \in D
      PROVE  /\ b.members[i].value \in Value
             /\ b.members[i].value = ValueOf(b, b.members[i].key)
             /\ b.members[i] = [key |-> b.members[i].key,
                                value |-> ValueOf(b, b.members[i].key)]
  <2>1. b.members[i] \in Member
    BY <1>2
  <2>2. b.members[i].value = ValueOf(b, b.members[i].key)
    BY <1>1, UniqueValue
  <2> QED BY <2>1, <2>2 DEF Member
<1>8. ASSUME NEW k \in Fields
      PROVE  \E i \in D : b.members[i].key = k
  BY <1>4 DEF Given
<1>9. Event(b) \in [Fields -> Value]
  <2>1. ASSUME NEW k \in Fields PROVE ValueOf(b, k) \in Value
    <3>1. PICK i \in D : b.members[i].key = k
      BY <1>8
    <3> QED BY <1>7, <3>1
  <2> QED BY <1>6, <2>1
<1>10. Contents(b) = {[key |-> k, value |-> Event(b)[k]] : k \in Fields}
  <2> DEFINE C == {[key |-> k, value |-> Event(b)[k]] : k \in Fields}
  <2>1. ASSUME NEW i \in D PROVE b.members[i] \in C
    <3>1. b.members[i].key \in Fields
      BY <1>4 DEF Given
    <3>2. Event(b)[b.members[i].key] = ValueOf(b, b.members[i].key)
      BY <1>6, <3>1
    <3> QED BY <1>7, <3>1, <3>2
  <2>2. ASSUME NEW k \in Fields
        PROVE  [key |-> k, value |-> Event(b)[k]] \in Contents(b)
    <3>1. PICK i \in D : b.members[i].key = k
      BY <1>8
    <3>2. b.members[i] = [key |-> k, value |-> Event(b)[k]]
      BY <1>6, <1>7, <3>1
    <3> QED BY <3>2 DEF Contents
  <2> QED BY <2>1, <2>2 DEF Contents
<1> QED BY <1>1, <1>4, <1>5, <1>6, <1>9, <1>10

(* The limits, as the two languages write them.                            *)
LEMMA LimitsAreValid == ASSUME NEW e, Limits(e) PROVE valid(e)
<1>1. e["event_id"].len > 0 /\ e["event_id"].len <= 128
  BY DEF Limits
<1>2. e["event_id"].of \subseteq {"upper", "lower", "digit", "mark"}
  BY DEF Limits
<1>3. e["amount_cents"].n >= 0
  BY DEF Limits
<1>4. e["currency"].len = 3 /\ e["currency"].of \subseteq {"upper"}
  BY DEF Limits, upperASCII
<1>5. e["country"].len = 2 /\ e["country"].of \subseteq {"upper"}
  BY DEF Limits, upperASCII
<1>6. e["merchant_category"].n \in 0..CategoryMax /\ e["hour_utc"].n \in 0..23
  BY DEF Limits
<1>7. /\ e["velocity_5m"].n >= 0 /\ e["velocity_1h"].n >= 0
      /\ e["prior_declines"].n >= 0
  BY DEF Limits
<1> QED BY <1>1, <1>2, <1>3, <1>4, <1>5, <1>6, <1>7 DEF valid

(* The agreement of the validators: the worker reads the payload of a body *)
(* that the gateway decoded as a valid event.                              *)
LEMMA ValidatorsAgree ==
    ASSUME NEW b \in Body, Decodes(b)
    PROVE  Parses(Marshal(Event(b))) /\ valid(Struct(Marshal(Event(b))))
<1> DEFINE e == Event(b)
           p == Marshal(e)
<1>1. e \in [Fields -> Value]
  BY DecodesFacts
<1>2. /\ p.alone /\ Unique(p) /\ Given(p) = Fields
      /\ \A k \in Fields : ValueOf(p, k) = e[k]
  BY <1>1, MarshalFacts
<1>3. \A k \in Fields : Fits(k, ValueOf(p, k))
  <2>1. \A k \in Fields : e[k] = ValueOf(b, k) /\ Fits(k, ValueOf(b, k))
    BY DecodesFacts
  <2> QED BY <1>2, <2>1
<1>4. Struct(p) = e
  BY <1>1, <1>2 DEF Struct
<1>5. Limits(e)
  BY DEF Decodes
<1>6. valid(e)
  BY <1>5, LimitsAreValid
<1> QED BY <1>2, <1>3, <1>4, <1>6 DEF Parses

-----------------------------------------------------------------------------
(* What is queued is the payload of a body that was decoded.               *)
Queueing ==
    /\ raw \in Attempts
    /\ stage \in [1..2 -> {"sent", "refused", "queued", "decided"}]
    /\ DOMAIN payload = 1..2
    /\ \A a \in 1..2 : Admitted(a) =>
          Decodes(raw[a]) /\ payload[a] = Marshal(Event(raw[a]))

LEMMA RawIsBody ==
    ASSUME raw \in Attempts, NEW a \in 1..2
    PROVE  raw[a] \in Body
<1>1. raw \in Body \X Body
  BY ContractAssumption
<1>2. a = 1 \/ a = 2
  OBVIOUS
<1> QED BY <1>1, <1>2

LEMMA QueueingStep == Queueing /\ [Next]_vars => Queueing'
<1> SUFFICES ASSUME Queueing, [Next]_vars PROVE Queueing'
  OBVIOUS
<1>1. CASE UNCHANGED vars
  BY <1>1 DEF vars, Queueing, Admitted
<1>2. ASSUME NEW a \in 1..2, Handle(a) PROVE Queueing'
  BY <1>2 DEF Handle, Queueing, Admitted
<1>3. ASSUME NEW a \in 1..2, Consume(a) PROVE Queueing'
  <2>1. Decodes(raw[a]) /\ payload[a] = Marshal(Event(raw[a])) /\ raw[a] \in Body
    BY <1>3, RawIsBody DEF Consume, Queueing, Admitted
  <2>2. stage' = [stage EXCEPT ![a] = "decided"]
    BY <1>3, <2>1, ValidatorsAgree DEF Consume
  <2> QED BY <1>3, <2>2 DEF Consume, Queueing, Admitted
<1> QED BY <1>1, <1>2, <1>3 DEF Next

LEMMA QueueingHolds == Spec => []Queueing
<1>1. Init => Queueing
  BY DEF Init, Queueing, Admitted
<1> QED BY <1>1, QueueingStep, PTL DEF Spec

(* No event the gateway admits is dead-lettered by a worker.               *)
THEOREM NoAdmittedDeadLetterHolds == Spec => []NoAdmittedDeadLetter
<1>1. Queueing => NoAdmittedDeadLetter
  BY DEF Queueing, NoAdmittedDeadLetter
<1> QED BY <1>1, QueueingHolds, PTL

(* The queued payload has the members of the signed body, and only them.   *)
THEOREM PayloadIsTheBodyHolds == Spec => []PayloadIsTheBody
<1>1. ASSUME Queueing, NEW a \in 1..2, Admitted(a)
      PROVE  Contents(payload[a]) = Contents(raw[a])
  <2>1. Decodes(raw[a]) /\ payload[a] = Marshal(Event(raw[a])) /\ raw[a] \in Body
    BY <1>1, RawIsBody DEF Queueing
  <2>2. Event(raw[a]) \in [Fields -> Value]
    BY <2>1, DecodesFacts
  <2> QED BY <2>1, <2>2, DecodesFacts, MarshalFacts
<1>2. Queueing => PayloadIsTheBody
  BY <1>1 DEF PayloadIsTheBody
<1> QED BY <1>2, QueueingHolds, PTL

(* Two admitted bodies have the same payload, and so the same digest,      *)
(* exactly when they have the same members.                                *)
THEOREM PayloadTellsEventsHolds == Spec => []PayloadTellsEvents
<1>1. ASSUME NEW b \in Body, NEW c \in Body, Decodes(b), Decodes(c),
             Contents(b) = Contents(c)
      PROVE  Event(b) = Event(c)
  <2>1. ASSUME NEW k \in Fields PROVE Event(b)[k] = Event(c)[k]
    <3>1. [key |-> k, value |-> Event(b)[k]] \in Contents(c)
      BY <1>1, DecodesFacts
    <3>2. PICK l \in Fields : [key |-> k, value |-> Event(b)[k]]
                                = [key |-> l, value |-> Event(c)[l]]
      BY <1>1, <3>1, DecodesFacts
    <3> QED BY <3>2
  <2>2. Event(b) \in [Fields -> Value] /\ Event(c) \in [Fields -> Value]
    BY <1>1, DecodesFacts
  <2> QED BY <2>1, <2>2
<1>2. ASSUME Queueing, Admitted(1), Admitted(2)
      PROVE  payload[1] = payload[2] <=> Contents(raw[1]) = Contents(raw[2])
  <2>1. \A a \in {1, 2} : /\ Decodes(raw[a]) /\ raw[a] \in Body
                          /\ payload[a] = Marshal(Event(raw[a]))
    BY <1>2, RawIsBody DEF Queueing
  <2>2. \A a \in {1, 2} : Contents(payload[a]) = Contents(raw[a])
    BY <2>1, DecodesFacts, MarshalFacts
  <2> QED BY <1>1, <2>1, <2>2
<1>3. Queueing => PayloadTellsEvents
  BY <1>2 DEF PayloadTellsEvents
<1> QED BY <1>3, QueueingHolds, PTL
=============================================================================
