--------------------------- MODULE ExtensionProofs ---------------------------
(***************************************************************************)
(* Theorems about the two modules that extend HookGuard, in two parts.     *)
(*   - Accounting: for any workers, entries and failures, the counters show*)
(*     nothing that was not published, and all of it unless replies are    *)
(*     lost.  Its steps are steps of HookGuard.                            *)
(*   - Durability: for any number of crashes of Redis and any lag of the   *)
(*     file, the store and what is on disk are consistent by themselves,   *)
(*     and the disk knows nothing the record does not.  The steps of       *)
(*     HookGuard keep the store consistent (HookGuardProofs); here the disk*)
(*     is shown to stay so as it ages, takes over the store and is loaded  *)
(*     again.  Hence the whole is a ForgetfulLedger.                       *)
(***************************************************************************)
EXTENDS Accounting, Durability, HookGuardProofs

-----------------------------------------------------------------------------
(* Accounting.                                                             *)

(* What is counted, or will be once the replies at hand are read.          *)
Counted(c) == [w \in Workers |-> stats[w][c] + replies[w][c]]

(* Entries that left the queue.                                            *)
Left == {i \in Ids : i < nextId /\ i \notin stream}

CountTypes ==
    /\ replies \in [Workers -> [Counters -> Nat]]
    /\ stats \in [Workers -> [Counters -> Nat]]
    /\ \A c \in Counters : IsFiniteSet(Pairs(Counted(c)))

Backed ==
    /\ SumOf(Counted("decisions")) <= Cardinality(Published("result"))
    /\ SumOf(Counted("dead")) <= Cardinality(Published("dead"))

(* Nothing was lost, so no FINISH was abandoned and every one is counted.  *)
Complete ==
    intact =>
        /\ \A w \in Workers : stale[w] = {}
        /\ SumOf(Counted("decisions")) = Cardinality(Published("result"))
        /\ SumOf(Counted("dead")) = Cardinality(Published("dead"))
        /\ Cardinality(Left) <= SumOf(Counted("decisions")) + SumOf(Counted("dead"))
                                    + SumOf(Counted("duplicates"))

Accounts == Delivery /\ CountTypes /\ Backed /\ Complete

-----------------------------------------------------------------------------
(* Sums.                                                                   *)
LEMMA PairOf ==
    ASSUME NEW S, NEW f \in [S -> Nat], NEW x, NEW n
    PROVE  <<x, n>> \in Pairs(f) <=> x \in S /\ n \in 1..f[x]
BY DEF Pairs

LEMMA SumType ==
    ASSUME NEW f, IsFiniteSet(Pairs(f))
    PROVE  SumOf(f) \in Nat
BY FS_CardinalityType DEF SumOf

(* A sum of larger numbers is larger.                                      *)
LEMMA SumMonotone ==
    ASSUME NEW S, NEW f \in [S -> Nat], NEW g \in [S -> Nat],
           \A x \in S : f[x] <= g[x], IsFiniteSet(Pairs(g))
    PROVE  IsFiniteSet(Pairs(f)) /\ SumOf(f) <= SumOf(g)
<1>1. Pairs(f) \subseteq Pairs(g)
  <2> SUFFICES ASSUME NEW x \in S, NEW n \in 1..f[x] PROVE <<x, n>> \in Pairs(g)
    BY DEF Pairs
  <2>1. n \in 1..g[x]
    <3>1. f[x] \in Nat /\ g[x] \in Nat /\ f[x] <= g[x]
      OBVIOUS
    <3> QED BY <3>1
  <2> QED BY <2>1, PairOf
<1> QED BY <1>1, FS_Subset DEF SumOf

(* One more at one place is one more in the sum.                           *)
LEMMA SumGrows ==
    ASSUME NEW S, NEW f \in [S -> Nat], NEW g \in [S -> Nat], NEW y \in S,
           g[y] = f[y] + 1, \A x \in S : x # y => g[x] = f[x],
           IsFiniteSet(Pairs(f))
    PROVE  IsFiniteSet(Pairs(g)) /\ SumOf(g) = SumOf(f) + 1
<1>0. f[y] \in Nat /\ g[y] \in Nat
  OBVIOUS
<1>1. 1..g[y] = 1..f[y] \cup {g[y]} /\ g[y] \notin 1..f[y]
  BY <1>0
<1>2. Pairs(g) \subseteq Pairs(f) \cup {<<y, g[y]>>}
  <2> SUFFICES ASSUME NEW x \in S, NEW n \in 1..g[x], <<x, n>> # <<y, g[y]>>
               PROVE  <<x, n>> \in Pairs(f)
    BY DEF Pairs
  <2>1. n \in 1..f[x]
    BY <1>1
  <2> QED BY <2>1, PairOf
<1>3. Pairs(f) \subseteq Pairs(g)
  <2> SUFFICES ASSUME NEW x \in S, NEW n \in 1..f[x] PROVE <<x, n>> \in Pairs(g)
    BY DEF Pairs
  <2>1. n \in 1..g[x]
    BY <1>1
  <2> QED BY <2>1, PairOf
<1>4. <<y, g[y]>> \in Pairs(g)
  BY <1>1, PairOf
<1>5. <<y, g[y]>> \notin Pairs(f)
  BY <1>1, PairOf
<1>6. Pairs(g) = Pairs(f) \cup {<<y, g[y]>>}
  BY <1>2, <1>3, <1>4
<1> QED BY <1>5, <1>6, FS_AddElement DEF SumOf

-----------------------------------------------------------------------------
(* The steps of Accounting are steps of HookGuard.                         *)
LEMMA AccountedStep == AccountedNext => Next
<1> SUFFICES ASSUME AccountedNext PROVE Next
  OBVIOUS
<1>1. ASSUME NEW w \in Workers,
             Finish(w) \/ Count(w) \/ Lose(w) \/ Die(w) \/ Uncounted(w),
             UNCHANGED gatewayVars
      PROVE  Next
  <2>1. WorkerStep(w) \/ CycleBreaks(w) \/ Kill(w)
        \/ RunStale(w) \/ LateClaim(w) \/ LateRead(w)
    BY <1>1 DEF Finish, Count, Lose, Die, Uncounted, WorkerStep
  <2> QED BY <1>1, <2>1 DEF Next, WorkerNext
<1>2. GatewayNext /\ UNCHANGED <<workerVars, countVars>> => Next
  BY DEF Next
<1> QED BY <1>1, <1>2 DEF AccountedNext, Next

THEOREM AccountingIsHookGuard == AccountedSpec => Spec
<1>1. AccountedInit => Init
  BY DEF AccountedInit
<1>2. [AccountedNext]_accountedVars => [Next]_vars
  BY AccountedStep DEF accountedVars
<1> QED BY <1>1, <1>2, PTL DEF AccountedSpec, Spec

(* What the reply of a FINISH raises.                                      *)
LEMMA CounterRaised ==
    ASSUME TypeOK, NEW i \in Ids
    PROVE  /\ FinishKnown(i) => CounterOf(i) = {"duplicates"}
           /\ FinishFails(i) => CounterOf(i) = {}
           /\ FinishNew(i) => CounterOf(i) =
                 {IF OutputOf(i) = "dead" THEN "dead" ELSE "decisions"}
<1>1. outputs \in Seq(Output)
  BY DEF TypeOK, StoreTypeOK
<1>2. ASSUME FinishKnown(i) PROVE CounterOf(i) = {"duplicates"}
  BY <1>2 DEF FinishKnown, CounterOf, Counters
<1>3. ASSUME FinishFails(i) PROVE CounterOf(i) = {}
  BY <1>3 DEF FinishFails, CounterOf, Counters
<1>4. ASSUME FinishNew(i)
      PROVE  CounterOf(i) = {IF OutputOf(i) = "dead" THEN "dead" ELSE "decisions"}
  <2>1. outputs' # outputs
    <3>1. Len(outputs') = Len(outputs) + 1 /\ Len(outputs) \in Nat
      BY <1>1, <1>4 DEF FinishNew
    <3> QED BY <3>1
  <2> QED BY <1>4, <2>1 DEF FinishNew, CounterOf, Counters, OutputOf
<1> QED BY <1>2, <1>3, <1>4

-----------------------------------------------------------------------------
(* What is published of a kind, and what left the queue.                   *)
LEMMA PublishedFinite ==
    ASSUME TypeOK, NEW kind
    PROVE  IsFiniteSet(Published(kind)) /\ IsFiniteSet(Left)
<1>1. outputs \in Seq(Output)
  BY DEF TypeOK, StoreTypeOK
<1>2. Len(outputs) \in Nat /\ DOMAIN outputs = 1..Len(outputs)
  BY <1>1
<1>3. IsFiniteSet(DOMAIN outputs) /\ Published(kind) \subseteq DOMAIN outputs
  BY <1>2, FS_Interval DEF Published
<1>4. IsFiniteSet(Ids) /\ Left \subseteq Ids
  BY ConfigAssumption, FS_Interval DEF Ids, Left
<1> QED BY <1>3, <1>4, FS_Subset

LEMMA OutputOfStays ==
    ASSUME Delivery, [Next]_vars, NEW j \in DOMAIN outputs
    PROVE  j \in DOMAIN outputs' /\ OutputOf(outputs[j].id)' = OutputOf(outputs[j].id)
<1>1. j \in DOMAIN outputs' /\ outputs'[j].id = outputs[j].id
  BY PublishedStays
<1>2. body'[outputs[j].id] = body[outputs[j].id]
  BY OutputFacts, RecordStep
<1> QED BY <1>1, <1>2 DEF OutputOf

LEMMA PublishedGrows ==
    ASSUME Delivery, [Next]_vars, NEW kind
    PROVE  /\ Published(kind) \subseteq Published(kind)'
           /\ DOMAIN outputs' = DOMAIN outputs => Published(kind)' = Published(kind)
BY OutputOfStays DEF Published

LEMMA PublishedNew ==
    ASSUME Delivery, [Next]_vars, NEW i \in Ids, FinishNew(i), NEW kind
    PROVE  Published(kind)' = IF OutputOf(i) = kind
                              THEN Published(kind) \cup {Len(outputs) + 1}
                              ELSE Published(kind)
<1>1. outputs \in Seq(Output) /\ outputs' = Append(outputs, [id |-> i, age |-> 0])
  BY DEF Delivery, TypeOK, StoreTypeOK, FinishNew
<1>2. /\ DOMAIN outputs' = DOMAIN outputs \cup {Len(outputs) + 1}
      /\ outputs'[Len(outputs) + 1].id = i
  BY <1>1
<1>3. OutputOf(i)' = OutputOf(i)
  BY DEF FinishNew, OutputOf
<1>4. Len(outputs) + 1 \in Published(kind)' <=> OutputOf(i) = kind
  BY <1>2, <1>3 DEF Published
<1>5. \A j \in DOMAIN outputs : j \in Published(kind)' <=> j \in Published(kind)
  BY OutputOfStays DEF Published
<1>6. Published(kind)' \subseteq DOMAIN outputs' /\ Published(kind) \subseteq DOMAIN outputs
  BY DEF Published
<1>7. CASE OutputOf(i) = kind
  BY <1>2, <1>4, <1>5, <1>6, <1>7
<1>8. CASE OutputOf(i) # kind
  <2>1. Published(kind)' \subseteq DOMAIN outputs
    BY <1>2, <1>4, <1>6, <1>8
  <2>2. Published(kind)' = Published(kind)
    BY <1>2, <1>5, <1>6, <2>1
  <2> QED BY <1>8, <2>2
<1> QED BY <1>7, <1>8

(* A step that is no FINISH publishes nothing, and what it appends stays.  *)
LEMMA QuietStore ==
    ASSUME Delivery, [Next]_vars,
           UNCHANGED <<stream, nextId, outputs>> \/ GatewayNext \/ Tick \/ Inject
    PROVE  DOMAIN outputs' = DOMAIN outputs /\ Left' \subseteq Left
<1>0. nextId \in Int /\ Ids \subseteq Int
  BY ConfigAssumption DEF Delivery, TypeOK, StoreTypeOK, Ids
<1>1. CASE UNCHANGED <<stream, nextId, outputs>>
  BY <1>1 DEF Left
<1>2. ASSUME NEW m, XAdd(m), UNCHANGED outputs
      PROVE  DOMAIN outputs' = DOMAIN outputs /\ Left' \subseteq Left
  <2>1. \A i \in Ids : i < nextId + 1 /\ i # nextId => i < nextId
    BY <1>0
  <2> QED BY <1>2, <2>1 DEF XAdd, Left
<1>3. CASE GatewayNext
  <2>1. PICK r \in Requests : AdmitNew(r) \/ UNCHANGED <<stream, nextId, outputs>>
    BY <1>3 DEF GatewayNext, Refuse, Accept, AdmitScript, AdmitKnown, AdmitFull,
           AdmitAppendFails, Reply, Expire, storeVars, streamVars
  <2> QED BY <1>1, <1>2, <2>1 DEF AdmitNew
<1>4. CASE Tick
  BY <1>4 DEF Tick, Elapse, Left
<1>5. CASE Inject
  BY <1>2, <1>5 DEF Inject
<1> QED BY <1>1, <1>3, <1>4, <1>5

-----------------------------------------------------------------------------
(* The invariant.                                                          *)
LEMMA CountedType ==
    ASSUME CountTypes, NEW c \in Counters
    PROVE  Counted(c) \in [Workers -> Nat]
BY DEF CountTypes, Counted

LEMMA CountedNumber ==
    ASSUME CountTypes, NEW c \in Counters
    PROVE  SumOf(Counted(c)) \in Nat
BY SumType DEF CountTypes

LEMMA KindNumbers ==
    ASSUME TypeOK, NEW kind
    PROVE  Cardinality(Published(kind)) \in Nat /\ Cardinality(Left) \in Nat
BY PublishedFinite, FS_CardinalityType

LEMMA AccountsInit == AccountedInit => Accounts
<1> SUFFICES ASSUME AccountedInit PROVE Accounts
  OBVIOUS
<1>1. Delivery
  BY DeliveryInit DEF AccountedInit
<1>2. /\ replies \in [Workers -> [Counters -> Nat]]
      /\ stats \in [Workers -> [Counters -> Nat]]
  BY DEF AccountedInit, NoCounts
<1>3. \A c \in Counters : Pairs(Counted(c)) = {}
  <2> SUFFICES ASSUME NEW c \in Counters, NEW w \in Workers
               PROVE  1..(stats[w][c] + replies[w][c]) = {}
    BY DEF Pairs, Counted
  <2>1. stats[w][c] = 0 /\ replies[w][c] = 0
    BY DEF AccountedInit, NoCounts
  <2> QED BY <2>1
<1>4. \A c \in Counters : IsFiniteSet(Pairs(Counted(c))) /\ SumOf(Counted(c)) = 0
  BY <1>3, FS_EmptySet DEF SumOf
<1>5. \A kind : Published(kind) = {}
  BY DEF AccountedInit, Init, StoreInit, Published
<1>6. Left = {}
  BY ConfigAssumption DEF AccountedInit, Init, StoreInit, Left, Ids
<1>7. \A kind : Cardinality(Published(kind)) = 0
  BY <1>5, FS_EmptySet
<1>8. Cardinality(Left) = 0
  BY <1>6, FS_EmptySet
<1>9. \A w \in Workers : stale[w] = {}
  BY DEF AccountedInit, Init, WorkerInit
<1> QED BY <1>1, <1>2, <1>4, <1>7, <1>8, <1>9 DEF Accounts, CountTypes, Backed, Complete, Counters

(* A step that is no FINISH counts nothing, and loses counts only when it  *)
(* says so.                                                                *)
LEMMA QuietCounts ==
    ASSUME Accounts, Delivery', [Next]_vars,
           DOMAIN outputs' = DOMAIN outputs, Left' \subseteq Left,
           replies' \in [Workers -> [Counters -> Nat]],
           stats' \in [Workers -> [Counters -> Nat]],
           \A c \in Counters, w \in Workers : Counted(c)'[w] <= Counted(c)[w],
           intact' => /\ intact
                      /\ \A c \in Counters, w \in Workers : Counted(c)'[w] = Counted(c)[w]
                      /\ \A w \in Workers : stale'[w] \subseteq stale[w]
    PROVE  Accounts'
<1>0. TypeOK /\ CountTypes /\ Delivery /\ TypeOK'
  BY DEF Accounts, Delivery
<1>1. \A c \in Counters : Counted(c) \in [Workers -> Nat] /\ Counted(c)' \in [Workers -> Nat]
  BY <1>0, CountedType DEF Counted
<1>2. ASSUME NEW c \in Counters
      PROVE  IsFiniteSet(Pairs(Counted(c)')) /\ SumOf(Counted(c)') <= SumOf(Counted(c))
  <2>1. IsFiniteSet(Pairs(Counted(c)))
    BY <1>0 DEF CountTypes
  <2> QED BY <1>1, <2>1, SumMonotone
<1>3. CountTypes'
  BY <1>2 DEF CountTypes, Pairs
<1>4. \A kind : Published(kind)' = Published(kind)
  BY <1>0, PublishedGrows
<1>5. /\ \A c \in Counters : SumOf(Counted(c)) \in Nat /\ SumOf(Counted(c)') \in Nat
      /\ \A kind : Cardinality(Published(kind)) \in Nat
  BY <1>0, <1>2, CountedNumber, SumType, KindNumbers
<1>6. \A c \in Counters : SumOf(Counted(c))' = SumOf(Counted(c)')
  BY DEF SumOf, Pairs
<1>7. Backed'
  BY <1>2, <1>4, <1>5, <1>6 DEF Accounts, Backed, Counters
<1>8. Complete'
  <2> SUFFICES ASSUME intact' PROVE Complete'
    BY DEF Complete
  <2>1. \A c \in Counters : Counted(c)' = Counted(c)
    BY <1>1
  <2>2. IsFiniteSet(Left') /\ Cardinality(Left') <= Cardinality(Left)
    BY <1>0, PublishedFinite, FS_Subset
  <2>3. Cardinality(Left) \in Nat /\ Cardinality(Left') \in Nat
    BY <1>0, <2>2, PublishedFinite, FS_CardinalityType
  <2>4. \A c \in Counters : SumOf(Counted(c))' = SumOf(Counted(c))
    BY <1>6, <2>1
  <2>5. "decisions" \in Counters /\ "dead" \in Counters /\ "duplicates" \in Counters
    BY DEF Counters
  <2>6. \A w \in Workers : stale'[w] = {}
    BY DEF Accounts, Complete
  <2>7. Cardinality(Left)' <= SumOf(Counted("decisions"))' + SumOf(Counted("dead"))'
                                 + SumOf(Counted("duplicates"))'
    BY <1>5, <2>2, <2>3, <2>4, <2>5 DEF Accounts, Complete
  <2> QED BY <1>4, <2>4, <2>5, <2>6, <2>7 DEF Accounts, Complete
<1> QED BY <1>3, <1>7, <1>8 DEF Accounts

(* A FINISH that is awaited raises the counters its reply names by one.    *)
LEMMA FinishRaises ==
    ASSUME TypeOK, CountTypes, NEW w \in Workers, NEW i \in wire[w],
           wire' = [wire EXCEPT ![w] = @ \ {i}], Finish(w)
    PROVE  /\ replies' \in [Workers -> [Counters -> Nat]]
           /\ \A c \in Counters :
                 /\ IsFiniteSet(Pairs(Counted(c)'))
                 /\ SumOf(Counted(c)') =
                       IF c \in CounterOf(i) THEN SumOf(Counted(c)) + 1
                       ELSE SumOf(Counted(c))
<1>1. wire[w] \ wire'[w] = {i}
  BY DEF TypeOK, WorkerTypeOK
<1>2. replies' = [replies EXCEPT ![w] =
         [c \in Counters |-> IF c \in CounterOf(i) THEN @[c] + 1 ELSE @[c]]]
  BY <1>1 DEF Finish
<1>3. replies \in [Workers -> [Counters -> Nat]] /\ stats' = stats
  BY DEF CountTypes, Finish
<1>4. replies[w] \in [Counters -> Nat]
  BY <1>3
<1>5. [c \in Counters |-> IF c \in CounterOf(i) THEN replies[w][c] + 1 ELSE replies[w][c]]
         \in [Counters -> Nat]
  BY <1>4
<1>6. replies' \in [Workers -> [Counters -> Nat]]
  BY <1>2, <1>3, <1>5
<1>7. ASSUME NEW c \in Counters
      PROVE  /\ IsFiniteSet(Pairs(Counted(c)'))
             /\ SumOf(Counted(c)') = IF c \in CounterOf(i) THEN SumOf(Counted(c)) + 1
                                     ELSE SumOf(Counted(c))
  <2>1. /\ \A x \in Workers : x # w => replies'[x] = replies[x]
        /\ replies'[w][c] = IF c \in CounterOf(i) THEN replies[w][c] + 1 ELSE replies[w][c]
    BY <1>2, <1>3
  <2>2. Counted(c) \in [Workers -> Nat] /\ IsFiniteSet(Pairs(Counted(c)))
    BY CountedType DEF CountTypes
  <2>3. Counted(c)' = [x \in Workers |-> stats[x][c] + replies'[x][c]]
    BY <1>3 DEF Counted
  <2>4. Counted(c)' \in [Workers -> Nat]
    BY <1>3, <1>6, <2>3 DEF CountTypes
  <2>5. \A x \in Workers : x # w => Counted(c)'[x] = Counted(c)[x]
    BY <2>1, <2>3 DEF Counted
  <2>6. stats[w][c] \in Nat /\ replies[w][c] \in Nat
    BY DEF CountTypes
  <2>7. CASE c \in CounterOf(i)
    <3>1. Counted(c)'[w] = Counted(c)[w] + 1
      BY <2>1, <2>3, <2>6, <2>7 DEF Counted
    <3> QED BY <2>2, <2>4, <2>5, <2>7, <3>1, SumGrows
  <2>8. CASE c \notin CounterOf(i)
    <3>1. Counted(c)'[w] = Counted(c)[w]
      BY <2>1, <2>3, <2>8 DEF Counted
    <3>2. Counted(c)' = Counted(c)
      BY <2>2, <2>4, <2>5, <3>1
    <3> QED BY <2>2, <2>8, <3>2
  <2> QED BY <2>7, <2>8
<1> QED BY <1>6, <1>7

LEMMA FinishAccounts ==
    ASSUME Accounts, Delivery', [Next]_vars, NEW w \in Workers, Finish(w)
    PROVE  Accounts'
<1>0. TypeOK /\ CountTypes /\ Delivery
  BY DEF Accounts, Delivery
<1>1. PICK i \in wire[w] :
          /\ wire' = [wire EXCEPT ![w] = @ \ {i}]
          /\ FinishSettles(i) \/ FinishFails(i)
          /\ UNCHANGED stale
  BY DEF Finish, RunFinish
<1>2. i \in Ids
  BY <1>0 DEF TypeOK, WorkerTypeOK
<1>3. /\ replies' \in [Workers -> [Counters -> Nat]]
      /\ \A c \in Counters :
            /\ IsFiniteSet(Pairs(Counted(c)'))
            /\ SumOf(Counted(c)') =
                  IF c \in CounterOf(i) THEN SumOf(Counted(c)) + 1 ELSE SumOf(Counted(c))
  BY <1>0, <1>1, FinishRaises
<1>4. stats' \in [Workers -> [Counters -> Nat]] /\ intact' = intact /\ stale' = stale
  BY <1>0, <1>1 DEF Finish, CountTypes
<1>5. CountTypes'
  BY <1>3, <1>4 DEF CountTypes, Pairs
<1>6. \A c \in Counters : SumOf(Counted(c))' = SumOf(Counted(c)')
  BY DEF SumOf, Pairs
<1>7. /\ SumOf(Counted("decisions")) \in Nat /\ SumOf(Counted("dead")) \in Nat
      /\ SumOf(Counted("duplicates")) \in Nat
  BY <1>0, CountedNumber DEF Counters
<1>8. \A kind : Cardinality(Published(kind)) \in Nat
  BY <1>0, KindNumbers
<1>9. Cardinality(Left) \in Nat
  BY <1>0, KindNumbers
<1>10. CASE FinishFails(i)
  <2>1. CounterOf(i) = {}
    BY <1>0, <1>2, <1>10, CounterRaised
  <2>2. UNCHANGED <<stream, nextId, outputs>>
    BY <1>10 DEF FinishFails, streamVars
  <2>3. \A kind : Published(kind)' = Published(kind)
    BY <1>0, <2>2, PublishedGrows
  <2>4. Left' = Left
    BY <2>2 DEF Left
  <2>5. \A c \in Counters : SumOf(Counted(c))' = SumOf(Counted(c))
    BY <1>3, <1>6, <2>1
  <2>6. Backed'
    BY <2>3, <2>5 DEF Accounts, Backed, Counters
  <2>7. Complete'
    BY <1>4, <2>3, <2>4, <2>5 DEF Accounts, Complete, Counters
  <2> QED BY <1>5, <2>6, <2>7 DEF Accounts
<1>11. Cardinality(Left') <= Cardinality(Left) + 1 /\ Cardinality(Left') \in Nat
  <2>1. Left' \subseteq Left \cup {i}
    BY <1>1, <1>2, SettlingEffect DEF Left
  <2>2. /\ IsFiniteSet(Left \cup {i})
        /\ Cardinality(Left \cup {i}) = Cardinality(Left)
           \/ Cardinality(Left \cup {i}) = Cardinality(Left) + 1
    BY <1>0, PublishedFinite, FS_AddElement
  <2>3. IsFiniteSet(Left') /\ Cardinality(Left') <= Cardinality(Left \cup {i})
    BY <2>1, <2>2, FS_Subset
  <2>4. Cardinality(Left') \in Nat
    BY <2>3, FS_CardinalityType
  <2> QED BY <1>9, <2>2, <2>3, <2>4
<1>12. CASE FinishKnown(i)
  <2>1. CounterOf(i) = {"duplicates"}
    BY <1>0, <1>2, <1>12, CounterRaised
  <2>2. \A kind : Published(kind)' = Published(kind)
    BY <1>0, <1>12, PublishedGrows DEF FinishKnown
  <2>3. /\ SumOf(Counted("decisions"))' = SumOf(Counted("decisions"))
        /\ SumOf(Counted("dead"))' = SumOf(Counted("dead"))
        /\ SumOf(Counted("duplicates"))' = SumOf(Counted("duplicates")) + 1
    BY <1>3, <1>6, <2>1 DEF Counters
  <2>4. Backed'
    BY <2>2, <2>3 DEF Accounts, Backed
  <2>5. Complete'
    BY <1>4, <1>7, <1>9, <1>11, <2>2, <2>3 DEF Accounts, Complete
  <2> QED BY <1>5, <2>4, <2>5 DEF Accounts
<1>13. CASE FinishNew(i)
  <2>1. OutputOf(i) = "dead" \/ OutputOf(i) = "result"
    BY DEF OutputOf
  <2>2. ASSUME NEW kind
        PROVE  Cardinality(Published(kind)') =
                  IF OutputOf(i) = kind THEN Cardinality(Published(kind)) + 1
                  ELSE Cardinality(Published(kind))
    <3>1. Published(kind)' = IF OutputOf(i) = kind
                             THEN Published(kind) \cup {Len(outputs) + 1} ELSE Published(kind)
      BY <1>0, <1>2, <1>13, PublishedNew
    <3>2. Len(outputs) + 1 \notin Published(kind)
      <4>1. outputs \in Seq(Output)
        BY <1>0 DEF TypeOK, StoreTypeOK
      <4>2. Len(outputs) + 1 \notin DOMAIN outputs
        BY <4>1
      <4> QED BY <4>2 DEF Published
    <3>3. IsFiniteSet(Published(kind))
      BY <1>0, PublishedFinite
    <3>4. Cardinality(Published(kind) \cup {Len(outputs) + 1}) = Cardinality(Published(kind)) + 1
      BY <3>2, <3>3, FS_AddElement
    <3> QED BY <3>1, <3>4
  <2>3. CounterOf(i) = {IF OutputOf(i) = "dead" THEN "dead" ELSE "decisions"}
    BY <1>0, <1>2, <1>13, CounterRaised
  <2>4. CASE OutputOf(i) = "dead"
    <3>1. /\ SumOf(Counted("decisions"))' = SumOf(Counted("decisions"))
          /\ SumOf(Counted("dead"))' = SumOf(Counted("dead")) + 1
          /\ SumOf(Counted("duplicates"))' = SumOf(Counted("duplicates"))
      BY <1>3, <1>6, <2>3, <2>4 DEF Counters
    <3>2. /\ Cardinality(Published("dead")') = Cardinality(Published("dead")) + 1
          /\ Cardinality(Published("result")') = Cardinality(Published("result"))
      BY <2>2, <2>4
    <3>3. Backed'
      BY <1>7, <1>8, <3>1, <3>2 DEF Accounts, Backed
    <3>4. Complete'
      BY <1>4, <1>7, <1>8, <1>9, <1>11, <3>1, <3>2 DEF Accounts, Complete
    <3> QED BY <1>5, <3>3, <3>4 DEF Accounts
  <2>5. CASE OutputOf(i) = "result"
    <3>1. /\ SumOf(Counted("decisions"))' = SumOf(Counted("decisions")) + 1
          /\ SumOf(Counted("dead"))' = SumOf(Counted("dead"))
          /\ SumOf(Counted("duplicates"))' = SumOf(Counted("duplicates"))
      BY <1>3, <1>6, <2>3, <2>5 DEF Counters
    <3>2. /\ Cardinality(Published("dead")') = Cardinality(Published("dead"))
          /\ Cardinality(Published("result")') = Cardinality(Published("result")) + 1
      BY <2>2, <2>5
    <3>3. Backed'
      BY <1>7, <1>8, <3>1, <3>2 DEF Accounts, Backed
    <3>4. Complete'
      BY <1>4, <1>7, <1>8, <1>9, <1>11, <3>1, <3>2 DEF Accounts, Complete
    <3> QED BY <1>5, <3>3, <3>4 DEF Accounts
  <2> QED BY <2>1, <2>4, <2>5
<1> QED BY <1>1, <1>10, <1>12, <1>13 DEF FinishSettles

(* An abandoned FINISH publishes, and nobody counts it.                    *)
LEMMA StaleAccounts ==
    ASSUME Accounts, Delivery', [Next]_vars, NEW w \in Workers, RunStale(w),
           UNCHANGED countVars
    PROVE  Accounts'
<1>0. TypeOK /\ CountTypes /\ Delivery /\ TypeOK'
  BY DEF Accounts, Delivery
<1>1. stale[w] # {}
  BY DEF RunStale
<1>2. ~intact'
  BY <1>1 DEF Accounts, Complete, countVars
<1>3. \A c : Counted(c)' = Counted(c)
  BY DEF Counted, countVars
<1>4. \A c : SumOf(Counted(c))' = SumOf(Counted(c))
  BY <1>3 DEF SumOf, Pairs
<1>5. CountTypes'
  BY <1>0, <1>3 DEF CountTypes, countVars, Pairs
<1>6. ASSUME NEW kind PROVE Cardinality(Published(kind)) <= Cardinality(Published(kind)')
                            /\ Cardinality(Published(kind)) \in Nat
                            /\ Cardinality(Published(kind)') \in Nat
  <2>1. Published(kind) \subseteq Published(kind)'
    BY <1>0, PublishedGrows
  <2>2. IsFiniteSet(Published(kind)')
    <3>1. outputs' \in Seq(Output)
      BY <1>0 DEF TypeOK, StoreTypeOK
    <3>2. Len(outputs') \in Nat /\ DOMAIN outputs' = 1..Len(outputs')
      BY <3>1
    <3>3. IsFiniteSet(DOMAIN outputs') /\ Published(kind)' \subseteq DOMAIN outputs'
      BY <3>2, FS_Interval DEF Published
    <3> QED BY <3>3, FS_Subset
  <2> QED BY <2>1, <2>2, FS_Subset, FS_CardinalityType
<1>7. SumOf(Counted("decisions")) \in Nat /\ SumOf(Counted("dead")) \in Nat
  BY <1>0, CountedNumber DEF Counters
<1>8. Backed'
  BY <1>4, <1>6, <1>7 DEF Accounts, Backed
<1> QED BY <1>2, <1>5, <1>8 DEF Accounts, Complete

LEMMA AccountsStep == Accounts /\ [AccountedNext]_accountedVars => Accounts'
<1> SUFFICES ASSUME Accounts, [AccountedNext]_accountedVars PROVE Accounts'
  OBVIOUS
<1>0. [Next]_vars /\ CountTypes /\ Delivery
  BY AccountedStep DEF accountedVars, Accounts
<1>1. Delivery'
  BY <1>0, DeliveryStep
<1>2. ASSUME UNCHANGED countVars, \A w \in Workers : stale'[w] \subseteq stale[w],
             UNCHANGED <<stream, nextId, outputs>> \/ GatewayNext \/ Tick \/ Inject
      PROVE  Accounts'
  <2>1. \A c \in Counters, w \in Workers :
            Counted(c)'[w] = Counted(c)[w] /\ Counted(c)'[w] <= Counted(c)[w]
    <3> SUFFICES ASSUME NEW c \in Counters, NEW w \in Workers
                 PROVE  Counted(c)'[w] = Counted(c)[w] /\ Counted(c)'[w] <= Counted(c)[w]
      OBVIOUS
    <3>1. Counted(c)' = Counted(c)
      BY <1>2 DEF Counted, countVars
    <3>2. Counted(c)[w] \in Nat
      BY <1>0, CountedType
    <3> QED BY <3>1, <3>2
  <2> QED BY <1>0, <1>1, <1>2, <2>1, QuietStore, QuietCounts DEF countVars, CountTypes
<1>3. CASE UNCHANGED accountedVars
  BY <1>2, <1>3
     DEF accountedVars, vars, storeVars, streamVars, workerVars
<1>4. CASE (GatewayNext /\ UNCHANGED <<workerVars, countVars>>)
           \/ ((Tick \/ Inject) /\ UNCHANGED countVars)
  BY <1>2, <1>4 DEF workerVars, Tick, Inject
<1>5. ASSUME NEW w \in Workers, Uncounted(w), UNCHANGED countVars PROVE Accounts'
  <2>1. CASE RunStale(w)
    BY <1>0, <1>1, <1>5, <2>1, StaleAccounts
  <2>2. CASE ~RunStale(w)
    <3>1. UNCHANGED <<stream, nextId, outputs, stale>>
      BY <1>5, <2>2 DEF Uncounted, Start, Claim, Read, Recover, LateClaim, LateRead, streamVars
    <3> QED BY <1>2, <1>5, <3>1
  <2> QED BY <2>1, <2>2
<1>6. ASSUME NEW w \in Workers, Count(w) \/ Lose(w) \/ Die(w) PROVE Accounts'
  <2>1. UNCHANGED <<stream, nextId, outputs>>
    BY <1>6 DEF Count, Lose, Die, Collect, CycleBreaks, Kill, storeVars, streamVars
  <2>2. NoCounts \in [Counters -> Nat] /\ \A c \in Counters : NoCounts[c] = 0
    BY DEF NoCounts
  <2>3. /\ replies' = [replies EXCEPT ![w] = NoCounts]
        /\ replies \in [Workers -> [Counters -> Nat]]
        /\ stats \in [Workers -> [Counters -> Nat]]
    BY <1>0, <1>6 DEF Count, Lose, Die, Forget, CountTypes
  <2>4. /\ replies' \in [Workers -> [Counters -> Nat]]
        /\ \A x \in Workers : x # w => replies'[x] = replies[x]
        /\ \A c \in Counters : replies'[w][c] = 0
    BY <2>2, <2>3
  <2>5. \A x \in Workers, c \in Counters : stats[x][c] \in Nat /\ replies[x][c] \in Nat
    BY <2>3
  <2>6. \A c \in Counters, x \in Workers :
            /\ Counted(c)[x] = stats[x][c] + replies[x][c]
            /\ Counted(c)'[x] = stats'[x][c] + replies'[x][c]
    BY DEF Counted
  <2>7. CASE Count(w)
    <3>1. stats' = [stats EXCEPT ![w] = [c \in Counters |-> @[c] + replies[w][c]]]
          /\ intact' = intact /\ stale' = stale
      BY <2>7 DEF Count, Collect
    <3>2. [c \in Counters |-> stats[w][c] + replies[w][c]] \in [Counters -> Nat]
      BY <2>5
    <3>3. /\ stats' \in [Workers -> [Counters -> Nat]]
          /\ \A x \in Workers : x # w => stats'[x] = stats[x]
          /\ \A c \in Counters : stats'[w][c] = stats[w][c] + replies[w][c]
      BY <2>3, <3>1, <3>2
    <3>4. \A c \in Counters, x \in Workers :
              Counted(c)'[x] = Counted(c)[x] /\ Counted(c)'[x] <= Counted(c)[x]
      BY <2>4, <2>5, <2>6, <3>3
    <3> QED BY <1>0, <1>1, <2>1, <2>4, <3>1, <3>3, <3>4, QuietStore, QuietCounts
  <2>8. CASE Lose(w) \/ Die(w)
    <3>1. ~intact'
      BY <2>8 DEF Lose, Die
    <3>2. /\ stats' \in [Workers -> [Counters -> Nat]]
          /\ \A x \in Workers, c \in Counters :
                stats'[x][c] = stats[x][c] \/ stats'[x][c] = 0
      <4>1. stats' = stats \/ stats' = [stats EXCEPT ![w] = NoCounts]
        BY <2>8 DEF Lose, Die
      <4> QED BY <2>2, <2>3, <4>1
    <3>3. \A x \in Workers, c \in Counters :
              replies'[x][c] = replies[x][c] \/ replies'[x][c] = 0
      BY <2>4
    <3>4. \A c \in Counters, x \in Workers : Counted(c)'[x] <= Counted(c)[x]
      BY <2>5, <2>6, <3>2, <3>3
    <3> QED BY <1>0, <1>1, <2>1, <2>4, <3>1, <3>2, <3>4, QuietStore, QuietCounts
  <2> QED BY <1>6, <2>7, <2>8
<1>7. ASSUME NEW w \in Workers, Finish(w) PROVE Accounts'
  BY <1>0, <1>1, <1>7, FinishAccounts
<1> QED BY <1>3, <1>4, <1>5, <1>6, <1>7 DEF AccountedNext

LEMMA AccountsHold == AccountedSpec => []Accounts
BY AccountsInit, AccountsStep, PTL DEF AccountedSpec

(* The workers never count more decisions or dead letters than were        *)
(* published, whatever is lost, retried or executed late.                  *)
THEOREM CountsAreBackedHolds == AccountedSpec => []CountsAreBacked
<1>1. Accounts => CountsAreBacked
  <2> SUFFICES ASSUME Accounts PROVE CountsAreBacked
    OBVIOUS
  <2>1. CountTypes /\ TypeOK
    BY DEF Accounts, Delivery
  <2>2. ASSUME NEW c \in Counters
        PROVE  Total(c) \in Nat /\ SumOf(Counted(c)) \in Nat /\ Total(c) <= SumOf(Counted(c))
    <3> DEFINE counts == [w \in Workers |-> stats[w][c]]
    <3>1. counts \in [Workers -> Nat] /\ Counted(c) \in [Workers -> Nat]
      BY <2>1, CountedType DEF CountTypes
    <3>2. \A w \in Workers : counts[w] <= Counted(c)[w]
      BY <2>1 DEF CountTypes, Counted
    <3>3. IsFiniteSet(Pairs(Counted(c)))
      BY <2>1 DEF CountTypes
    <3> HIDE DEF counts
    <3>4. IsFiniteSet(Pairs(counts)) /\ SumOf(counts) <= SumOf(Counted(c))
      BY <3>1, <3>2, <3>3, SumMonotone
    <3>5. Total(c) = SumOf(counts)
      BY DEF Total, counts
    <3> QED BY <3>3, <3>4, <3>5, SumType
  <2>3. Cardinality(Published("result")) \in Nat /\ Cardinality(Published("dead")) \in Nat
    BY <2>1, KindNumbers
  <2> QED BY <2>2, <2>3 DEF Accounts, Backed, CountsAreBacked, Counters
<1> QED BY AccountsHold, <1>1, PTL

(* As long as no reply is lost, the counters add up to exactly what was    *)
(* published, and every entry that left the queue was counted.             *)
THEOREM AllIsCountedHolds == AccountedSpec => []AllIsCounted
<1>1. Accounts => AllIsCounted
  <2> SUFFICES ASSUME Accounts, intact, \A w \in Workers : replies[w] = NoCounts
               PROVE  /\ Total("decisions") = Cardinality(Published("result"))
                      /\ Total("dead") = Cardinality(Published("dead"))
                      /\ Total("decisions") + Total("dead") + Total("duplicates")
                            >= Cardinality(Left)
    BY DEF AllIsCounted, Left
  <2>1. CountTypes /\ TypeOK
    BY DEF Accounts, Delivery
  <2>2. ASSUME NEW c \in Counters PROVE Total(c) = SumOf(Counted(c)) /\ Total(c) \in Nat
    <3>1. \A w \in Workers : stats[w][c] + replies[w][c] = stats[w][c]
      BY <2>1 DEF CountTypes, NoCounts
    <3>2. Counted(c) = [w \in Workers |-> stats[w][c]]
      BY <3>1 DEF Counted
    <3> QED BY <2>1, <3>2, CountedNumber DEF Total
  <2>3. Cardinality(Left) \in Nat
    BY <2>1, KindNumbers
  <2> QED BY <2>2, <2>3 DEF Accounts, Complete, Counters
<1> QED BY AccountsHold, <1>1, PTL


-----------------------------------------------------------------------------
(* Durability: the disk.                                                   *)
Store ==
    [stream : SUBSET Ids, group : BOOLEAN, last : 0..MaxEntries,
     pending : SUBSET Ids, idle : [Ids -> 0..ReclaimIdle],
     mark : [Events -> Data \cup {None}], markLeft : [Events -> 0..AdmitTTL],
     done : [Keys -> 0..FinishTTL], outputs : Seq(Output),
     nextId : 1..(MaxEntries + 1)]

(* Consistent as Delivery says of the store in memory.                     *)
Delivered(d) ==
    /\ \A i \in d.stream : i < d.nextId
    /\ d.last < d.nextId
    /\ \A j \in DOMAIN d.outputs : d.outputs[j].id < d.nextId
    /\ d.pending = {i \in d.stream : i <= d.last}
    /\ d.group \/ d.last = 0

OnDisk == disk \in Store /\ disk.nextId <= nextId /\ Delivered(disk)

History ==
    /\ lag \in 0..SyncLag
    /\ lost \subseteq Ids /\ \A i \in lost : i < nextId

Durable == Delivery /\ OnDisk /\ History

LEMMA DurableFacts ==
    ASSUME Durable
    PROVE  /\ disk \in Store /\ Delivered(disk)
           /\ disk.nextId \in Int /\ nextId \in Int /\ disk.nextId <= nextId
<1>1. disk \in Store /\ Delivered(disk) /\ disk.nextId <= nextId
  BY DEF Durable, OnDisk
<1>2. disk.nextId \in 1..(MaxEntries + 1)
  BY <1>1 DEF Store
<1>3. nextId \in 1..(MaxEntries + 1)
  BY DEF Durable, Delivery, TypeOK, StoreTypeOK
<1> QED BY <1>1, <1>2, <1>3, ConfigAssumption

LEMMA SavedStore ==
    ASSUME TypeOK
    PROVE  Saved \in Store
BY DEF TypeOK, StoreTypeOK, Saved, Store

LEMMA UpdatedStore ==
    ASSUME NEW d \in Store,
           NEW i \in [Ids -> 0..ReclaimIdle], NEW m \in [Events -> Data \cup {None}],
           NEW l \in [Events -> 0..AdmitTTL], NEW k \in [Keys -> 0..FinishTTL],
           NEW o \in Seq(Output)
    PROVE  [d EXCEPT !.idle = i, !.mark = m, !.markLeft = l, !.done = k, !.outputs = o]
             \in Store
BY DEF Store

(* What a second does to the disk.                                         *)
LEMMA AgedFields ==
    ASSUME NEW d \in Store
    PROVE  /\ Aged(d) \in Store
           /\ Aged(d).stream = d.stream /\ Aged(d).group = d.group
           /\ Aged(d).last = d.last /\ Aged(d).pending = d.pending
           /\ Aged(d).nextId = d.nextId
           /\ \A e \in Events :
                 /\ Aged(d).mark[e] = IF d.markLeft[e] <= 1 THEN None ELSE d.mark[e]
                 /\ Aged(d).markLeft[e] = Less(d.markLeft[e])
           /\ \A k \in Keys : Aged(d).done[k] = Less(d.done[k])
           /\ DOMAIN Aged(d).outputs = DOMAIN d.outputs
           /\ \A j \in DOMAIN d.outputs :
                 /\ Aged(d).outputs[j].id = d.outputs[j].id
                 /\ Aged(d).outputs[j].age = Older(d.outputs[j].age, FinishTTL)
<1> USE ConfigAssumption
<1> DEFINE a == Aged(d)
           idles == [i \in Ids |-> IF i \in d.pending
                                   THEN Older(d.idle[i], ReclaimIdle) ELSE 0]
           marks == [e \in Events |-> IF d.markLeft[e] <= 1 THEN None ELSE d.mark[e]]
           lefts == [e \in Events |-> Less(d.markLeft[e])]
           dones == [k \in Keys |-> Less(d.done[k])]
           outs  == [j \in DOMAIN d.outputs |->
                        [d.outputs[j] EXCEPT !.age = Older(@, FinishTTL)]]
<1>1. /\ a.stream = d.stream /\ a.group = d.group /\ a.last = d.last
      /\ a.pending = d.pending /\ a.nextId = d.nextId
      /\ a.idle = idles /\ a.mark = marks /\ a.markLeft = lefts
      /\ a.done = dones /\ a.outputs = outs
  BY DEF Aged, Store
<1>2. a = [d EXCEPT !.idle = idles, !.mark = marks, !.markLeft = lefts,
                    !.done = dones, !.outputs = outs]
  BY DEF Aged
<1>3. /\ d.stream \subseteq Ids /\ d.group \in BOOLEAN /\ d.last \in 0..MaxEntries
      /\ d.pending \subseteq Ids /\ d.nextId \in 1..(MaxEntries + 1)
      /\ d.idle \in [Ids -> 0..ReclaimIdle] /\ d.mark \in [Events -> Data \cup {None}]
      /\ d.markLeft \in [Events -> 0..AdmitTTL] /\ d.done \in [Keys -> 0..FinishTTL]
      /\ d.outputs \in Seq(Output)
  BY DEF Store
<1>4. idles \in [Ids -> 0..ReclaimIdle]
  BY <1>3 DEF Older
<1>5. marks \in [Events -> Data \cup {None}] /\ lefts \in [Events -> 0..AdmitTTL]
  BY <1>3 DEF Less
<1>6. dones \in [Keys -> 0..FinishTTL]
  BY <1>3 DEF Less
<1>7. outs \in Seq(Output) /\ DOMAIN outs = DOMAIN d.outputs
      /\ \A j \in DOMAIN d.outputs :
            outs[j].id = d.outputs[j].id /\ outs[j].age = Older(d.outputs[j].age, FinishTTL)
  <2>1. ASSUME NEW j \in DOMAIN d.outputs
        PROVE  /\ outs[j] \in Output /\ outs[j].id = d.outputs[j].id
               /\ outs[j].age = Older(d.outputs[j].age, FinishTTL)
    <3>1. d.outputs[j] \in Output
      BY <1>3, SeqElement
    <3>2. outs[j] = [d.outputs[j] EXCEPT !.age = Older(@, FinishTTL)]
      OBVIOUS
    <3> QED BY <3>1, <3>2, AgedOutput DEF Output
  <2>2. outs = [j \in DOMAIN d.outputs |-> outs[j]]
    OBVIOUS
  <2> HIDE DEF outs
  <2>3. outs \in Seq(Output)
    BY <1>3, <2>1, <2>2, ReplacedSeq
  <2> QED BY <2>1, <2>2, <2>3
<1>8. a \in Store
  <2> HIDE DEF a, idles, marks, lefts, dones, outs
  <2> QED BY <1>2, <1>4, <1>5, <1>6, <1>7, UpdatedStore
<1> HIDE DEF outs
<1> QED BY <1>1, <1>7, <1>8

LEMMA DeliveredAged ==
    ASSUME NEW d \in Store, Delivered(d)
    PROVE  Delivered(Aged(d))
BY AgedFields DEF Delivered

LEMMA DeliveredSaved ==
    ASSUME Delivery
    PROVE  Delivered(Saved)
BY DEF Delivery, StoreOnRecord, NoOrphanedDelivery, Delivered, Saved

-----------------------------------------------------------------------------
(* Delivery.                                                               *)
LEMMA StepIsNext ==
    ASSUME Step \/ Second \/ Sync \/ UNCHANGED allVars
    PROVE  [Next]_vars
BY DEF Step, Second, Sync, Next, allVars

LEMMA CrashType ==
    ASSUME Durable, Crash
    PROVE  TypeOK'
<1> USE ConfigAssumption DEF Durable, Delivery, TypeOK
<1>1. /\ stream' = disk.stream /\ group' = disk.group /\ last' = disk.last
      /\ pending' = disk.pending /\ idle' = disk.idle /\ mark' = disk.mark
      /\ markLeft' = disk.markLeft /\ done' = disk.done /\ outputs' = disk.outputs
      /\ UNCHANGED <<body, age, nextId>>
  BY DEF Crash, Restore, Load
<1>2. faults' \in 0..MaxFaults
  BY DEF Crash, Fault, StoreTypeOK
<1>3. StoreTypeOK'
  BY <1>1, <1>2 DEF OnDisk, Store, StoreTypeOK
<1>4. GatewayTypeOK'
  BY DEF Crash, gatewayVars, GatewayTypeOK
<1>5. WorkerTypeOK'
  <2>1. PICK connected \in SUBSET Workers :
           stale' = [w \in Workers |-> IF w \in connected THEN wire[w] ELSE {}]
    BY DEF Crash
  <2>2. stale' \in [Workers -> SUBSET Ids]
    BY <2>1 DEF WorkerTypeOK
  <2>3. pc' \in [Workers -> Places]
    BY DEF Crash, WorkerTypeOK, Places
  <2> QED BY <2>2, <2>3 DEF Crash, WorkerTypeOK
<1> QED BY <1>3, <1>4, <1>5

LEMMA CrashDelivery ==
    ASSUME Durable, Crash
    PROVE  Durable'
<1> USE DEF Durable
<1>0. nextId \in 1..(MaxEntries + 1) /\ MaxEntries \in Nat /\ disk \in Store
      /\ disk.nextId \in 1..(MaxEntries + 1) /\ disk.last \in 0..MaxEntries
      /\ disk.stream \subseteq Ids /\ disk.outputs \in Seq(Output)
  BY ConfigAssumption DEF Delivery, TypeOK, StoreTypeOK, OnDisk, Store
<1>1. /\ stream' = disk.stream /\ group' = disk.group /\ last' = disk.last
      /\ pending' = disk.pending /\ outputs' = disk.outputs
      /\ UNCHANGED <<body, age, nextId>>
      /\ disk' = [disk EXCEPT !.nextId = nextId]
  BY DEF Crash, Restore, Load
<1>2. TypeOK'
  BY CrashType
<1>3. \A j \in DOMAIN disk.outputs : disk.outputs[j].id < nextId
  <2> TAKE j \in DOMAIN disk.outputs
  <2>1. disk.outputs[j] \in Output
    BY <1>0, SeqElement
  <2> QED BY <1>0, <2>1 DEF OnDisk, Delivered, Output, Ids
<1>4. StoreOnRecord'
  BY <1>0, <1>1, <1>3 DEF Delivery, StoreOnRecord, OnDisk, Delivered, Ids
<1>5. WorkOnRecord'
  <2>1. \A w \in Workers : wire'[w] \cup stale'[w] \subseteq wire[w]
    BY DEF Crash
  <2> QED BY <1>1, <2>1 DEF Delivery, WorkOnRecord
<1>6. NoOrphanedDelivery'
  BY <1>1 DEF NoOrphanedDelivery, OnDisk, Delivered
<1>7. OnDisk'
  <2>1. disk' \in Store
    BY <1>0, <1>1 DEF Store
  <2>2. /\ disk'.nextId = nextId /\ disk'.stream = disk.stream
        /\ disk'.last = disk.last /\ disk'.pending = disk.pending
        /\ disk'.group = disk.group /\ disk'.outputs = disk.outputs
    BY <1>0, <1>1 DEF Store
  <2>3. Delivered(disk')
    BY <1>0, <1>3, <2>2 DEF Delivered, OnDisk, Ids
  <2> QED BY <1>0, <1>1, <2>1, <2>2, <2>3 DEF OnDisk, Delivered
<1>8. History'
  BY <1>0, <1>1, DurabilityAssumption DEF Crash, History, Ids
<1> QED BY <1>2, <1>4, <1>5, <1>6, <1>7, <1>8 DEF Delivery

LEMMA DurableStep == Durable /\ [DurableNext]_allVars => Durable'
<1> SUFFICES ASSUME Durable, [DurableNext]_allVars PROVE Durable'
  OBVIOUS
<1> USE DEF Durable
<1>0. nextId \in Int /\ disk \in Store /\ disk.nextId \in Int /\ lag \in Nat
  BY ConfigAssumption, DurabilityAssumption
     DEF Delivery, TypeOK, StoreTypeOK, OnDisk, Store, History
<1>1. ASSUME [Next]_vars
      PROVE  Delivery' /\ nextId' \in Int /\ nextId' >= nextId
  BY <1>1, ConfigAssumption, DeliveryStep, RecordStep DEF Delivery, TypeOK, StoreTypeOK
<1>2. ASSUME [Next]_vars, lost' = lost
      PROVE  lost' \subseteq Ids /\ \A i \in lost' : i < nextId'
  BY <1>0, <1>1, <1>2 DEF History, Ids
<1>3. CASE UNCHANGED allVars \/ (Step /\ UNCHANGED diskVars)
  <2>1. [Next]_vars /\ disk' = disk /\ lag' = lag /\ lost' = lost
    BY <1>3, StepIsNext DEF allVars, diskVars
  <2>2. OnDisk'
    BY <1>0, <1>1, <2>1 DEF OnDisk, Delivered
  <2> QED BY <1>1, <1>2, <2>1, <2>2 DEF History
<1>4. CASE Second
  <2>1. [Next]_vars /\ disk' = Aged(disk) /\ lag' = lag + 1 /\ lag < SyncLag /\ lost' = lost
    BY <1>4, StepIsNext DEF Second
  <2>2. Delivered(Aged(disk)) /\ Aged(disk) \in Store /\ Aged(disk).nextId = disk.nextId
    BY DeliveredAged, AgedFields DEF OnDisk
  <2>3. OnDisk'
    <3>1. Delivered(disk')
      BY <2>1, <2>2
    <3> QED BY <1>0, <1>1, <2>1, <2>2, <3>1 DEF OnDisk, Delivered
  <2> QED BY <1>0, <1>1, <1>2, <2>1, <2>3, DurabilityAssumption DEF History
<1>5. CASE Sync
  <2>1. [Next]_vars /\ disk' = Saved /\ lag' = 0 /\ lost' = lost /\ UNCHANGED vars
    BY <1>5, StepIsNext DEF Sync
  <2>2. Delivered(Saved) /\ Saved \in Store /\ Saved.nextId = nextId
    BY DeliveredSaved, SavedStore DEF Delivery, Saved
  <2>3. OnDisk'
    <3>1. Delivered(disk') /\ nextId' = nextId
      BY <2>1, <2>2 DEF vars, storeVars, streamVars
    <3> QED BY <1>0, <2>1, <2>2, <3>1 DEF OnDisk, Delivered
  <2> QED BY <1>1, <1>2, <2>1, <2>3, DurabilityAssumption DEF History
<1>6. CASE Crash
  BY <1>6, CrashDelivery
<1> QED BY <1>3, <1>4, <1>5, <1>6 DEF DurableNext

LEMMA DurableInitial == DurableInit => Durable
<1> SUFFICES ASSUME DurableInit PROVE Durable
  OBVIOUS
<1>1. Delivery
  BY DeliveryInit DEF DurableInit
<1>2. Delivered(Saved) /\ Saved \in Store /\ Saved.nextId = nextId
  BY <1>1, DeliveredSaved, SavedStore DEF Delivery, Saved
<1>3. nextId \in Int
  BY <1>1, ConfigAssumption DEF Delivery, TypeOK, StoreTypeOK
<1> QED BY <1>1, <1>2, <1>3, DurabilityAssumption DEF DurableInit, Durable, OnDisk, History

LEMMA DurableHolds == DurableSpec => []Durable
BY DurableInitial, DurableStep, PTL DEF DurableSpec

(* Types are kept through crashes.                                         *)
THEOREM DurableTypeCorrect == DurableSpec => []DurableTypeOK
<1>1. Durable => DurableTypeOK
  BY DEF Durable, Delivery, History, DurableTypeOK
<1> QED BY <1>1, DurableHolds, PTL

(* No delivery is orphaned by a crash: the pending list that comes back    *)
(* has every entry of the stream that comes back up to the group's         *)
(* position, although workers and providers keep what they know.           *)
THEOREM NoOrphanedDeliverySurvives == DurableSpec => []NoOrphanedDelivery
<1>1. Durable => NoOrphanedDelivery
  BY DEF Durable, Delivery
<1> QED BY <1>1, DurableHolds, PTL

-----------------------------------------------------------------------------
(* Completion: what Marking says of the store, said of the disk.           *)
MarkedIn(d) ==
    \A j \in DOMAIN d.outputs :
        d.outputs[j].age < FinishTTL
            => d.done[Key(d.outputs[j].id)] = FinishTTL - d.outputs[j].age

DecidedIn(d) ==
    \A k \in Keys : d.done[k] > 0 =>
        \E j \in DOMAIN d.outputs :
            /\ Key(d.outputs[j].id) = k
            /\ d.outputs[j].age + d.done[k] = FinishTTL

OnceIn(d) ==
    \A j, k \in DOMAIN d.outputs :
        j < k /\ Key(d.outputs[j].id) = Key(d.outputs[k].id)
            => d.outputs[j].age = FinishTTL

MarksIn(d) == MarkedIn(d) /\ DecidedIn(d) /\ OnceIn(d)

LeftIn(d) ==
    \A i \in Ids \ lost : i < d.nextId /\ i \notin d.stream =>
        \E j \in DOMAIN d.outputs : Key(d.outputs[j].id) = Key(i)

Completing ==
    /\ Durable /\ Marking /\ MarksIn(disk)
    /\ LeftWithOutcome /\ LeftIn(disk)

(* The outputs in a store on record.                                       *)
LEMMA DiskOutput ==
    ASSUME Durable, NEW j \in DOMAIN disk.outputs
    PROVE  /\ disk.outputs[j].id \in Ids /\ disk.outputs[j].id < nextId
           /\ disk.outputs[j].age \in 0..FinishTTL
           /\ Key(disk.outputs[j].id) \in Keys
<1>1. disk.outputs \in Seq(Output) /\ disk.nextId \in Int /\ disk.nextId <= nextId
      /\ nextId \in Int
  BY ConfigAssumption DEF Durable, OnDisk, Store, Delivery, TypeOK, StoreTypeOK
<1>2. disk.outputs[j] \in Output
  BY <1>1, SeqElement
<1>3. disk.outputs[j].id \in Ids /\ disk.outputs[j].id < nextId
  BY <1>1, <1>2 DEF Durable, OnDisk, Delivered, Output, Ids
<1>4. body[disk.outputs[j].id] \in Message \cup {Poison}
  BY <1>3 DEF Durable, Delivery, StoreOnRecord
<1> QED BY <1>2, <1>3, <1>4 DEF Output, Key, Keys, Message

LEMMA MarksAged ==
    ASSUME Durable, MarksIn(disk)
    PROVE  MarksIn(Aged(disk))
<1> DEFINE a == Aged(disk)
<1>0. FinishTTL \in Nat \ {0} /\ disk \in Store /\ disk.done \in [Keys -> 0..FinishTTL]
  BY ConfigAssumption DEF Durable, OnDisk, Store
<1>1. /\ DOMAIN a.outputs = DOMAIN disk.outputs
      /\ \A k \in Keys : a.done[k] = Less(disk.done[k])
      /\ \A j \in DOMAIN disk.outputs :
            /\ a.outputs[j].id = disk.outputs[j].id
            /\ a.outputs[j].age = Older(disk.outputs[j].age, FinishTTL)
  BY <1>0, AgedFields
<1> HIDE DEF a
<1>2. MarkedIn(a)
  <2> SUFFICES ASSUME NEW j \in DOMAIN disk.outputs, a.outputs[j].age < FinishTTL
               PROVE  a.done[Key(disk.outputs[j].id)] = FinishTTL - a.outputs[j].age
    BY <1>1 DEF MarkedIn
  <2>1. disk.outputs[j].age \in 0..FinishTTL /\ Key(disk.outputs[j].id) \in Keys
    BY DiskOutput
  <2>2. disk.outputs[j].age < FinishTTL /\ a.outputs[j].age = disk.outputs[j].age + 1
    BY <1>0, <1>1, <2>1 DEF Older
  <2>3. disk.done[Key(disk.outputs[j].id)] = FinishTTL - disk.outputs[j].age
    BY <2>2 DEF MarksIn, MarkedIn
  <2> QED BY <1>0, <1>1, <2>1, <2>2, <2>3 DEF Less
<1>3. DecidedIn(a)
  <2> SUFFICES ASSUME NEW k \in Keys, a.done[k] > 0
               PROVE  \E j \in DOMAIN disk.outputs :
                         /\ Key(disk.outputs[j].id) = k
                         /\ a.outputs[j].age + a.done[k] = FinishTTL
    BY <1>1 DEF DecidedIn
  <2>1. disk.done[k] \in 1..FinishTTL /\ a.done[k] = disk.done[k] - 1
    BY <1>0, <1>1 DEF Less
  <2>2. PICK j \in DOMAIN disk.outputs :
           Key(disk.outputs[j].id) = k /\ disk.outputs[j].age + disk.done[k] = FinishTTL
    BY <2>1 DEF MarksIn, DecidedIn
  <2>3. disk.outputs[j].age \in 0..FinishTTL
    BY DiskOutput
  <2>4. a.outputs[j].age = disk.outputs[j].age + 1
    BY <1>0, <1>1, <2>1, <2>2, <2>3 DEF Older
  <2> QED BY <1>0, <2>1, <2>2, <2>3, <2>4
<1>4. OnceIn(a)
  <2> SUFFICES ASSUME NEW j \in DOMAIN disk.outputs, NEW k \in DOMAIN disk.outputs, j < k,
                      Key(disk.outputs[j].id) = Key(disk.outputs[k].id)
               PROVE  a.outputs[j].age = FinishTTL
    BY <1>1 DEF OnceIn
  <2>1. disk.outputs[j].age = FinishTTL
    BY DEF MarksIn, OnceIn
  <2> QED BY <1>0, <1>1, <2>1 DEF Older
<1> QED BY <1>2, <1>3, <1>4 DEF MarksIn, a

LEMMA MarksSaved ==
    ASSUME Marking
    PROVE  MarksIn(Saved)
BY DEF Marking, CompletionMarked, MarkersDecided, OneDecisionPerWindow,
       MarksIn, MarkedIn, DecidedIn, OnceIn, Saved

(* What is said of a store stays true while its entries keep their bodies  *)
(* and no more of them are lost.                                           *)
LEMMA DiskCarried ==
    ASSUME NEW d \in Store, Delivered(d), disk' = d, lost' = lost,
           \A i \in Ids : i < d.nextId => body'[i] = body[i]
    PROVE  (MarksIn(d) => MarksIn(disk)') /\ (LeftIn(d) => LeftIn(disk)')
<1>1. \A j \in DOMAIN d.outputs : d.outputs[j].id \in Ids /\ d.outputs[j].id < d.nextId
  <2> TAKE j \in DOMAIN d.outputs
  <2>1. d.outputs[j] \in Output
    BY SeqElement DEF Store
  <2> QED BY <2>1 DEF Output, Delivered
<1>2. \A j \in DOMAIN d.outputs : body'[d.outputs[j].id] = body[d.outputs[j].id]
  BY <1>1
<1>3. ASSUME MarksIn(d) PROVE MarksIn(disk)'
  BY <1>2, <1>3 DEF MarksIn, MarkedIn, DecidedIn, OnceIn, Key
<1>4. ASSUME LeftIn(d) PROVE LeftIn(disk)'
  <2> SUFFICES ASSUME NEW i \in Ids, i \notin lost, i < d.nextId, i \notin d.stream
               PROVE  \E j \in DOMAIN d.outputs : Key(d.outputs[j].id)' = Key(i)'
    BY DEF LeftIn
  <2>1. PICK j \in DOMAIN d.outputs : Key(d.outputs[j].id) = Key(i)
    BY <1>4 DEF LeftIn
  <2> QED BY <1>2, <2>1 DEF Key
<1> QED BY <1>3, <1>4

LEMMA LeftAged ==
    ASSUME Durable, LeftIn(disk)
    PROVE  LeftIn(Aged(disk))
<1>1. /\ DOMAIN Aged(disk).outputs = DOMAIN disk.outputs
      /\ Aged(disk).stream = disk.stream /\ Aged(disk).nextId = disk.nextId
      /\ \A j \in DOMAIN disk.outputs : Aged(disk).outputs[j].id = disk.outputs[j].id
  BY AgedFields DEF Durable, OnDisk
<1> QED BY <1>1 DEF LeftIn

LEMMA LeftSaved ==
    ASSUME LeftWithOutcome
    PROVE  LeftIn(Saved)
BY DEF LeftWithOutcome, LeftIn, Saved

(* The disk, as time passes or the file is synced.                         *)
LEMMA DiskCompleting ==
    ASSUME Completing, Durable',
           (Step /\ UNCHANGED diskVars) \/ Second \/ Sync \/ UNCHANGED allVars
    PROVE  MarksIn(disk)' /\ LeftIn(disk)'
<1> USE DEF Completing
<1>0. /\ disk \in Store /\ Delivered(disk) /\ disk.nextId <= nextId
      /\ disk.nextId \in Int /\ nextId \in Int
  BY DurableFacts
<1>1. \A i \in Ids : i < nextId => body'[i] = body[i]
  BY StepIsNext, RecordStep DEF Durable
<1>2. ASSUME NEW d \in Store, Delivered(d), d.nextId <= nextId, disk' = d, lost' = lost,
             MarksIn(d), LeftIn(d)
      PROVE  MarksIn(disk)' /\ LeftIn(disk)'
  <2>1. \A i \in Ids : i < d.nextId => body'[i] = body[i]
    BY <1>0, <1>1, <1>2 DEF Ids, Store
  <2> QED BY <1>2, <2>1, DiskCarried
<1>3. CASE (Step /\ UNCHANGED diskVars) \/ UNCHANGED allVars
  BY <1>0, <1>2, <1>3 DEF allVars, diskVars
<1>4. CASE Second
  <2>1. Aged(disk) \in Store /\ Aged(disk).nextId = disk.nextId /\ Delivered(Aged(disk))
    BY <1>0, AgedFields, DeliveredAged
  <2> QED BY <1>0, <1>2, <1>4, <2>1, MarksAged, LeftAged DEF Second
<1>5. CASE Sync
  <2>1. Saved \in Store /\ Saved.nextId = nextId /\ Delivered(Saved)
    BY DeliveredSaved, SavedStore DEF Durable, Delivery, Saved
  <2> QED BY <1>0, <1>2, <1>5, <2>1, MarksSaved, LeftSaved DEF Sync
<1> QED BY <1>3, <1>4, <1>5

(* A crash: the store is the disk's, and more entries are lost.            *)
LEMMA CrashCompleting ==
    ASSUME Completing, Durable', Crash
    PROVE  Completing'
<1> USE DEF Completing
<1>0. disk \in Store /\ disk.nextId \in Int /\ nextId \in Int /\ disk.nextId <= nextId
  BY DurableFacts
<1>1. /\ stream' = disk.stream /\ done' = disk.done /\ outputs' = disk.outputs
      /\ body' = body /\ nextId' = nextId
      /\ disk' = [disk EXCEPT !.nextId = nextId]
      /\ lost' = lost \cup {i \in Ids : disk.nextId <= i /\ i < nextId}
  BY DEF Crash, Restore, Load
<1>2. /\ disk'.nextId = nextId /\ disk'.stream = disk.stream
      /\ disk'.done = disk.done /\ disk'.outputs = disk.outputs
  BY <1>0, <1>1 DEF Store
<1>3. Delivery'
  BY DEF Durable
<1>4. CompletionMarked' /\ MarkersDecided' /\ OneDecisionPerWindow'
  BY <1>1 DEF MarksIn, MarkedIn, DecidedIn, OnceIn, Key,
              CompletionMarked, MarkersDecided, OneDecisionPerWindow
<1>5. MarksIn(disk)'
  BY <1>1, <1>2 DEF MarksIn, MarkedIn, DecidedIn, OnceIn, Key
<1>6. \A i \in Ids \ lost' : i < nextId => i \notin lost /\ i < disk.nextId
  BY <1>0, <1>1 DEF Ids
<1>7. LeftWithOutcome' /\ LeftIn(disk)'
  <2>1. ASSUME NEW i \in Ids \ lost', i < nextId, i \notin disk.stream
        PROVE  \E j \in DOMAIN disk.outputs : Key(disk.outputs[j].id) = Key(i)
    BY <1>6, <2>1 DEF LeftIn
  <2>2. LeftWithOutcome'
    BY <1>1, <2>1 DEF LeftWithOutcome, Key
  <2>3. LeftIn(disk)'
    BY <1>1, <1>2, <2>1 DEF LeftIn, Key
  <2> QED BY <2>2, <2>3
<1> QED BY <1>3, <1>4, <1>5, <1>7 DEF Marking

LEMMA CompletingStep == Completing /\ [DurableNext]_allVars => Completing'
<1> SUFFICES ASSUME Completing, [DurableNext]_allVars PROVE Completing'
  OBVIOUS
<1> USE DEF Completing
<1>1. Durable'
  BY DurableStep
<1>2. CASE Crash
  BY <1>1, <1>2, CrashCompleting
<1>3. CASE (Step /\ UNCHANGED diskVars) \/ Second \/ Sync \/ UNCHANGED allVars
  <2>1. [Next]_vars
    BY <1>3, StepIsNext
  <2>2. Marking'
    BY <2>1, MarkingStep
  <2>3. lost' = lost
    BY <1>3 DEF diskVars, Second, Sync, allVars
  <2>4. LeftWithOutcome'
    <3>1. ASSUME NEW i \in Ids, i < nextId', i \notin stream', i \notin lost
          PROVE  HasOutcome(i)'
      BY <2>1, <3>1, OutcomeStep DEF LeftWithOutcome, HasOutcome
    <3> QED BY <2>3, <3>1 DEF LeftWithOutcome, HasOutcome
  <2> QED BY <1>1, <1>3, <2>2, <2>4, DiskCompleting
<1> QED BY <1>2, <1>3 DEF DurableNext

LEMMA CompletingInit == DurableInit => Completing
<1> SUFFICES ASSUME DurableInit PROVE Completing
  OBVIOUS
<1>1. Completion
  BY CompletionInit DEF DurableInit
<1>2. LeftWithOutcome
  BY <1>1 DEF Completion, SettledHasOutcome, LeftWithOutcome
<1>3. disk = Saved
  BY DEF DurableInit
<1> QED BY <1>1, <1>2, <1>3, DurableInitial, MarksSaved, LeftSaved DEF Completion, Completing

LEMMA CompletingHolds == DurableSpec => []Completing
BY CompletingInit, CompletingStep, PTL DEF DurableSpec

(* One decision per window, in the streams that come back: a crash takes   *)
(* a marker and its decision back together, so the entry it brings back is *)
(* decided again and no key has two young decisions.                       *)
THEOREM OneDecisionPerWindowSurvives == DurableSpec => []OneDecisionPerWindow
<1>1. Completing => OneDecisionPerWindow
  BY DEF Completing, Marking
<1> QED BY <1>1, CompletingHolds, PTL

(* What left the stream and was not taken back has an outcome.             *)
THEOREM LeftWithOutcomeHolds == DurableSpec => []LeftWithOutcome
<1>1. Completing => LeftWithOutcome
  BY DEF Completing
<1> QED BY <1>1, CompletingHolds, PTL

-----------------------------------------------------------------------------
(* Idempotency markers, in memory and on disk.                             *)
TimedIn(d) == \A e \in Events : d.mark[e] = None <=> d.markLeft[e] = 0

BackedIn(d) ==
    \A e \in Events : d.mark[e] # None =>
        \E i \in Ids \ lost :
            /\ i < d.nextId
            /\ body[i] = [event |-> e, data |-> d.mark[e]]
            /\ age[i] + d.markLeft[e] = AdmitTTL

Backing ==
    /\ Durable
    /\ MarkerHasTime /\ MarkerSurvivesWithEntry
    /\ TimedIn(disk) /\ BackedIn(disk)

LEMMA OlderAndLess ==
    ASSUME NEW a \in 0..AdmitTTL, NEW m \in 0..AdmitTTL, a + m = AdmitTTL, ~(m <= 1)
    PROVE  Older(a, AdmitTTL) + Less(m) = AdmitTTL
BY ConfigAssumption DEF Older, Less

(* The markers in memory, but for a crash.                                 *)
LEMMA MarkersStep ==
    ASSUME Backing, [Next]_vars, lost' = lost
    PROVE  MarkerHasTime' /\ MarkerSurvivesWithEntry'
<1> USE DEF Backing, Durable
<1>0. /\ nextId \in Int /\ mark \in [Events -> Data \cup {None}]
      /\ markLeft \in [Events -> 0..AdmitTTL] /\ age \in [Ids -> 0..AdmitTTL]
      /\ AdmitTTL \in Nat \ {0} /\ None \notin Data
  BY ConfigAssumption, NamesAssumption DEF Delivery, TypeOK, StoreTypeOK
<1>1. ASSUME NEW e \in Events, mark[e] # None
      PROVE  \E i \in Admitted \ lost :
                /\ i \in Admitted' /\ body'[i] = [event |-> e, data |-> mark[e]]
                /\ i \in Ids /\ i < nextId /\ age[i] + markLeft[e] = AdmitTTL
  <2>1. PICK i \in Admitted \ lost :
           body[i] = [event |-> e, data |-> mark[e]] /\ age[i] + markLeft[e] = AdmitTTL
    BY <1>1 DEF MarkerSurvivesWithEntry
  <2> QED BY <2>1, AdmittedStays DEF Admitted
<1>2. CASE UNCHANGED <<age, markVars>>
  BY <1>1, <1>2 DEF markVars, MarkerHasTime, MarkerSurvivesWithEntry
<1>3. CASE Elapse
  <2>1. MarkerHasTime'
    BY <1>0, <1>3 DEF Elapse, Less, MarkerHasTime
  <2>2. ASSUME NEW e \in Events, mark'[e] # None
        PROVE  \E i \in Admitted' \ lost' :
                  /\ body'[i] = [event |-> e, data |-> mark'[e]]
                  /\ age'[i] + markLeft'[e] = AdmitTTL
    <3>1. ~(markLeft[e] <= 1) /\ mark'[e] = mark[e] /\ markLeft'[e] = Less(markLeft[e])
      BY <1>3, <2>2 DEF Elapse
    <3>2. PICK i \in Admitted \ lost :
             /\ i \in Admitted' /\ body'[i] = [event |-> e, data |-> mark[e]]
             /\ i \in Ids /\ i < nextId /\ age[i] + markLeft[e] = AdmitTTL
      BY <1>1, <2>2, <3>1
    <3>3. age'[i] = Older(age[i], AdmitTTL)
      BY <1>3, <3>2 DEF Elapse
    <3>4. age[i] \in 0..AdmitTTL /\ markLeft[e] \in 0..AdmitTTL
      BY <1>0, <3>2
    <3>5. age'[i] + markLeft'[e] = AdmitTTL
      BY <3>1, <3>2, <3>3, <3>4, OlderAndLess
    <3> QED BY <3>1, <3>2, <3>5
  <2> QED BY <2>1, <2>2 DEF MarkerSurvivesWithEntry
<1>4. ASSUME NEW r \in Requests, AdmitNew(r)
      PROVE  MarkerHasTime' /\ MarkerSurvivesWithEntry'
  <2>1. msg[r] \in Message
    BY <1>4 DEF AdmitNew, Sent, Delivery, TypeOK, GatewayTypeOK
  <2> DEFINE f == msg[r].event
  <2>2. f \in Events /\ msg[r].data \in Data /\ msg[r] = [event |-> f, data |-> msg[r].data]
    BY <2>1 DEF Message
  <2>3. /\ mark' = [mark EXCEPT ![f] = msg[r].data]
        /\ markLeft' = [markLeft EXCEPT ![f] = AdmitTTL]
        /\ age' = age /\ nextId' = nextId + 1 /\ nextId \in Ids
        /\ body' = [body EXCEPT ![nextId] = msg[r]]
    BY <1>0, <1>4, ConfigAssumption DEF AdmitNew, XAdd, Ids, Delivery, TypeOK, StoreTypeOK
  <2> HIDE DEF f
  <2>4. MarkerHasTime'
    BY <1>0, <2>2, <2>3 DEF MarkerHasTime
  <2>5. ASSUME NEW e \in Events, mark'[e] # None
        PROVE  \E i \in Admitted' \ lost' :
                  /\ body'[i] = [event |-> e, data |-> mark'[e]]
                  /\ age'[i] + markLeft'[e] = AdmitTTL
    <3>1. CASE e = f
      <4>1. nextId \in Admitted' /\ body'[nextId] = msg[r]
        <5>1. body'[nextId] = msg[r]
          BY <2>3 DEF Delivery, TypeOK, StoreTypeOK
        <5>2. nextId < nextId'
          BY <1>0, <2>3
        <5> QED BY <2>1, <2>3, <5>1, <5>2, NamesAssumption DEF Admitted
      <4>2. nextId \notin lost /\ age[nextId] = 0
        BY <1>0, <2>3 DEF History, Delivery, StoreOnRecord
      <4>3. mark'[e] = msg[r].data /\ markLeft'[e] = AdmitTTL
        BY <1>0, <2>2, <2>3, <3>1
      <4>4. age'[nextId] + markLeft'[e] = AdmitTTL
        BY <1>0, <2>3, <4>2, <4>3
      <4> QED BY <2>2, <3>1, <4>1, <4>2, <4>3, <4>4
    <3>2. CASE e # f
      <4>1. mark'[e] = mark[e] /\ markLeft'[e] = markLeft[e]
        BY <1>0, <2>3, <3>2
      <4> QED BY <1>1, <2>3, <2>5, <4>1
    <3> QED BY <3>1, <3>2
  <2> QED BY <2>4, <2>5 DEF MarkerSurvivesWithEntry
<1>5. ASSUME NEW r \in Requests, AdmitAppendFails(r)
      PROVE  MarkerHasTime' /\ MarkerSurvivesWithEntry'
  <2>1. /\ mark' = [mark EXCEPT ![msg[r].event] = None]
        /\ markLeft' = [markLeft EXCEPT ![msg[r].event] = 0]
        /\ age' = age
    BY <1>5 DEF AdmitAppendFails, streamVars
  <2>2. MarkerHasTime'
    BY <1>0, <2>1 DEF MarkerHasTime
  <2>3. ASSUME NEW e \in Events, mark'[e] # None
        PROVE  mark'[e] = mark[e] /\ markLeft'[e] = markLeft[e]
    BY <1>0, <2>1, <2>3
  <2> QED BY <1>1, <2>1, <2>2, <2>3 DEF MarkerSurvivesWithEntry
<1>6. CASE UNCHANGED storeVars \/ Inject \/ Settling \/ Grouping \/ Delivering
  <2>1. Settling => UNCHANGED <<age, markVars>>
    BY SettlingEffect DEF Settling, markVars
  <2> QED BY <1>2, <1>6, <2>1
          DEF storeVars, streamVars, Inject, XAdd, Grouping, Delivering
<1> QED BY <1>3, <1>4, <1>5, <1>6, StepKinds DEF Delivery

(* Between seconds nothing ages: at most one entry is appended, or one     *)
(* output.                                                                 *)
LEMMA StepEffect ==
    ASSUME Durable, Step
    PROVE  /\ age' = age /\ nextId' \in {nextId, nextId + 1}
           /\ stream' \subseteq stream \cup {nextId}
           /\ \/ outputs' = outputs
              \/ \E i \in Ids : outputs' = Append(outputs, [id |-> i, age |-> 0])
<1>0. TypeOK /\ WorkOnRecord
  BY DEF Durable, Delivery
<1>1. ASSUME NEW r \in Requests, AdmitNew(r) \/ AdmitAppendFails(r)
      PROVE  /\ age' = age /\ nextId' \in {nextId, nextId + 1}
             /\ stream' \subseteq stream \cup {nextId} /\ outputs' = outputs
  BY <1>1 DEF AdmitNew, AdmitAppendFails, XAdd, streamVars
<1>2. CASE UNCHANGED storeVars \/ Grouping \/ Delivering
  BY <1>2 DEF storeVars, streamVars, Grouping, Delivering
<1>3. CASE Inject
  BY <1>3 DEF Inject, XAdd
<1>4. CASE Settling
  <2> PICK i \in Ids : FinishSettles(i) \/ FinishFails(i)
    BY <1>4 DEF Settling
  <2> QED BY SettlingEffect
<1> QED BY <1>0, <1>1, <1>2, <1>3, <1>4, TimelessKinds DEF Step

(* The markers on disk.                                                    *)
LEMMA DiskMarkers ==
    ASSUME Backing, (Step /\ UNCHANGED diskVars) \/ Second \/ Sync \/ UNCHANGED allVars
    PROVE  TimedIn(disk)' /\ BackedIn(disk)'
<1> USE DEF Backing, Durable
<1>0. /\ disk \in Store /\ disk.nextId \in Int /\ nextId \in Int /\ disk.nextId <= nextId
      /\ disk.mark \in [Events -> Data \cup {None}]
      /\ disk.markLeft \in [Events -> 0..AdmitTTL]
      /\ age \in [Ids -> 0..AdmitTTL] /\ AdmitTTL \in Nat \ {0}
  BY ConfigAssumption DEF OnDisk, Store, Delivery, TypeOK, StoreTypeOK
<1>1. \A i \in Ids : i < nextId => body'[i] = body[i]
  BY StepIsNext, RecordStep
<1>2. \A i \in Ids : i < disk.nextId => i < nextId
  BY <1>0 DEF Ids
<1>3. CASE (Step /\ UNCHANGED diskVars) \/ UNCHANGED allVars
  <2>1. disk' = disk /\ lost' = lost
    BY <1>3 DEF diskVars, allVars
  <2>2. age' = age
    <3>1. CASE UNCHANGED allVars
      BY <3>1 DEF allVars, vars, storeVars, streamVars
    <3>2. CASE Step
      BY <3>2, StepEffect
    <3> QED BY <1>3, <3>1, <3>2
  <2> QED BY <1>1, <1>2, <2>1, <2>2 DEF TimedIn, BackedIn
<1>4. CASE Second
  <2> DEFINE a == Aged(disk)
  <2>1. Elapse /\ disk' = a /\ lost' = lost
    BY <1>4 DEF Second, Tick
  <2>2. /\ a.nextId = disk.nextId
        /\ \A e \in Events :
              /\ a.mark[e] = IF disk.markLeft[e] <= 1 THEN None ELSE disk.mark[e]
              /\ a.markLeft[e] = Less(disk.markLeft[e])
    BY <1>0, AgedFields
  <2> HIDE DEF a
  <2>3. \A e \in Events : a.mark[e] = None <=> a.markLeft[e] = 0
    BY <1>0, <2>2 DEF TimedIn, Less
  <2>4. ASSUME NEW e \in Events, a.mark[e] # None
        PROVE  \E i \in Ids \ lost :
                  /\ i < a.nextId
                  /\ body'[i] = [event |-> e, data |-> a.mark[e]]
                  /\ age'[i] + a.markLeft[e] = AdmitTTL
    <3>1. /\ ~(disk.markLeft[e] <= 1) /\ a.mark[e] = disk.mark[e]
          /\ a.markLeft[e] = Less(disk.markLeft[e])
      BY <2>2, <2>4
    <3>2. PICK i \in Ids \ lost :
             /\ i < disk.nextId /\ body[i] = [event |-> e, data |-> disk.mark[e]]
             /\ age[i] + disk.markLeft[e] = AdmitTTL
      BY <2>4, <3>1 DEF BackedIn
    <3>3. age'[i] = Older(age[i], AdmitTTL) /\ body'[i] = body[i]
      BY <1>1, <1>2, <2>1, <3>2 DEF Elapse
    <3>4. age[i] \in 0..AdmitTTL /\ disk.markLeft[e] \in 0..AdmitTTL
      BY <1>0
    <3>5. age'[i] + a.markLeft[e] = AdmitTTL
      BY <3>1, <3>2, <3>3, <3>4, OlderAndLess
    <3> QED BY <2>2, <3>1, <3>2, <3>3, <3>5
  <2> QED BY <2>1, <2>3, <2>4 DEF TimedIn, BackedIn
<1>5. CASE Sync
  <2>1. /\ disk' = Saved /\ lost' = lost /\ body' = body /\ age' = age
    BY <1>5 DEF Sync, vars, storeVars, streamVars
  <2>2. Saved.mark = mark /\ Saved.markLeft = markLeft /\ Saved.nextId = nextId
    BY DEF Saved
  <2> QED BY <2>1, <2>2
          DEF TimedIn, BackedIn, MarkerHasTime, MarkerSurvivesWithEntry, Admitted
<1> QED BY <1>3, <1>4, <1>5

LEMMA CrashMarkers ==
    ASSUME Backing, Crash
    PROVE  /\ MarkerHasTime' /\ MarkerSurvivesWithEntry'
           /\ TimedIn(disk)' /\ BackedIn(disk)'
<1> USE DEF Backing, Durable
<1>0. disk \in Store /\ disk.nextId \in Int /\ nextId \in Int /\ disk.nextId <= nextId
  BY ConfigAssumption DEF OnDisk, Store, Delivery, TypeOK, StoreTypeOK
<1>1. /\ mark' = disk.mark /\ markLeft' = disk.markLeft
      /\ body' = body /\ age' = age /\ nextId' = nextId
      /\ disk' = [disk EXCEPT !.nextId = nextId]
      /\ lost' = lost \cup {i \in Ids : disk.nextId <= i /\ i < nextId}
  BY DEF Crash, Restore, Load
<1>2. disk'.nextId = nextId /\ disk'.mark = disk.mark /\ disk'.markLeft = disk.markLeft
  BY <1>0, <1>1 DEF Store
<1>3. ASSUME NEW e \in Events, disk.mark[e] # None
      PROVE  \E i \in Ids \ lost' :
                /\ i < nextId /\ i \in Admitted
                /\ body[i] = [event |-> e, data |-> disk.mark[e]]
                /\ age[i] + disk.markLeft[e] = AdmitTTL
  <2>1. PICK i \in Ids \ lost :
           /\ i < disk.nextId /\ body[i] = [event |-> e, data |-> disk.mark[e]]
           /\ age[i] + disk.markLeft[e] = AdmitTTL
    BY <1>3 DEF BackedIn
  <2>2. i \notin lost' /\ i < nextId
    BY <1>0, <1>1, <2>1 DEF Ids
  <2>3. disk.mark[e] \in Data
    BY <1>0, <1>3 DEF Store
  <2>4. body[i] \in Message
    BY <2>1, <2>3 DEF Message
  <2> QED BY <2>1, <2>2, <2>4, NamesAssumption DEF Admitted
<1>4. MarkerHasTime' /\ TimedIn(disk)'
  BY <1>1, <1>2 DEF MarkerHasTime, TimedIn
<1>5. Admitted' = Admitted
  BY <1>1 DEF Admitted
<1> QED BY <1>1, <1>2, <1>3, <1>4, <1>5 DEF MarkerSurvivesWithEntry, BackedIn

LEMMA BackingStep == Backing /\ [DurableNext]_allVars => Backing'
<1> SUFFICES ASSUME Backing, [DurableNext]_allVars PROVE Backing'
  OBVIOUS
<1>1. Durable'
  BY DurableStep DEF Backing
<1>2. CASE Crash
  BY <1>1, <1>2, CrashMarkers DEF Backing
<1>3. CASE (Step /\ UNCHANGED diskVars) \/ Second \/ Sync \/ UNCHANGED allVars
  <2>1. [Next]_vars /\ lost' = lost
    BY <1>3, StepIsNext DEF diskVars, Second, Sync, allVars
  <2> QED BY <1>1, <1>3, <2>1, MarkersStep, DiskMarkers DEF Backing
<1> QED BY <1>2, <1>3 DEF DurableNext

LEMMA BackingInit == DurableInit => Backing
<1> SUFFICES ASSUME DurableInit PROVE Backing
  OBVIOUS
<1>1. disk = Saved /\ \A e \in Events : mark[e] = None /\ markLeft[e] = 0
  BY DEF DurableInit, Init, StoreInit
<1>2. disk.mark = mark /\ disk.markLeft = markLeft
  BY <1>1 DEF Saved
<1> QED BY <1>1, <1>2, DurableInitial
        DEF Backing, MarkerHasTime, MarkerSurvivesWithEntry, TimedIn, BackedIn

(* "Already accepted" never vouches for a lost event: a live idempotency   *)
(* marker stands for an entry no crash took back, with the same data, and  *)
(* expires with its retention.                                             *)
THEOREM MarkerSurvivesWithEntryHolds == DurableSpec => []MarkerSurvivesWithEntry
<1>1. Backing => MarkerSurvivesWithEntry
  BY DEF Backing
<1> QED BY <1>1, BackingInit, BackingStep, PTL DEF DurableSpec
-----------------------------------------------------------------------------
(* The ledger that forgets.  What FreshIsMarked says of the store, said of *)
(* the entries that are kept, in memory and on disk.                       *)
KeptIsMarked ==
    \A i \in Admitted \ lost : age[i] < AdmitTTL =>
        /\ mark[body[i].event] = body[i].data
        /\ markLeft[body[i].event] = AdmitTTL - age[i]

KeptIn(d) ==
    \A i \in Admitted \ lost : i < d.nextId /\ age[i] < AdmitTTL =>
        /\ d.mark[body[i].event] = body[i].data
        /\ d.markLeft[body[i].event] = AdmitTTL - age[i]

Keeping == Backing /\ KeptIsMarked /\ KeptIn(disk)

(* The disk is behind the store by no more than its lag: what the store has*)
(* and the disk has not is that young.                                     *)
EntriesFollow == \A i \in Ids : disk.nextId <= i /\ i < nextId => age[i] <= lag

OutputsFollow ==
    /\ Len(disk.outputs) <= Len(outputs)
    /\ \A j \in DOMAIN disk.outputs : outputs[j] = disk.outputs[j]
    /\ \A j \in DOMAIN outputs : j > Len(disk.outputs) => outputs[j].age <= lag

StreamFollows == \A i \in stream : i < disk.nextId => i \in disk.stream

LostIsGone == \A i \in lost : i \notin stream /\ i \notin disk.stream

Behind == Durable /\ EntriesFollow /\ OutputsFollow /\ StreamFollows /\ LostIsGone

(* The markers of kept entries, but for a crash.                           *)
LEMMA KeptStep ==
    ASSUME Keeping, [Next]_vars, lost' = lost
    PROVE  KeptIsMarked'
<1> USE DEF Keeping, Backing, Durable
<1>0. /\ nextId \in Int /\ mark \in [Events -> Data \cup {None}]
      /\ markLeft \in [Events -> 0..AdmitTTL] /\ age \in [Ids -> 0..AdmitTTL]
      /\ body \in [Ids -> Message \cup {Poison, None}]
      /\ AdmitTTL \in Nat \ {0} /\ None \notin Data
  BY ConfigAssumption, NamesAssumption DEF Delivery, TypeOK, StoreTypeOK
<1>1. CASE UNCHANGED <<body, age, nextId, mark, markLeft>>
  <2>1. Admitted' = Admitted
    BY <1>1 DEF Admitted
  <2> QED BY <1>1, <2>1 DEF KeptIsMarked
<1>2. CASE Elapse
  <2>1. Admitted' = Admitted /\ body' = body
    BY <1>2 DEF Elapse, Admitted
  <2> SUFFICES ASSUME NEW i \in Admitted \ lost, age'[i] < AdmitTTL
               PROVE  /\ mark'[body[i].event] = body[i].data
                      /\ markLeft'[body[i].event] = AdmitTTL - age'[i]
    BY <2>1 DEF KeptIsMarked
  <2> DEFINE e == body[i].event
  <2>2. e \in Events /\ i \in Ids /\ i < nextId /\ age[i] \in 0..AdmitTTL
    BY AdmittedIsMessage
  <2>3. age'[i] = Older(age[i], AdmitTTL)
    BY <1>2, <2>2 DEF Elapse
  <2>4. age[i] < AdmitTTL /\ age'[i] = age[i] + 1
    BY <1>0, <2>2, <2>3 DEF Older
  <2>5. mark[e] = body[i].data /\ markLeft[e] = AdmitTTL - age[i]
    BY <2>4 DEF KeptIsMarked
  <2>6. /\ mark'[e] = IF markLeft[e] <= 1 THEN None ELSE mark[e]
        /\ markLeft'[e] = Less(markLeft[e])
    BY <1>2, <2>2 DEF Elapse
  <2> QED BY <1>0, <2>2, <2>4, <2>5, <2>6 DEF Less
<1>3. CASE Inject
  <2>1. /\ nextId \in Ids /\ nextId' = nextId + 1 /\ age' = age
        /\ body' = [body EXCEPT ![nextId] = Poison] /\ mark' = mark /\ markLeft' = markLeft
    BY <1>3, ConfigAssumption
       DEF Inject, XAdd, markVars, Ids, Delivery, TypeOK, StoreTypeOK
  <2>2. \A i \in Admitted' : i \in Admitted /\ body'[i] = body[i]
    BY <1>0, <2>1 DEF Admitted, Ids
  <2> QED BY <2>1, <2>2 DEF KeptIsMarked
<1>4. ASSUME NEW r \in Requests, AdmitNew(r)
      PROVE  KeptIsMarked'
  <2> DEFINE f == msg[r].event
  <2>1. msg[r] \in Message /\ f \in Events /\ msg[r].data \in Data
    BY <1>4 DEF AdmitNew, Sent, Delivery, TypeOK, GatewayTypeOK, Message
  <2>2. /\ mark' = [mark EXCEPT ![f] = msg[r].data]
        /\ markLeft' = [markLeft EXCEPT ![f] = AdmitTTL]
        /\ age' = age /\ nextId' = nextId + 1 /\ nextId \in Ids
        /\ body' = [body EXCEPT ![nextId] = msg[r]]
    BY <1>0, <1>4, ConfigAssumption DEF AdmitNew, XAdd, Ids, Delivery, TypeOK, StoreTypeOK
  <2>3. mark[f] = None
    BY <1>4 DEF AdmitNew, Prior
  <2>4. body'[nextId] = msg[r] /\ age[nextId] = 0
    BY <1>0, <2>2 DEF Delivery, StoreOnRecord
  <2>5. \A i \in Admitted' : i = nextId \/ (i \in Admitted /\ body'[i] = body[i])
    BY <1>0, <2>2 DEF Admitted, Ids
  <2>6. mark'[f] = msg[r].data /\ markLeft'[f] = AdmitTTL
    BY <1>0, <2>1, <2>2
  <2> SUFFICES ASSUME NEW i \in Admitted', i \notin lost, age'[i] < AdmitTTL
               PROVE  /\ mark'[body'[i].event] = body'[i].data
                      /\ markLeft'[body'[i].event] = AdmitTTL - age'[i]
    BY DEF KeptIsMarked
  <2>7. CASE i = nextId
    <3>1. body'[i].event = f /\ body'[i].data = msg[r].data /\ age'[i] = 0
      BY <2>2, <2>4, <2>7
    <3> QED BY <1>0, <2>6, <3>1
  <2>8. CASE i \in Admitted /\ body'[i] = body[i]
    <3> DEFINE e == body[i].event
    <3>1. mark[e] = body[i].data /\ markLeft[e] = AdmitTTL - age[i]
      BY <2>2, <2>8 DEF KeptIsMarked
    <3>2. e \in Events /\ body[i].data \in Data
      BY <2>8, AdmittedIsMessage
    <3>3. e # f
      BY <1>0, <2>3, <3>1, <3>2
    <3>4. mark'[e] = mark[e] /\ markLeft'[e] = markLeft[e]
      BY <1>0, <2>2, <3>2, <3>3
    <3> QED BY <2>2, <2>8, <3>1, <3>4
  <2> QED BY <2>5, <2>7, <2>8
<1>5. ASSUME NEW r \in Requests, AdmitAppendFails(r)
      PROVE  UNCHANGED <<body, age, nextId, mark, markLeft>>
  <2>1. msg[r].event \in Events
    BY <1>5 DEF AdmitAppendFails, Sent, Delivery, TypeOK, GatewayTypeOK, Message
  <2>2. mark[msg[r].event] = None /\ markLeft[msg[r].event] = 0
    BY <1>5, <2>1 DEF AdmitAppendFails, Prior, MarkerHasTime
  <2>3. mark' = mark /\ markLeft' = markLeft
    BY <1>0, <1>5, <2>2 DEF AdmitAppendFails
  <2> QED BY <1>5, <2>3 DEF AdmitAppendFails, streamVars
<1>6. CASE UNCHANGED storeVars \/ Settling \/ Grouping \/ Delivering
  <2>1. Settling => UNCHANGED <<body, age, nextId, markVars>>
    BY SettlingEffect DEF Settling, markVars
  <2> QED BY <1>1, <1>6, <2>1 DEF storeVars, streamVars, markVars, Grouping, Delivering
<1> QED BY <1>1, <1>2, <1>3, <1>4, <1>5, <1>6, StepKinds DEF Delivery
(* The markers of kept entries on disk.                                    *)
LEMMA KeptDisk ==
    ASSUME Keeping, (Step /\ UNCHANGED diskVars) \/ Second \/ Sync \/ UNCHANGED allVars
    PROVE  KeptIn(disk)'
<1> USE DEF Keeping, Backing, Durable
<1>0. /\ disk \in Store /\ disk.nextId \in Int /\ nextId \in Int /\ disk.nextId <= nextId
      /\ disk.mark \in [Events -> Data \cup {None}]
      /\ disk.markLeft \in [Events -> 0..AdmitTTL]
      /\ age \in [Ids -> 0..AdmitTTL] /\ AdmitTTL \in Nat \ {0}
  BY ConfigAssumption DEF OnDisk, Store, Delivery, TypeOK, StoreTypeOK
<1>1. \A i \in Ids : i < disk.nextId =>
         body'[i] = body[i] /\ (i \in Admitted' => i \in Admitted)
  <2>1. \A i \in Ids : i < nextId => body'[i] = body[i]
    BY StepIsNext, RecordStep
  <2> QED BY <1>0, <2>1 DEF Admitted, Ids
<1>2. CASE (Step /\ UNCHANGED diskVars) \/ UNCHANGED allVars
  <2>1. disk' = disk /\ lost' = lost
    BY <1>2 DEF diskVars, allVars
  <2>2. age' = age
    BY <1>2, StepEffect DEF allVars, vars, storeVars, streamVars
  <2>3. \A i \in Admitted' : i \in Ids
    BY DEF Admitted, Ids
  <2> QED BY <1>1, <2>1, <2>2, <2>3 DEF KeptIn
<1>3. CASE Second
  <2> DEFINE a == Aged(disk)
  <2>1. Elapse /\ disk' = a /\ lost' = lost
    BY <1>3 DEF Second, Tick
  <2>2. /\ a.nextId = disk.nextId
        /\ \A e \in Events :
              /\ a.mark[e] = IF disk.markLeft[e] <= 1 THEN None ELSE disk.mark[e]
              /\ a.markLeft[e] = Less(disk.markLeft[e])
    BY <1>0, AgedFields
  <2> HIDE DEF a
  <2>3. Admitted' = Admitted /\ body' = body
    BY <2>1 DEF Elapse, Admitted
  <2> SUFFICES ASSUME NEW i \in Admitted \ lost, i < disk.nextId, age'[i] < AdmitTTL
               PROVE  /\ a.mark[body[i].event] = body[i].data
                      /\ a.markLeft[body[i].event] = AdmitTTL - age'[i]
    BY <2>1, <2>2, <2>3 DEF KeptIn
  <2> DEFINE e == body[i].event
  <2>4. e \in Events /\ i \in Ids /\ i < nextId /\ age[i] \in 0..AdmitTTL
    BY AdmittedIsMessage
  <2>5. age[i] < AdmitTTL /\ age'[i] = age[i] + 1
    BY <1>0, <2>1, <2>4 DEF Elapse, Older
  <2>6. disk.mark[e] = body[i].data /\ disk.markLeft[e] = AdmitTTL - age[i]
    BY <2>5 DEF KeptIn
  <2> QED BY <1>0, <2>2, <2>4, <2>5, <2>6 DEF Less
<1>4. CASE Sync
  <2>1. /\ disk' = Saved /\ lost' = lost /\ body' = body /\ age' = age /\ nextId' = nextId
    BY <1>4 DEF Sync, vars, storeVars, streamVars
  <2>2. Saved.mark = mark /\ Saved.markLeft = markLeft /\ Admitted' = Admitted
    BY <2>1 DEF Saved, Admitted
  <2> QED BY <2>1, <2>2 DEF KeptIn, KeptIsMarked
<1> QED BY <1>2, <1>3, <1>4

LEMMA KeptCrash ==
    ASSUME Keeping, Crash
    PROVE  KeptIsMarked' /\ KeptIn(disk)'
<1>0. disk \in Store /\ disk.nextId \in Int /\ nextId \in Int /\ disk.nextId <= nextId
  BY DurableFacts DEF Keeping, Backing
<1>1. /\ mark' = disk.mark /\ markLeft' = disk.markLeft
      /\ body' = body /\ age' = age /\ nextId' = nextId
      /\ disk' = [disk EXCEPT !.nextId = nextId]
      /\ lost' = lost \cup {i \in Ids : disk.nextId <= i /\ i < nextId}
  BY DEF Crash, Restore, Load
<1>2. disk'.mark = disk.mark /\ disk'.markLeft = disk.markLeft
  BY <1>0, <1>1 DEF Store
<1>3. Admitted' = Admitted
  BY <1>1 DEF Admitted
<1>4. \A i \in Admitted \ lost' : i \notin lost /\ i < disk.nextId
  BY <1>0, <1>1 DEF Admitted, Ids
<1> QED BY <1>1, <1>2, <1>3, <1>4 DEF Keeping, KeptIsMarked, KeptIn

LEMMA KeepingStep == Keeping /\ [DurableNext]_allVars => Keeping'
<1> SUFFICES ASSUME Keeping, [DurableNext]_allVars PROVE Keeping'
  OBVIOUS
<1>1. Backing'
  BY BackingStep DEF Keeping
<1>2. CASE Crash
  BY <1>1, <1>2, KeptCrash DEF Keeping
<1>3. CASE (Step /\ UNCHANGED diskVars) \/ Second \/ Sync \/ UNCHANGED allVars
  <2>1. [Next]_vars /\ lost' = lost
    BY <1>3, StepIsNext DEF diskVars, Second, Sync, allVars
  <2> QED BY <1>1, <1>3, <2>1, KeptStep, KeptDisk DEF Keeping
<1> QED BY <1>2, <1>3 DEF DurableNext

LEMMA KeepingInit == DurableInit => Keeping
<1> SUFFICES ASSUME DurableInit PROVE Keeping
  OBVIOUS
<1>1. Admitted = {}
  BY ConfigAssumption DEF DurableInit, Init, StoreInit, Admitted, Ids
<1> QED BY <1>1, BackingInit DEF Keeping, KeptIsMarked, KeptIn

(* An output appended is the last; time leaves their number and order.     *)
LEMMA OutputAppended ==
    ASSUME NEW s \in Seq(Output), NEW o \in Output
    PROVE  /\ Len(Append(s, o)) = Len(s) + 1 /\ Append(s, o)[Len(s) + 1] = o
           /\ \A j \in 1..Len(s) : Append(s, o)[j] = s[j]
OBVIOUS

LEMMA FollowStep ==
    ASSUME Behind, Step /\ UNCHANGED diskVars, Durable'
    PROVE  Behind'
<1> USE DEF Behind
<1>0. /\ disk.nextId \in Int /\ nextId \in Int /\ disk.nextId <= nextId /\ lag \in Nat
      /\ Ids \subseteq Int /\ \A i \in lost : i < nextId /\ i \in Ids
      /\ outputs \in Seq(Output) /\ disk.outputs \in Seq(Output)
  BY DurableFacts, DurabilityAssumption
     DEF Durable, History, Ids, Delivery, TypeOK, StoreTypeOK, Store
<1>1. /\ disk' = disk /\ lag' = lag /\ lost' = lost
      /\ age' = age /\ nextId' \in {nextId, nextId + 1}
      /\ stream' \subseteq stream \cup {nextId}
  BY StepEffect DEF diskVars
<1>2. EntriesFollow'
  <2>1. \A i \in Ids : nextId <= i => age[i] = 0
    BY <1>0 DEF Durable, Delivery, StoreOnRecord
  <2> QED BY <1>0, <1>1, <2>1 DEF EntriesFollow
<1>3. OutputsFollow'
  <2>1. CASE outputs' = outputs
    BY <1>1, <2>1 DEF OutputsFollow
  <2>2. ASSUME NEW i \in Ids, outputs' = Append(outputs, [id |-> i, age |-> 0])
        PROVE  OutputsFollow'
    <3> DEFINE o == [id |-> i, age |-> 0]
    <3>1. o \in Output
      BY ConfigAssumption DEF Output
    <3>2. /\ Len(outputs') = Len(outputs) + 1 /\ outputs'[Len(outputs) + 1].age = 0
          /\ \A j \in 1..Len(outputs) : outputs'[j] = outputs[j]
          /\ DOMAIN outputs' = 1..(Len(outputs) + 1)
      BY <1>0, <2>2, <3>1, OutputAppended
    <3>3. /\ DOMAIN outputs = 1..Len(outputs) /\ Len(outputs) \in Nat
          /\ DOMAIN disk.outputs = 1..Len(disk.outputs) /\ Len(disk.outputs) \in Nat
      BY <1>0
    <3> HIDE DEF o
    <3> QED BY <1>0, <1>1, <3>2, <3>3 DEF OutputsFollow
  <2> QED BY <2>1, <2>2, StepEffect
<1>4. StreamFollows' /\ LostIsGone'
  BY <1>0, <1>1 DEF StreamFollows, LostIsGone
<1> QED BY <1>2, <1>3, <1>4

LEMMA FollowSecond ==
    ASSUME Behind, Second, Durable'
    PROVE  Behind'
<1> USE DEF Behind
<1>0. /\ disk \in Store /\ disk.nextId \in Int /\ nextId \in Int /\ lag \in Nat
      /\ age \in [Ids -> 0..AdmitTTL] /\ AdmitTTL \in Nat /\ FinishTTL \in Nat
      /\ outputs \in Seq(Output) /\ disk.outputs \in Seq(Output)
  BY DurableFacts, DurabilityAssumption, ConfigAssumption
     DEF Durable, History, Delivery, TypeOK, StoreTypeOK, Store
<1>1. /\ Elapse /\ disk' = Aged(disk) /\ lag' = lag + 1 /\ lost' = lost
      /\ nextId' = nextId /\ stream' = stream
  BY DEF Second, Tick, Elapse
<1>2. /\ disk'.nextId = disk.nextId /\ disk'.stream = disk.stream
      /\ disk'.outputs = [j \in DOMAIN disk.outputs |->
             [disk.outputs[j] EXCEPT !.age = Older(@, FinishTTL)]]
  BY <1>0, <1>1 DEF Aged, Store
<1>3. outputs' = [j \in DOMAIN outputs |-> [outputs[j] EXCEPT !.age = Older(@, FinishTTL)]]
  BY <1>1 DEF Elapse
<1>4. EntriesFollow'
  <2>1. \A i \in Ids : age'[i] <= age[i] + 1
    BY <1>0, <1>1 DEF Elapse, Older
  <2> QED BY <1>0, <1>1, <1>2, <2>1 DEF EntriesFollow, Elapse, Older
<1>5. /\ DOMAIN outputs = 1..Len(outputs) /\ DOMAIN disk.outputs = 1..Len(disk.outputs)
      /\ Len(outputs) \in Nat /\ Len(disk.outputs) \in Nat
  BY <1>0
<1>6. Len(outputs') = Len(outputs) /\ Len(disk'.outputs) = Len(disk.outputs)
      /\ DOMAIN outputs' = DOMAIN outputs /\ DOMAIN disk'.outputs = DOMAIN disk.outputs
  BY <1>2, <1>3, <1>5
<1>7. \A j \in DOMAIN disk.outputs : outputs'[j] = disk'.outputs[j]
  <2> TAKE j \in DOMAIN disk.outputs
  <2>1. j \in DOMAIN outputs /\ outputs[j] = disk.outputs[j]
    BY <1>5 DEF OutputsFollow
  <2>2. outputs'[j] = [outputs[j] EXCEPT !.age = Older(@, FinishTTL)]
    BY <1>3, <2>1
  <2>3. disk'.outputs[j] = [disk.outputs[j] EXCEPT !.age = Older(@, FinishTTL)]
    BY <1>2
  <2> QED BY <2>1, <2>2, <2>3
<1>8. ASSUME NEW j \in DOMAIN outputs, j > Len(disk.outputs) PROVE outputs'[j].age <= lag'
  <2>1. outputs[j] \in Output
    BY <1>0, SeqElement
  <2>2. outputs'[j] = [outputs[j] EXCEPT !.age = Older(@, FinishTTL)]
    BY <1>3
  <2>3. outputs'[j].age = Older(outputs[j].age, FinishTTL) /\ outputs[j].age \in 0..FinishTTL
    BY <2>1, <2>2 DEF Output
  <2> QED BY <1>0, <1>1, <1>8, <2>3 DEF OutputsFollow, Older
<1>9. OutputsFollow'
  BY <1>6, <1>7, <1>8 DEF OutputsFollow
<1>10. StreamFollows' /\ LostIsGone'
  BY <1>1, <1>2 DEF StreamFollows, LostIsGone
<1> QED BY <1>4, <1>9, <1>10

LEMMA FollowSync ==
    ASSUME Behind, Sync, Durable'
    PROVE  Behind'
<1>1. /\ disk' = Saved /\ lag' = 0 /\ lost' = lost
      /\ UNCHANGED <<nextId, stream, outputs, age>>
  BY DEF Sync, vars, storeVars, streamVars
<1>2. Saved.nextId = nextId /\ Saved.stream = stream /\ Saved.outputs = outputs
  BY DEF Saved
<1>3. nextId \in Int /\ Ids \subseteq Int /\ outputs \in Seq(Output)
  BY DurableFacts DEF Behind, Durable, Delivery, TypeOK, StoreTypeOK, Ids
<1>4. Len(outputs) \in Nat /\ DOMAIN outputs = 1..Len(outputs)
  BY <1>3
<1>5. OutputsFollow'
  BY <1>1, <1>2, <1>4 DEF OutputsFollow
<1> QED BY <1>1, <1>2, <1>3, <1>5
        DEF Behind, EntriesFollow, StreamFollows, LostIsGone

LEMMA FollowCrash ==
    ASSUME Behind, Crash, Durable'
    PROVE  Behind'
<1>0. /\ disk \in Store /\ Delivered(disk) /\ disk.nextId \in Int /\ nextId \in Int
      /\ Ids \subseteq Int /\ disk.outputs \in Seq(Output)
  BY DurableFacts DEF Behind, Store, Ids
<1>1. /\ stream' = disk.stream /\ outputs' = disk.outputs
      /\ nextId' = nextId /\ disk' = [disk EXCEPT !.nextId = nextId]
      /\ lost' = lost \cup {i \in Ids : disk.nextId <= i /\ i < nextId}
  BY DEF Crash, Restore, Load
<1>2. disk'.nextId = nextId /\ disk'.stream = disk.stream /\ disk'.outputs = disk.outputs
  BY <1>0, <1>1 DEF Store
<1>3. Len(disk.outputs) \in Nat /\ DOMAIN disk.outputs = 1..Len(disk.outputs)
  BY <1>0
<1>4. OutputsFollow'
  BY <1>1, <1>2, <1>3 DEF OutputsFollow
<1>5. LostIsGone'
  BY <1>0, <1>1, <1>2 DEF Behind, LostIsGone, Delivered, Store
<1> QED BY <1>0, <1>1, <1>2, <1>4, <1>5 DEF Behind, EntriesFollow, StreamFollows

LEMMA BehindStep == Behind /\ [DurableNext]_allVars => Behind'
<1> SUFFICES ASSUME Behind, [DurableNext]_allVars PROVE Behind'
  OBVIOUS
<1>1. Durable'
  BY DurableStep DEF Behind
<1>2. CASE UNCHANGED allVars
  BY <1>1, <1>2 DEF allVars, vars, storeVars, streamVars, diskVars, Behind, EntriesFollow,
                    OutputsFollow, StreamFollows, LostIsGone
<1> QED BY <1>1, <1>2, FollowStep, FollowSecond, FollowSync, FollowCrash DEF DurableNext

LEMMA BehindInit == DurableInit => Behind
<1> SUFFICES ASSUME DurableInit PROVE Behind
  OBVIOUS
<1>1. nextId = 1 /\ stream = {} /\ outputs = <<>> /\ lost = {} /\ disk = Saved
  BY DEF DurableInit, Init, StoreInit
<1>2. disk.nextId = nextId /\ disk.outputs = outputs
  BY <1>1 DEF Saved
<1>3. EntriesFollow
  BY <1>1, <1>2 DEF EntriesFollow, Ids
<1>4. OutputsFollow
  BY <1>1, <1>2 DEF OutputsFollow
<1> QED BY <1>1, <1>3, <1>4, DurableInitial DEF Behind, StreamFollows, LostIsGone

LEMMA KeepingHolds == DurableSpec => []Keeping
BY KeepingInit, KeepingStep, PTL DEF DurableSpec

LEMMA BehindHolds == DurableSpec => []Behind
BY BehindInit, BehindStep, PTL DEF DurableSpec

-----------------------------------------------------------------------------
(* The refinement.  The steps of HookGuard are those of EventLedger but    *)
(* that only kept entries are remembered; a crash loses what the disk is   *)
(* behind by.                                                              *)
LEMMA KeptEntries ==
    ASSUME TypeOK
    PROVE  /\ Forgetful!Kept = 1..(nextId - 1) \ lost
           /\ \A i \in Forgetful!Kept : i \in Ids /\ i < nextId /\ i \notin lost
<1>1. DOMAIN Entries = 1..(nextId - 1)
  BY EntriesType
<1> QED BY <1>1, IndexOnRecord DEF Forgetful!Kept, Entries

LEMMA ForgetfulAccept ==
    ASSUME Keeping, [Next]_vars, NEW r \in Requests, AdmitNew(r)
    PROVE  \E m \in Message : Forgetful!AcceptUnlessKept(m)
<1>0. TypeOK /\ Delivery
  BY DEF Keeping, Backing, Durable, Delivery
<1> PICK m \in Message : m = msg[r]
  BY <1>0 DEF AdmitNew, Sent, TypeOK, GatewayTypeOK
<1>1. XAdd(m) /\ outputs' = outputs /\ m.event \in Events
  BY DEF AdmitNew, Message
<1>2. mark[m.event] = None /\ ~(XLen >= MaxQueue)
  BY <1>1 DEF AdmitNew, Prior, QueueIsFull
<1>3. ASSUME NEW i \in Forgetful!Kept, body[i] # Poison, body[i].event = m.event
      PROVE  age[i] = AdmitTTL
  <2>1. i \in Admitted \ lost
    BY <1>0, <1>3, KeptEntries DEF Admitted
  <2>2. age[i] \in 0..AdmitTTL /\ body[i].data \in Data
    BY <1>0, <2>1, AdmittedIsMessage
  <2> QED BY <1>2, <1>3, <2>1, <2>2, ConfigAssumption, NamesAssumption
          DEF Keeping, KeptIsMarked
<1>4. Forgetful!ForgottenOrGone(m.event)
  <2>1. \A i \in Forgetful!Kept : i \in 1..(nextId - 1)
    BY <1>0, KeptEntries
  <2> QED BY <1>3, <2>1 DEF Forgetful!ForgottenOrGone
<1>5. Cardinality(stream) < MaxQueue
  <2>1. IsFiniteSet(stream)
    <3>1. IsFiniteSet(Ids)
      BY ConfigAssumption, FS_Interval DEF Ids
    <3> QED BY <1>0, <3>1, FS_Subset DEF TypeOK, StoreTypeOK
  <2> QED BY <1>2, <2>1, FS_CardinalityType, ConfigAssumption DEF XLen
<1>6. Forgetful!Record(m)
  BY <1>0, <1>1, EntriesGrow DEF Forgetful!Record, Entries
<1>7. Forgetful!AcceptUnlessKept(m)
  BY <1>4, <1>5, <1>6 DEF Forgetful!AcceptUnlessKept, Cardinality, Forgetful!Cardinality
<1> QED BY <1>1, <1>7

(* Any other step but a crash.                                             *)
LEMMA ForgetfulStep ==
    ASSUME Keeping, Marking, [Next]_vars, lost' = lost
    PROVE  [Forgetful!ForgetfulNext]_(Forgetful!forgetfulVars)
<1>0. TypeOK /\ WorkOnRecord /\ Delivery
  BY DEF Marking, Delivery
<1>1. ASSUME UNCHANGED <<body, age, nextId, stream, outputs>>
      PROVE  UNCHANGED Forgetful!forgetfulVars
  BY <1>1 DEF Forgetful!forgetfulVars, Forgetful!vars
<1>2. ASSUME NEW r \in Requests, AdmitNew(r) PROVE Forgetful!ForgetfulNext
  BY <1>2, ForgetfulAccept DEF Forgetful!ForgetfulNext, Forgetful!Message, Message
<1>3. ASSUME NEW r \in Requests, AdmitAppendFails(r) PROVE UNCHANGED Forgetful!forgetfulVars
  BY <1>1, <1>3 DEF AdmitAppendFails, streamVars
<1>4. CASE Inject
  <2>1. Forgetful!Plant
    BY <1>0, <1>4, EntriesGrow DEF Inject, Forgetful!Plant, Forgetful!Record, Entries
  <2> QED BY <2>1 DEF Forgetful!ForgetfulNext
<1>5. CASE Settling
  <2>1. CASE UNCHANGED <<Entries, stream, outputs>>
    BY <2>1 DEF Forgetful!forgetfulVars, Forgetful!vars, Entries
  <2>2. ASSUME NEW i \in DOMAIN Entries, Ledger!Settle(i)
        PROVE  Forgetful!ForgetfulNext
    <3>1. Forgetful!Settle(i)
      BY <2>2 DEF Ledger!Settle, Ledger!Decided, Ledger!Subject,
                  Forgetful!Settle, Forgetful!Decided, Forgetful!Subject
    <3> QED BY <3>1 DEF Forgetful!ForgetfulNext, Entries
  <2> QED BY <1>5, <2>1, <2>2, SettleStep
<1>6. CASE Elapse
  <2>1. Ledger!Pass
    BY <1>0, <1>6, PassStep
  <2>2. Forgetful!Pass
    BY <2>1 DEF Ledger!Pass, Ledger!Aged, Forgetful!Pass, Forgetful!Aged
  <2> QED BY <2>2 DEF Forgetful!ForgetfulNext
<1>7. CASE UNCHANGED storeVars \/ Grouping \/ Delivering
  BY <1>1, <1>7 DEF storeVars, streamVars, Grouping, Delivering
<1> QED BY <1>0, <1>2, <1>3, <1>4, <1>5, <1>6, <1>7, StepKinds

(* What the disk has of the outputs is where they began.                   *)
LEMMA OutputsPrefix ==
    ASSUME NEW s \in Seq(Output), NEW t \in Seq(Output), Len(s) <= Len(t),
           \A j \in DOMAIN s : t[j] = s[j]
    PROVE  s = SubSeq(t, 1, Len(s))
<1>1. Len(s) \in Nat /\ DOMAIN s = 1..Len(s) /\ Len(t) \in Nat
  OBVIOUS
<1>2. /\ SubSeq(t, 1, Len(s)) \in Seq(Output) /\ Len(SubSeq(t, 1, Len(s))) = Len(s)
      /\ \A j \in 1..Len(s) : SubSeq(t, 1, Len(s))[j] = t[j]
  BY <1>1
<1> QED BY <1>1, <1>2, SeqEqual

LEMMA CrashLoses ==
    ASSUME Completing, Behind, Crash
    PROVE  Forgetful!Lose
<1>0. /\ disk \in Store /\ Delivered(disk) /\ disk.nextId \in 1..(MaxEntries + 1)
      /\ nextId \in 1..(MaxEntries + 1) /\ disk.nextId <= nextId /\ MaxEntries \in Nat
      /\ TypeOK /\ Delivery /\ lag <= SyncLag /\ lag \in Nat /\ SyncLag \in Nat
      /\ age \in [Ids -> 0..AdmitTTL]
      /\ outputs \in Seq(Output) /\ disk.outputs \in Seq(Output)
  <2>1. Delivery /\ TypeOK /\ lag \in 0..SyncLag /\ SyncLag \in Nat /\ MaxEntries \in Nat
    BY DurabilityAssumption, ConfigAssumption DEF Behind, Durable, History, Delivery
  <2>2. disk \in Store /\ Delivered(disk) /\ disk.nextId <= nextId
    BY DurableFacts DEF Behind
  <2>3. disk.nextId \in 1..(MaxEntries + 1) /\ disk.outputs \in Seq(Output)
    BY <2>2 DEF Store
  <2>4. /\ nextId \in 1..(MaxEntries + 1) /\ age \in [Ids -> 0..AdmitTTL]
        /\ outputs \in Seq(Output)
    BY <2>1 DEF TypeOK, StoreTypeOK
  <2> QED BY <2>1, <2>2, <2>3, <2>4
<1> DEFINE n == disk.nextId - 1
           k == Len(disk.outputs)
<1>1. /\ stream' = disk.stream /\ outputs' = disk.outputs
      /\ UNCHANGED <<body, age, nextId>>
      /\ lost' = lost \cup {i \in Ids : disk.nextId <= i /\ i < nextId}
  BY DEF Crash, Restore, Load
<1>2. /\ Len(Entries) = nextId - 1 /\ DOMAIN Entries = 1..(nextId - 1)
      /\ \A i \in DOMAIN Entries : Entries[i] = [item |-> body[i], age |-> age[i]]
      /\ \A i : i \in DOMAIN Entries <=> i \in Ids /\ i < nextId
  BY <1>0, EntriesType, IndexOnRecord DEF Entries
<1>3. /\ n \in 0..Len(Entries) /\ k \in 0..Len(outputs)
      /\ DOMAIN disk.outputs = 1..k /\ DOMAIN outputs = 1..Len(outputs)
  BY <1>0, <1>2 DEF Behind, OutputsFollow
<1>4. \A i \in DOMAIN Entries : i > n => Entries[i].age <= SyncLag
  <2> SUFFICES ASSUME NEW i \in DOMAIN Entries, i > n PROVE Entries[i].age <= SyncLag
    OBVIOUS
  <2>1. i \in Ids /\ i < nextId /\ disk.nextId <= i
    BY <1>0, <1>2 DEF Ids
  <2>2. age[i] <= lag /\ age[i] \in Int
    BY <1>0, <2>1 DEF Behind, EntriesFollow
  <2>3. Entries[i].age = age[i]
    BY <1>2
  <2> QED BY <1>0, <2>2, <2>3
<1>5. \A j \in DOMAIN outputs : j > k => outputs[j].age <= SyncLag
  <2> SUFFICES ASSUME NEW j \in DOMAIN outputs, j > k PROVE outputs[j].age <= SyncLag
    OBVIOUS
  <2>1. outputs[j].age <= lag
    BY DEF Behind, OutputsFollow
  <2>2. outputs[j].age \in Int
    BY <1>0, OutputFacts, ConfigAssumption
  <2> QED BY <1>0, <2>1, <2>2
<1>6. lost' = lost \cup (n + 1)..Len(Entries)
  BY <1>0, <1>1, <1>2 DEF Ids
<1>7. outputs' = SubSeq(outputs, 1, k)
  BY <1>0, <1>1, OutputsPrefix DEF Behind, OutputsFollow
<1>8. Entries' = Entries
  BY <1>1, EntriesUntouched
<1>9. stream \ lost' \subseteq stream'
  <2> SUFFICES ASSUME NEW i \in stream, i \notin lost' PROVE i \in disk.stream
    BY <1>1
  <2>1. i \in Ids /\ i < nextId
    BY <1>0 DEF TypeOK, StoreTypeOK, Delivery, StoreOnRecord
  <2>2. i < disk.nextId
    BY <1>0, <1>1, <2>1 DEF Ids
  <2> QED BY <2>2 DEF Behind, StreamFollows
<1>10. stream' \subseteq DOMAIN Entries \ lost'
  <2> SUFFICES ASSUME NEW i \in disk.stream PROVE i \in DOMAIN Entries \ lost'
    BY <1>1
  <2>1. i \in Ids /\ i < disk.nextId
    BY <1>0 DEF Delivered, Store
  <2>2. i \notin lost
    BY DEF Behind, LostIsGone
  <2> QED BY <1>0, <1>1, <1>2, <2>1, <2>2 DEF Ids
<1>11. ASSUME NEW i \in DOMAIN Entries \ lost', i \notin stream'
       PROVE  \E j \in 1..k : Forgetful!Subject(outputs[j].id) = Forgetful!Subject(i)
  <2>1. i \in Ids /\ i < nextId /\ i \notin lost /\ i < disk.nextId
    BY <1>0, <1>1, <1>2, <1>11 DEF Ids
  <2>2. PICK j \in DOMAIN disk.outputs : Key(disk.outputs[j].id) = Key(i)
    BY <1>1, <1>11, <2>1 DEF Completing, LeftIn
  <2>3. j \in DOMAIN outputs /\ outputs[j].id = disk.outputs[j].id /\ j \in 1..k
    BY <1>3, <2>2 DEF Behind, OutputsFollow
  <2>4. outputs[j].id \in Ids /\ outputs[j].id < nextId
    BY <1>0, <2>3, OutputFacts
  <2>5. Ledger!Subject(outputs[j].id) = Key(outputs[j].id) /\ Ledger!Subject(i) = Key(i)
    BY <1>0, <2>1, <2>4, SubjectIsKey
  <2>6. Forgetful!Subject(outputs[j].id) = Forgetful!Subject(i)
    BY <2>2, <2>3, <2>5 DEF Ledger!Subject, Forgetful!Subject
  <2> QED BY <2>3, <2>6
<1> HIDE DEF n, k
<1>12. Forgetful!RecentAfter(Entries, n) /\ Forgetful!RecentAfter(outputs, k)
  BY <1>4, <1>5 DEF Forgetful!RecentAfter
<1>13. Forgetful!Kept' = DOMAIN Entries \ lost'
  BY <1>8 DEF Forgetful!Kept, Entries
<1>14. /\ Forgetful!RecentAfter(Entries, n) /\ Forgetful!RecentAfter(outputs, k)
       /\ lost' = lost \cup (n + 1)..Len(Entries)
       /\ outputs' = SubSeq(outputs, 1, k) /\ Entries' = Entries
       /\ stream \ lost' \subseteq stream' /\ stream' \subseteq Forgetful!Kept'
       /\ \A i \in Forgetful!Kept' \ stream' :
             \E j \in 1..k : Forgetful!Subject(outputs[j].id) = Forgetful!Subject(i)
  BY <1>6, <1>7, <1>8, <1>9, <1>10, <1>11, <1>12, <1>13
<1> QED BY <1>3, <1>14 DEF Forgetful!Lose, Entries

(* Redis may crash and come back older, as often as it likes: what is lost *)
(* is the end of the record and no older than the file's lag, what is kept *)
(* is never accepted twice within the retention, and all that stays closed *)
(* has kept its decision.                                                  *)
THEOREM ForgetfulLedgerImplemented == DurableSpec => ImplementsForgetfulLedger
<1>1. DurableInit => Forgetful!ForgetfulInit
  <2>1. Init => Forgetful!Init
    BY LedgerInit DEF Ledger!Init, Forgetful!Init
  <2> QED BY <2>1 DEF DurableInit, Forgetful!ForgetfulInit
<1>2. Completing /\ Keeping /\ Behind /\ [DurableNext]_allVars
        => [Forgetful!ForgetfulNext]_(Forgetful!forgetfulVars)
  <2> SUFFICES ASSUME Completing, Keeping, Behind, [DurableNext]_allVars
               PROVE  [Forgetful!ForgetfulNext]_(Forgetful!forgetfulVars)
    OBVIOUS
  <2>1. CASE Crash
    BY <2>1, CrashLoses DEF Forgetful!ForgetfulNext
  <2>2. CASE (Step /\ UNCHANGED diskVars) \/ Second \/ Sync \/ UNCHANGED allVars
    <3>1. [Next]_vars /\ lost' = lost
      BY <2>2, StepIsNext DEF diskVars, Second, Sync, allVars
    <3> QED BY <3>1, ForgetfulStep DEF Completing
  <2> QED BY <2>1, <2>2 DEF DurableNext
<1> QED BY <1>1, <1>2, CompletingHolds, KeepingHolds, BehindHolds, PTL
        DEF DurableSpec, ImplementsForgetfulLedger, Forgetful!ForgetfulSpec
=============================================================================
