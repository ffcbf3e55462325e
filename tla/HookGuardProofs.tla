-------------------------- MODULE HookGuardProofs ---------------------------
(***************************************************************************)
(* Theorems about HookGuard for all values of its constants, checked by    *)
(* TLAPS, in four parts:                                                   *)
(*   - delivery: type correctness, NoOrphanedDelivery, and the lemmas on   *)
(*     steps the other parts use;                                          *)
(*   - completion, what the workers publish: one decision per retention    *)
(*     window, and an outcome for all that leaves the stream;              *)
(*   - admission, what the gateways admit: one entry per event id and      *)
(*     retention window, markers that stand for entries, true answers and a*)
(*     bounded backlog;                                                    *)
(*   - the ledger: every step of the system is a step of EventLedger or    *)
(*     changes nothing the ledger speaks of.                               *)
(***************************************************************************)
EXTENDS HookGuard, FiniteSetTheorems, SequenceTheorems, TLAPS

-----------------------------------------------------------------------------
(* Type correctness.                                                       *)

LEMMA InitType == Init => TypeOK
<1> SUFFICES ASSUME Init PROVE TypeOK
  OBVIOUS
<1> USE ConfigAssumption DEF Init
<1>1. StoreTypeOK
  <2>1. outputs \in Seq(Output)
    BY DEF StoreInit
  <2>2. nextId \in 1..(MaxEntries + 1) /\ last \in 0..MaxEntries /\ faults \in 0..MaxFaults
    BY DEF StoreInit
  <2>3. age \in [Ids -> 0..AdmitTTL] /\ idle \in [Ids -> 0..ReclaimIdle]
    BY DEF StoreInit
  <2>4. markLeft \in [Events -> 0..AdmitTTL] /\ done \in [Keys -> 0..FinishTTL]
    BY DEF StoreInit
  <2> QED BY <2>1, <2>2, <2>3, <2>4 DEF StoreInit, StoreTypeOK
<1>2. GatewayTypeOK
  BY DEF GatewayInit, GatewayTypeOK
<1>3. WorkerTypeOK
  BY DEF WorkerInit, WorkerTypeOK, Places
<1> QED BY <1>1, <1>2, <1>3 DEF TypeOK

LEMMA GatewayTypeStep ==
    ASSUME TypeOK, GatewayNext, UNCHANGED workerVars
    PROVE  TypeOK'
<1> USE ConfigAssumption DEF TypeOK
<1>1. WorkerTypeOK'
  BY DEF WorkerTypeOK, workerVars
<1> PICK r \in Requests : \/ Refuse(r)
                          \/ \E m \in Message : Accept(r, m)
                          \/ AdmitScript(r)
                          \/ Reply(r)
                          \/ Expire(r)
  BY DEF GatewayNext
<1>2. CASE Refuse(r)
  BY <1>1, <1>2 DEF Refuse, StoreTypeOK, GatewayTypeOK, storeVars, streamVars, groupVars, markVars
<1>3. ASSUME NEW m \in Message, Accept(r, m) PROVE TypeOK'
  BY <1>1, <1>3 DEF Accept, StoreTypeOK, GatewayTypeOK, storeVars, streamVars, groupVars, markVars
<1>4. CASE AdmitKnown(r)
  BY <1>1, <1>4 DEF AdmitKnown, Return, Results, StoreTypeOK, GatewayTypeOK, storeVars, streamVars, groupVars, markVars
<1>5. CASE AdmitFull(r)
  BY <1>1, <1>5 DEF AdmitFull, Return, Results, StoreTypeOK, GatewayTypeOK, storeVars, streamVars, groupVars, markVars
<1>6. CASE AdmitNew(r)
  <2>1. msg[r] \in Message
    BY <1>6 DEF AdmitNew, Sent, GatewayTypeOK
  <2>2. GatewayTypeOK'
    BY <1>6 DEF AdmitNew, Return, Results, GatewayTypeOK
  <2>3. StoreTypeOK'
    <3> USE <1>6, <2>1 DEF AdmitNew, StoreTypeOK
    <3>1. nextId \in Ids /\ nextId' \in 1..(MaxEntries + 1)
      BY DEF XAdd, Ids
    <3>2. stream' \subseteq Ids /\ body' \in [Ids -> Message \cup {Poison, None}]
      BY <3>1 DEF XAdd
    <3>3. age' \in [Ids -> 0..AdmitTTL]
      BY DEF XAdd
    <3>4. mark' \in [Events -> Data \cup {None}] /\ markLeft' \in [Events -> 0..AdmitTTL]
      BY DEF Message
    <3> QED BY <3>1, <3>2, <3>3, <3>4 DEF groupVars
  <2> QED BY <1>1, <2>2, <2>3
<1>7. CASE AdmitAppendFails(r)
  <2>1. GatewayTypeOK'
    BY <1>7 DEF AdmitAppendFails, Return, Results, GatewayTypeOK
  <2>2. faults' \in 0..MaxFaults
    BY <1>7 DEF AdmitAppendFails, Fault, StoreTypeOK
  <2>3. mark' \in [Events -> Data \cup {None}] /\ markLeft' \in [Events -> 0..AdmitTTL]
    <3>1. msg[r] \in Message
      BY <1>7 DEF AdmitAppendFails, Sent, GatewayTypeOK
    <3> QED BY <1>7, <3>1 DEF AdmitAppendFails, StoreTypeOK, Message
  <2> QED BY <1>1, <1>7, <2>1, <2>2, <2>3
      DEF AdmitAppendFails, StoreTypeOK, streamVars, groupVars
<1>8. CASE Reply(r)
  BY <1>1, <1>8 DEF Reply, StatusOf, Results, StoreTypeOK, GatewayTypeOK, storeVars, streamVars, groupVars, markVars
<1>9. CASE Expire(r)
  BY <1>1, <1>9 DEF Expire, StoreTypeOK, GatewayTypeOK, storeVars, streamVars, groupVars, markVars
<1> QED
  BY <1>2, <1>3, <1>4, <1>5, <1>6, <1>7, <1>8, <1>9 DEF AdmitScript

(* A sequence whose elements are replaced one by one, each by an element   *)
(* of the same set.                                                        *)
LEMMA ReplacedSeq ==
    ASSUME NEW S, NEW s \in Seq(S), NEW t,
           t = [j \in DOMAIN s |-> t[j]],
           \A j \in DOMAIN s : t[j] \in S
    PROVE  t \in Seq(S)
<1>1. Len(s) \in Nat /\ DOMAIN s = 1..Len(s)
  OBVIOUS
<1>2. t \in [1..Len(s) -> S]
  BY <1>1
<1> QED BY <1>1, <1>2

LEMMA SeqElement ==
    ASSUME NEW S, NEW s \in Seq(S), NEW j \in DOMAIN s
    PROVE  s[j] \in S
OBVIOUS

LEMMA UpdatedFun ==
    ASSUME NEW S, NEW T, NEW f \in [S -> T], NEW k, NEW v \in T
    PROVE  [f EXCEPT ![k] = v] \in [S -> T]
OBVIOUS

(* A second makes an output older, up to the retention.                    *)
LEMMA AgedOutput ==
    ASSUME NEW o \in Output
    PROVE  [o EXCEPT !.age = Older(@, FinishTTL)] \in Output
BY ConfigAssumption DEF Output, Older

(* What the deliveries and FINISH do to the store keeps its type.          *)
LEMMA ReadNewType ==
    ASSUME StoreTypeOK, NEW batch, ReadNew(batch)
    PROVE  /\ batch \subseteq stream
           /\ last' \in 0..MaxEntries
           /\ pending' \subseteq Ids
           /\ idle' \in [Ids -> 0..ReclaimIdle]
<1> USE ConfigAssumption DEF StoreTypeOK
<1>1. batch \subseteq stream
  BY DEF ReadNew, First, Fresh
<1>2. last' \in 0..MaxEntries
  <2>1. batch # {} => last' \in Ids
    BY <1>1 DEF ReadNew
  <2>2. batch = {} => last' = last
    BY DEF ReadNew
  <2> QED BY <2>1, <2>2 DEF Ids
<1>3. pending' \subseteq Ids /\ idle' \in [Ids -> 0..ReclaimIdle]
  BY <1>1 DEF ReadNew, Deliver
<1> QED BY <1>1, <1>2, <1>3

LEMMA AutoClaimType ==
    ASSUME StoreTypeOK, NEW from, NEW batch, AutoClaim(from, batch)
    PROVE  /\ batch \subseteq pending
           /\ last' = last /\ pending' = pending
           /\ idle' \in [Ids -> 0..ReclaimIdle]
<1> USE ConfigAssumption DEF StoreTypeOK
<1>1. batch \subseteq pending
  BY DEF AutoClaim, First, Scanned
<1>2. idle' \in [Ids -> 0..ReclaimIdle]
  BY DEF AutoClaim, Deliver
<1> QED BY <1>1, <1>2 DEF AutoClaim, Deliver

LEMMA FinishType ==
    ASSUME StoreTypeOK, NEW i \in Ids, FinishSettles(i) \/ FinishFails(i)
    PROVE  StoreTypeOK'
<1> USE ConfigAssumption DEF StoreTypeOK
<1>0. done \in [Keys -> 0..FinishTTL] /\ 0 \in 0..FinishTTL /\ FinishTTL \in 0..FinishTTL
  OBVIOUS
<1>1. ASSUME XAckDel(i)
      PROVE  /\ pending' \subseteq Ids /\ stream' \subseteq Ids
             /\ idle' \in [Ids -> 0..ReclaimIdle]
  BY <1>1 DEF XAckDel
<1>2. CASE FinishKnown(i)
  BY <1>1, <1>2 DEF FinishKnown, markVars
<1>3. CASE FinishNew(i)
  <2>1. outputs' \in Seq(Output)
    <3>1. [id |-> i, age |-> 0] \in Output
      BY DEF Output
    <3> QED BY <1>3, <3>1 DEF FinishNew
  <2>2. done' \in [Keys -> 0..FinishTTL]
    <3>1. done' = [done EXCEPT ![Key(i)] = FinishTTL]
      BY <1>3 DEF FinishNew
    <3> QED BY <3>1, <1>0, UpdatedFun
  <2> QED BY <1>1, <1>3, <2>1, <2>2 DEF FinishNew, markVars
<1>4. CASE FinishFails(i)
  <2>1. done' \in [Keys -> 0..FinishTTL]
    <3>1. done' = [done EXCEPT ![Key(i)] = 0]
      BY <1>4 DEF FinishFails
    <3> QED BY <3>1, <1>0, UpdatedFun
  <2>2. faults' \in 0..MaxFaults
    BY <1>4 DEF FinishFails, Fault
  <2> QED BY <1>4, <2>1, <2>2 DEF FinishFails, streamVars, groupVars, markVars
<1> QED BY <1>2, <1>3, <1>4 DEF FinishSettles

LEMMA WorkerTypeStep ==
    ASSUME TypeOK, NEW w \in Workers,
           \/ WorkerStep(w)
           \/ CycleBreaks(w) \/ Kill(w)
           \/ RunStale(w) \/ LateClaim(w) \/ LateRead(w),
           UNCHANGED gatewayVars
    PROVE  TypeOK'
<1> USE ConfigAssumption DEF TypeOK
<1>1. GatewayTypeOK'
  BY DEF GatewayTypeOK, gatewayVars
<1>2. ASSUME CreateGroup, UNCHANGED <<streamVars, markVars, done, outputs, faults>>
      PROVE  StoreTypeOK'
  BY <1>2 DEF CreateGroup, StoreTypeOK, streamVars, markVars
<1>3. ASSUME NEW batch, ReadNew(batch) \/ \E from : AutoClaim(from, batch),
             UNCHANGED <<group, streamVars, markVars, done, outputs, faults>>
      PROVE  StoreTypeOK' /\ batch \subseteq Ids
  <2>1. CASE ReadNew(batch)
    BY <1>3, <2>1, ReadNewType DEF StoreTypeOK, streamVars, markVars
  <2>2. CASE \E from : AutoClaim(from, batch)
    BY <1>3, <2>2, AutoClaimType DEF StoreTypeOK, streamVars, markVars
  <2> QED BY <1>3, <2>1, <2>2
<1>4. ASSUME Fault, UNCHANGED storeVars PROVE StoreTypeOK'
  BY <1>4 DEF Fault, StoreTypeOK, storeVars, streamVars, groupVars, markVars
<1>5. CASE Start(w)
  BY <1>1, <1>2, <1>5 DEF Start, Goto, WorkerTypeOK, Places
<1>6. CASE Claim(w)
  <2>1. PICK batch \in SUBSET Ids, c \in 0..MaxEntries :
           /\ AutoClaim(cursor[w], batch)
           /\ wire' = [wire EXCEPT ![w] = batch]
           /\ cursor' = [cursor EXCEPT ![w] = c]
    BY <1>6 DEF Claim
  <2>2. StoreTypeOK'
    BY <1>3, <1>6, <2>1 DEF Claim
  <2>3. WorkerTypeOK'
    BY <1>6, <2>1 DEF Claim, Goto, WorkerTypeOK, Places
  <2> QED BY <1>1, <2>2, <2>3
<1>7. CASE Read(w)
  <2>1. PICK batch \in SUBSET Ids :
           ReadNew(batch) /\ wire' = [wire EXCEPT ![w] = batch]
    BY <1>7 DEF Read
  <2>2. StoreTypeOK'
    BY <1>3, <1>7, <2>1 DEF Read
  <2>3. WorkerTypeOK'
    BY <1>7, <2>1 DEF Read, Goto, WorkerTypeOK, Places
  <2> QED BY <1>1, <2>2, <2>3
<1>8. CASE RunFinish(w)
  <2>1. PICK i \in wire[w] :
           /\ wire' = [wire EXCEPT ![w] = @ \ {i}]
           /\ \/ FinishSettles(i) /\ failed' = failed
              \/ FinishFails(i)   /\ failed' = [failed EXCEPT ![w] = TRUE]
           /\ UNCHANGED <<pc, cursor, due, stale, late>>
    BY <1>8 DEF RunFinish
  <2>2. i \in Ids
    BY DEF WorkerTypeOK
  <2>3. StoreTypeOK'
    BY <2>1, <2>2, FinishType
  <2>4. WorkerTypeOK'
    BY <2>1 DEF WorkerTypeOK
  <2> QED BY <1>1, <2>3, <2>4
<1>9. CASE Collect(w)
  <2>1. StoreTypeOK'
    BY <1>9 DEF Collect, StoreTypeOK, storeVars, streamVars, groupVars, markVars
  <2>2. WorkerTypeOK'
    BY <1>9 DEF Collect, Goto, WorkerTypeOK, Places
  <2> QED BY <1>1, <2>1, <2>2
<1>10. CASE Recover(w)
  BY <1>1, <1>2, <1>10 DEF Recover, Goto, WorkerTypeOK, Places
<1>11. ASSUME Abandon(w)
       PROVE  /\ stale' \in [Workers -> SUBSET Ids]
              /\ wire' \in [Workers -> SUBSET Ids]
              /\ failed' \in [Workers -> BOOLEAN]
              /\ late' \in [Workers -> SUBSET {"claim", "read"}]
  BY <1>11 DEF Abandon, WorkerTypeOK
<1>12. CASE CycleBreaks(w)
  BY <1>1, <1>4, <1>11, <1>12 DEF CycleBreaks, Goto, WorkerTypeOK, Places
<1>13. CASE Kill(w)
  BY <1>1, <1>4, <1>11, <1>13 DEF Kill, Goto, WorkerTypeOK, Places
<1>14. CASE RunStale(w)
  <2>1. PICK i \in stale[w] :
           /\ stale' = [stale EXCEPT ![w] = @ \ {i}]
           /\ FinishSettles(i) \/ FinishFails(i)
           /\ UNCHANGED <<pc, cursor, due, wire, failed, late>>
    BY <1>14 DEF RunStale
  <2>2. i \in Ids
    BY DEF WorkerTypeOK
  <2> QED BY <1>1, <2>1, <2>2, FinishType DEF WorkerTypeOK
<1>15. CASE LateClaim(w)
  <2>1. StoreTypeOK'
    BY <1>3, <1>15 DEF LateClaim
  <2> QED BY <1>1, <1>15, <2>1 DEF LateClaim, WorkerTypeOK
<1>16. CASE LateRead(w)
  <2>1. StoreTypeOK'
    BY <1>3, <1>16 DEF LateRead
  <2> QED BY <1>1, <1>16, <2>1 DEF LateRead, WorkerTypeOK
<1> QED
  BY <1>5, <1>6, <1>7, <1>8, <1>9, <1>10, <1>12, <1>13, <1>14, <1>15, <1>16
     DEF WorkerStep

LEMMA TickType ==
    ASSUME TypeOK, Tick PROVE TypeOK'
<1> USE ConfigAssumption DEF TypeOK, Tick
<1>1. GatewayTypeOK' /\ WorkerTypeOK'
  BY DEF GatewayTypeOK, gatewayVars, WorkerTypeOK
<1> USE DEF Elapse, StoreTypeOK
<1>2. age' \in [Ids -> 0..AdmitTTL]
  BY DEF Older
<1>3. idle' \in [Ids -> 0..ReclaimIdle]
  BY DEF Older
<1>4. mark' \in [Events -> Data \cup {None}] /\ markLeft' \in [Events -> 0..AdmitTTL]
  BY DEF Less
<1>5. done' \in [Keys -> 0..FinishTTL]
  BY DEF Less
<1>6. outputs' \in Seq(Output)
  <2>1. outputs' = [j \in DOMAIN outputs |-> outputs'[j]]
    OBVIOUS
  <2>2. ASSUME NEW j \in DOMAIN outputs PROVE outputs'[j] \in Output
    <3>1. outputs[j] \in Output
      BY SeqElement
    <3> QED BY <3>1, AgedOutput
  <2> QED BY <2>1, <2>2, ReplacedSeq
<1> QED BY <1>1, <1>2, <1>3, <1>4, <1>5, <1>6

LEMMA InjectType ==
    ASSUME TypeOK, Inject PROVE TypeOK'
<1> USE ConfigAssumption DEF TypeOK, Inject
<1>1. GatewayTypeOK' /\ WorkerTypeOK'
  BY DEF GatewayTypeOK, gatewayVars, WorkerTypeOK, workerVars
<1>2. nextId \in Ids /\ nextId' \in 1..(MaxEntries + 1)
  BY DEF XAdd, Ids, StoreTypeOK
<1>3. stream' \subseteq Ids /\ body' \in [Ids -> Message \cup {Poison, None}]
  BY <1>2 DEF XAdd, StoreTypeOK
<1> QED BY <1>1, <1>2, <1>3 DEF XAdd, StoreTypeOK, groupVars, markVars

LEMMA TypeStep == TypeOK /\ [Next]_vars => TypeOK'
<1> SUFFICES ASSUME TypeOK, [Next]_vars PROVE TypeOK'
  OBVIOUS
<1>1. CASE GatewayNext /\ UNCHANGED workerVars
  BY <1>1, GatewayTypeStep
<1>2. CASE WorkerNext /\ UNCHANGED gatewayVars
  BY <1>2, WorkerTypeStep DEF WorkerNext
<1>3. CASE Tick
  BY <1>3, TickType
<1>4. CASE Inject
  BY <1>4, InjectType
<1>5. CASE UNCHANGED vars
  BY <1>5 DEF vars, storeVars, streamVars, groupVars, markVars, gatewayVars,
              workerVars, TypeOK, StoreTypeOK, GatewayTypeOK, WorkerTypeOK
<1> QED BY <1>1, <1>2, <1>3, <1>4, <1>5 DEF Next

(* Every variable of the store, the gateways and the workers keeps its     *)
(* type in every reachable state.                                          *)
THEOREM TypeCorrect == Spec => []TypeOK
BY InitType, TypeStep, PTL DEF Spec

-----------------------------------------------------------------------------
(* What is on record.  Ids are handed out in order; whatever the group,    *)
(* the outputs, the workers or their abandoned commands name was appended  *)
(* before, and its body does not change.                                   *)
StoreOnRecord ==
    /\ \A i \in stream : i < nextId
    /\ last < nextId
    /\ \A i \in Ids : i < nextId => body[i] \in Message \cup {Poison}
    /\ \A i \in Ids : i >= nextId => age[i] = 0
    /\ \A j \in DOMAIN outputs : outputs[j].id < nextId

WorkOnRecord ==
    \A w \in Workers, i \in Ids : i \in wire[w] \cup stale[w] => i < nextId

(* The inductive invariant behind NoOrphanedDelivery: without the record,  *)
(* a FINISH of an id still to come would break it.                         *)
Delivery == TypeOK /\ StoreOnRecord /\ WorkOnRecord /\ NoOrphanedDelivery

(* The kinds of steps the store sees.                                      *)
Settling   == \E i \in Ids : i < nextId /\ (FinishSettles(i) \/ FinishFails(i))
Grouping   == CreateGroup /\ UNCHANGED <<streamVars, markVars, done, outputs>>
Delivering == /\ \E batch : ReadNew(batch) \/ \E from : AutoClaim(from, batch)
              /\ UNCHANGED <<group, streamVars, markVars, done, outputs>>

(* Every step but the clock's is one of these to the store.                *)
LEMMA TimelessKinds ==
    ASSUME TypeOK, WorkOnRecord, GatewayNext \/ WorkerNext \/ Inject
    PROVE  \/ UNCHANGED storeVars
           \/ \E r \in Requests : AdmitNew(r) \/ AdmitAppendFails(r)
           \/ Inject
           \/ Settling \/ Grouping \/ Delivering
<1>1. CASE GatewayNext
  BY <1>1 DEF GatewayNext, Refuse, Accept, AdmitScript, AdmitKnown, AdmitFull, Reply, Expire
<1>2. CASE WorkerNext
  <2> PICK w \in Workers : \/ WorkerStep(w)
                           \/ CycleBreaks(w) \/ Kill(w)
                           \/ RunStale(w) \/ LateClaim(w) \/ LateRead(w)
    BY <1>2 DEF WorkerNext
  <2>1. CASE Start(w) \/ Recover(w)
    BY <2>1 DEF Start, Recover, Grouping
  <2>2. CASE Claim(w)
    BY <2>2 DEF Claim, Delivering
  <2>3. CASE Read(w)
    BY <2>3 DEF Read, Delivering
  <2>4. CASE LateClaim(w) \/ LateRead(w)
    BY <2>4 DEF LateClaim, LateRead, Delivering
  <2>5. CASE RunFinish(w)
    <3>1. PICK i \in wire[w] : FinishSettles(i) \/ FinishFails(i)
      BY <2>5 DEF RunFinish
    <3>2. i \in Ids /\ i < nextId
      BY DEF TypeOK, WorkerTypeOK, WorkOnRecord
    <3> QED BY <3>1, <3>2 DEF Settling
  <2>6. CASE RunStale(w)
    <3>1. PICK i \in stale[w] : FinishSettles(i) \/ FinishFails(i)
      BY <2>6 DEF RunStale
    <3>2. i \in Ids /\ i < nextId
      BY DEF TypeOK, WorkerTypeOK, WorkOnRecord
    <3> QED BY <3>1, <3>2 DEF Settling
  <2>7. CASE Collect(w)
    BY <2>7 DEF Collect
  <2>8. CASE CycleBreaks(w) \/ Kill(w)
    BY <2>8 DEF CycleBreaks, Kill
  <2> QED BY <2>1, <2>2, <2>3, <2>4, <2>5, <2>6, <2>7, <2>8 DEF WorkerStep
<1> QED BY <1>1, <1>2

LEMMA StepKinds ==
    ASSUME TypeOK, WorkOnRecord, [Next]_vars
    PROVE  \/ UNCHANGED storeVars
           \/ \E r \in Requests : AdmitNew(r) \/ AdmitAppendFails(r)
           \/ Inject
           \/ Elapse
           \/ Settling \/ Grouping \/ Delivering
<1>1. CASE Tick
  BY <1>1 DEF Tick
<1>2. CASE UNCHANGED vars
  BY <1>2 DEF vars
<1> QED BY <1>1, <1>2, TimelessKinds DEF Next

(* What a FINISH can do to the streams and the group, whichever branch.    *)
LEMMA SettlingEffect ==
    ASSUME NEW i \in Ids, FinishSettles(i) \/ FinishFails(i)
    PROVE  /\ UNCHANGED <<body, age, nextId, group, last, markVars>>
           /\ \/ stream' = stream /\ pending' = pending
              \/ stream' = stream \ {i} /\ pending' = pending \ {i}
           /\ outputs' = outputs \/ outputs' = Append(outputs, [id |-> i, age |-> 0])
BY DEF FinishSettles, FinishKnown, FinishNew, FinishFails, XAckDel, markVars,
       streamVars, groupVars

(* The record only grows, and bodies on record do not change.              *)
LEMMA RecordStep ==
    ASSUME Delivery, [Next]_vars
    PROVE  /\ nextId' >= nextId
           /\ \A i \in Ids : i < nextId => body'[i] = body[i]
           /\ StoreOnRecord'
<1> USE DEF Delivery
<1>0. nextId \in 1..(MaxEntries + 1) /\ MaxEntries \in Nat /\ last \in 0..MaxEntries
  BY ConfigAssumption DEF TypeOK, StoreTypeOK
<1>1. CASE UNCHANGED storeVars
  BY <1>0, <1>1 DEF storeVars, streamVars, groupVars, StoreOnRecord
<1>2. ASSUME NEW m \in Message \cup {Poison}, XAdd(m), UNCHANGED <<outputs, groupVars>>
      PROVE  /\ nextId' >= nextId
             /\ \A i \in Ids : i < nextId => body'[i] = body[i]
             /\ StoreOnRecord'
  <2>1. nextId' = nextId + 1 /\ nextId \in Ids
    BY <1>0, <1>2 DEF XAdd, Ids
  <2>2. \A i \in Ids : i < nextId => body'[i] = body[i]
    BY <1>0, <1>2 DEF XAdd, TypeOK, StoreTypeOK, Ids
  <2>3. body'[nextId] = m
    BY <1>2, <2>1 DEF XAdd, TypeOK, StoreTypeOK
  <2>4. \A i \in Ids : i < nextId' => body'[i] \in Message \cup {Poison}
    BY <1>0, <2>1, <2>2, <2>3 DEF StoreOnRecord, Ids
  <2>5. \A i \in stream' : i < nextId'
    BY <1>0, <1>2, <2>1 DEF XAdd, StoreOnRecord, TypeOK, StoreTypeOK, Ids
  <2>6. last' < nextId'
    BY <1>0, <1>2, <2>1 DEF groupVars, StoreOnRecord
  <2>7. \A i \in Ids : i >= nextId' => age'[i] = 0
    BY <1>0, <1>2, <2>1 DEF XAdd, StoreOnRecord, Ids
  <2>8. \A j \in DOMAIN outputs' : outputs'[j].id < nextId'
    <3> SUFFICES ASSUME NEW j \in DOMAIN outputs PROVE outputs[j].id < nextId + 1
      BY <1>2, <2>1
    <3>1. outputs[j] \in Output
      BY SeqElement DEF TypeOK, StoreTypeOK
    <3> QED BY <1>0, <3>1 DEF Output, Ids, StoreOnRecord
  <2> QED BY <1>0, <2>1, <2>2, <2>4, <2>5, <2>6, <2>7, <2>8 DEF StoreOnRecord
<1>3. ASSUME NEW r \in Requests, AdmitNew(r)
      PROVE  /\ nextId' >= nextId
             /\ \A i \in Ids : i < nextId => body'[i] = body[i]
             /\ StoreOnRecord'
  <2>1. msg[r] \in Message
    BY <1>3 DEF AdmitNew, Sent, TypeOK, GatewayTypeOK
  <2> QED BY <1>2, <1>3, <2>1 DEF AdmitNew
<1>4. ASSUME NEW r \in Requests, AdmitAppendFails(r)
      PROVE  UNCHANGED <<streamVars, groupVars, outputs>>
  BY <1>4 DEF AdmitAppendFails
<1>5. CASE UNCHANGED <<streamVars, groupVars, outputs>>
  BY <1>0, <1>5 DEF streamVars, groupVars, StoreOnRecord
<1>6. CASE Inject
  BY <1>2, <1>6 DEF Inject
<1>7. CASE Elapse
  <2>1. \A i \in Ids : i >= nextId' => age'[i] = 0
    BY <1>0, <1>7 DEF Elapse, Ids
  <2>2. \A j \in DOMAIN outputs' : outputs'[j].id < nextId'
    <3> SUFFICES ASSUME NEW j \in DOMAIN outputs PROVE outputs'[j].id < nextId
      BY <1>7 DEF Elapse
    <3>1. outputs[j] \in Output
      BY SeqElement DEF TypeOK, StoreTypeOK
    <3>2. outputs'[j].id = outputs[j].id
      BY <1>7, <3>1 DEF Elapse, Output
    <3> QED BY <3>2 DEF StoreOnRecord
  <2> QED BY <1>0, <1>7, <2>1, <2>2 DEF Elapse, StoreOnRecord
<1>8. CASE Settling
  <2> PICK i \in Ids : i < nextId /\ (FinishSettles(i) \/ FinishFails(i))
    BY <1>8 DEF Settling
  <2>1. UNCHANGED <<body, age, nextId, last>> /\ stream' \subseteq stream
    BY SettlingEffect
  <2>2. \A j \in DOMAIN outputs' : outputs'[j].id < nextId'
    <3>1. CASE outputs' = outputs
      BY <2>1, <3>1 DEF StoreOnRecord
    <3>2. CASE outputs' = Append(outputs, [id |-> i, age |-> 0])
      <4>1. outputs \in Seq(Output)
        BY DEF TypeOK, StoreTypeOK
      <4>2. SUFFICES ASSUME NEW j \in DOMAIN outputs' PROVE outputs'[j].id < nextId
        BY <2>1
      <4>3. CASE j \in DOMAIN outputs
        BY <3>2, <4>1, <4>3 DEF StoreOnRecord
      <4>4. CASE j \notin DOMAIN outputs
        BY <3>2, <4>1, <4>4
      <4> QED BY <4>3, <4>4
    <3> QED BY <3>1, <3>2, SettlingEffect
  <2> QED BY <1>0, <2>1, <2>2 DEF StoreOnRecord
<1>9. CASE Grouping
  BY <1>0, <1>9 DEF Grouping, CreateGroup, streamVars, StoreOnRecord
<1>10. CASE Delivering
  <2>1. last' < nextId
    <3> PICK batch : ReadNew(batch) \/ \E from : AutoClaim(from, batch)
      BY <1>10 DEF Delivering
    <3>1. CASE ReadNew(batch)
      <4>1. batch \subseteq stream
        BY <3>1, ReadNewType DEF TypeOK
      <4> QED BY <3>1, <4>1 DEF ReadNew, StoreOnRecord
    <3>2. CASE \E from : AutoClaim(from, batch)
      BY <3>2 DEF AutoClaim, StoreOnRecord
    <3> QED BY <3>1, <3>2
  <2> QED BY <1>0, <1>10, <2>1 DEF Delivering, streamVars, StoreOnRecord
<1> QED
  BY <1>1, <1>3, <1>4, <1>5, <1>6, <1>7, <1>8, <1>9, <1>10, StepKinds

LEMMA WorkOnRecordStep ==
    ASSUME Delivery, [Next]_vars
    PROVE  WorkOnRecord'
<1> USE DEF Delivery
<1>0. nextId \in Nat /\ nextId' \in Nat /\ nextId' >= nextId
  <2>1. TypeOK'
    BY TypeStep
  <2> QED BY <2>1, RecordStep, ConfigAssumption DEF TypeOK, StoreTypeOK
<1>1. ASSUME UNCHANGED <<wire, stale>> PROVE WorkOnRecord'
  BY <1>0, <1>1 DEF WorkOnRecord, Ids
<1>2. ASSUME NEW w \in Workers, NEW batch \in SUBSET stream,
             wire' = [wire EXCEPT ![w] = batch], stale' = stale
      PROVE  WorkOnRecord'
  BY <1>0, <1>2 DEF WorkOnRecord, StoreOnRecord, TypeOK, WorkerTypeOK, Ids
<1>3. ASSUME NEW w \in Workers,
             \A v \in Workers : wire'[v] \cup stale'[v] \subseteq wire[v] \cup stale[v]
      PROVE  WorkOnRecord'
  BY <1>0, <1>3 DEF WorkOnRecord, Ids
<1>4. CASE GatewayNext /\ UNCHANGED workerVars
  BY <1>1, <1>4 DEF workerVars
<1>5. CASE WorkerNext
  <2> PICK w \in Workers : \/ WorkerStep(w)
                           \/ CycleBreaks(w) \/ Kill(w)
                           \/ RunStale(w) \/ LateClaim(w) \/ LateRead(w)
    BY <1>5 DEF WorkerNext
  <2>1. CASE Start(w) \/ Recover(w) \/ LateClaim(w) \/ LateRead(w) \/ Collect(w)
    BY <1>1, <2>1 DEF Start, Recover, LateClaim, LateRead, Collect
  <2>2. CASE Claim(w)
    <3>1. PICK batch \in SUBSET Ids :
             AutoClaim(cursor[w], batch) /\ wire' = [wire EXCEPT ![w] = batch]
      BY <2>2 DEF Claim
    <3>2. batch \subseteq stream
      BY <3>1, AutoClaimType DEF TypeOK, NoOrphanedDelivery
    <3> QED BY <1>2, <2>2, <3>1, <3>2 DEF Claim
  <2>3. CASE Read(w)
    <3>1. PICK batch \in SUBSET Ids :
             ReadNew(batch) /\ wire' = [wire EXCEPT ![w] = batch]
      BY <2>3 DEF Read
    <3>2. batch \subseteq stream
      BY <3>1, ReadNewType DEF TypeOK
    <3> QED BY <1>2, <2>3, <3>1, <3>2 DEF Read
  <2>4. CASE RunFinish(w)
    BY <1>3, <2>4 DEF RunFinish, TypeOK, WorkerTypeOK
  <2>5. CASE RunStale(w)
    BY <1>3, <2>5 DEF RunStale, TypeOK, WorkerTypeOK
  <2>6. ASSUME Abandon(w) PROVE WorkOnRecord'
    BY <1>3, <2>6 DEF Abandon, TypeOK, WorkerTypeOK
  <2> QED BY <2>1, <2>2, <2>3, <2>4, <2>5, <2>6 DEF WorkerStep, CycleBreaks, Kill
<1>6. CASE Tick \/ Inject \/ UNCHANGED vars
  BY <1>1, <1>6 DEF Tick, Inject, vars, workerVars
<1> QED BY <1>4, <1>5, <1>6 DEF Next

(* A read takes a prefix of what was not delivered: an undelivered entry   *)
(* up to the last one taken is taken too.                                  *)
LEMMA FirstIsPrefix ==
    ASSUME NEW S \in SUBSET Ids, NEW n \in Nat,
           NEW m \in First(S, n), NEW i \in S, i <= m
    PROVE  i \in First(S, n)
<1>1. IsFiniteSet(S)
  <2>1. IsFiniteSet(Ids)
    BY ConfigAssumption, FS_Interval DEF Ids
  <2> QED BY <2>1, FS_Subset
<1> DEFINE Before(k) == {j \in S : j < k}
<1>2. Before(i) \subseteq Before(m) /\ Before(m) \subseteq S
  <2>1. m \in S /\ S \subseteq Int
    BY ConfigAssumption DEF Ids, First
  <2>2. \A j \in S : j < i => j < m
    BY <2>1
  <2> QED BY <2>2
<1>3. IsFiniteSet(Before(m)) /\ IsFiniteSet(Before(i))
  BY <1>1, <1>2, FS_Subset
<1>4. Cardinality(Before(i)) <= Cardinality(Before(m))
  BY <1>2, <1>3, FS_Subset
<1>5. Cardinality(Before(i)) \in Nat /\ Cardinality(Before(m)) \in Nat
  BY <1>3, FS_CardinalityType
<1>6. Cardinality(Before(m)) < n
  BY DEF First
<1> QED BY <1>4, <1>5, <1>6 DEF First

LEMMA OrphanStep ==
    ASSUME Delivery, [Next]_vars
    PROVE  NoOrphanedDelivery'
<1> USE DEF Delivery
<1>0. nextId \in 1..(MaxEntries + 1) /\ MaxEntries \in Nat /\ last \in 0..MaxEntries
      /\ stream \subseteq Ids
  BY ConfigAssumption DEF TypeOK, StoreTypeOK
<1>1. CASE UNCHANGED <<stream, groupVars>>
  BY <1>1 DEF groupVars, NoOrphanedDelivery
<1>2. ASSUME NEW m, XAdd(m), UNCHANGED groupVars PROVE NoOrphanedDelivery'
  <2>1. last < nextId
    BY DEF StoreOnRecord
  <2> QED BY <1>0, <1>2, <2>1 DEF XAdd, groupVars, NoOrphanedDelivery
<1>3. ASSUME NEW r \in Requests, AdmitNew(r) PROVE NoOrphanedDelivery'
  BY <1>2, <1>3 DEF AdmitNew
<1>4. ASSUME NEW r \in Requests, AdmitAppendFails(r) PROVE NoOrphanedDelivery'
  BY <1>1, <1>4 DEF AdmitAppendFails, streamVars
<1>5. CASE Inject
  BY <1>2, <1>5 DEF Inject
<1>6. CASE Elapse
  BY <1>6 DEF Elapse, NoOrphanedDelivery
<1>7. CASE Settling
  <2>1. PICK i \in Ids : FinishSettles(i) \/ FinishFails(i)
    BY <1>7 DEF Settling
  <2>2. /\ UNCHANGED <<group, last>>
        /\ \/ stream' = stream /\ pending' = pending
           \/ stream' = stream \ {i} /\ pending' = pending \ {i}
    BY <2>1, SettlingEffect
  <2> QED BY <2>2 DEF NoOrphanedDelivery
<1>8. CASE Grouping
  BY <1>0, <1>8 DEF Grouping, CreateGroup, streamVars, NoOrphanedDelivery
<1>9. CASE Delivering
  <2>1. PICK batch : ReadNew(batch) \/ \E from : AutoClaim(from, batch)
    BY <1>9 DEF Delivering
  <2>2. stream' = stream /\ group' = group
    BY <1>9 DEF Delivering, streamVars
  <2>3. CASE \E from : AutoClaim(from, batch)
    BY <2>2, <2>3, AutoClaimType DEF NoOrphanedDelivery, TypeOK
  <2>4. CASE ReadNew(batch) /\ batch = {}
    BY <2>2, <2>4 DEF ReadNew, Deliver, NoOrphanedDelivery
  <2>5. CASE ReadNew(batch) /\ batch # {}
    <3>1. /\ batch = First(Fresh, Batch) /\ last' \in batch
          /\ \A i \in batch : i <= last'
          /\ pending' = pending \cup batch /\ group
      BY <2>5 DEF ReadNew, Deliver
    <3>2. Fresh \in SUBSET Ids /\ Batch \in Nat
      BY <1>0, ConfigAssumption DEF Fresh
    <3>3. \A i \in Fresh : i <= last' <=> i \in batch
      BY <3>1, <3>2, FirstIsPrefix
    <3>4. last' \in Fresh
      BY <3>1 DEF First
    <3>5. batch \subseteq Fresh
      BY <3>1 DEF First
    <3>6. \A i \in stream : i <= last' <=> i <= last \/ i \in batch
      BY <1>0, <3>3, <3>4, <3>5 DEF Fresh, Ids
    <3>7. pending' = {i \in stream : i <= last'}
      BY <3>1, <3>5, <3>6 DEF NoOrphanedDelivery, Fresh
    <3> QED BY <2>2, <3>1, <3>7 DEF NoOrphanedDelivery
  <2> QED BY <2>1, <2>3, <2>4, <2>5
<1> QED
  <2>1. ASSUME UNCHANGED storeVars PROVE NoOrphanedDelivery'
    BY <1>1, <2>1 DEF storeVars, streamVars
  <2> QED BY <1>3, <1>4, <1>5, <1>6, <1>7, <1>8, <1>9, <2>1, StepKinds

LEMMA DeliveryInit == Init => Delivery
<1> SUFFICES ASSUME Init PROVE Delivery
  OBVIOUS
<1>1. TypeOK
  BY InitType
<1>2. StoreOnRecord
  BY ConfigAssumption DEF Init, StoreInit, StoreOnRecord, Ids
<1>3. WorkOnRecord
  BY DEF Init, WorkerInit, WorkOnRecord
<1>4. NoOrphanedDelivery
  BY DEF Init, StoreInit, NoOrphanedDelivery
<1> QED BY <1>1, <1>2, <1>3, <1>4 DEF Delivery

LEMMA DeliveryStep == Delivery /\ [Next]_vars => Delivery'
BY TypeStep, RecordStep, WorkOnRecordStep, OrphanStep DEF Delivery

LEMMA DeliveryHolds == Spec => []Delivery
BY DeliveryInit, DeliveryStep, PTL DEF Spec

(* No delivery is orphaned, for any number of workers, entries, failures   *)
(* and abandoned commands: what the group was handed is pending exactly    *)
(* until a FINISH deletes it, so XAUTOCLAIM can find it.                   *)
THEOREM NoOrphanedDeliveryHolds == Spec => []NoOrphanedDelivery
BY DeliveryHolds, PTL DEF Delivery

-----------------------------------------------------------------------------
(* Completion.  A decision younger than the retention has a live marker    *)
(* that expires when the retention of the decision does, and a live marker *)
(* has a decision: that is why a redelivered entry whose marker is found   *)
(* may be deleted, and one whose marker is not found may be decided.       *)
CompletionMarked ==
    \A j \in DOMAIN outputs :
        outputs[j].age < FinishTTL
            => done[Key(outputs[j].id)] = FinishTTL - outputs[j].age

MarkersDecided ==
    \A k \in Keys : done[k] > 0 =>
        \E j \in DOMAIN outputs :
            /\ Key(outputs[j].id) = k
            /\ outputs[j].age + done[k] = FinishTTL

Marking ==
    /\ Delivery
    /\ CompletionMarked /\ MarkersDecided
    /\ OneDecisionPerWindow

Completion == Marking /\ SettledHasOutcome

HasOutcome(i) == \E j \in DOMAIN outputs : Key(outputs[j].id) = Key(i)

LEMMA OutputFacts ==
    ASSUME Delivery, NEW j \in DOMAIN outputs
    PROVE  /\ outputs[j].id \in Ids /\ outputs[j].id < nextId
           /\ outputs[j].age \in 0..FinishTTL
<1>1. outputs[j] \in Output
  BY SeqElement DEF Delivery, TypeOK, StoreTypeOK
<1> QED BY <1>1 DEF Output, Delivery, StoreOnRecord

LEMMA KeyStable ==
    ASSUME Delivery, [Next]_vars, NEW i \in Ids, i < nextId
    PROVE  Key(i)' = Key(i) /\ Key(i) \in Keys
<1>1. body'[i] = body[i]
  BY RecordStep
<1>2. body[i] \in Message \cup {Poison}
  BY DEF Delivery, StoreOnRecord
<1> QED BY <1>1, <1>2 DEF Key, Keys, Message

(* A step that neither publishes nor touches a completion marker.          *)
LEMMA MarkingUntouched ==
    ASSUME Marking, [Next]_vars, UNCHANGED <<done, outputs>>
    PROVE  Marking'
<1> USE DEF Marking
<1>1. Delivery'
  BY DeliveryStep
<1>2. \A j \in DOMAIN outputs : Key(outputs[j].id)' = Key(outputs[j].id)
  BY OutputFacts, KeyStable
<1>3. CompletionMarked'
  BY <1>2 DEF CompletionMarked
<1>4. MarkersDecided'
  BY <1>2 DEF MarkersDecided
<1>5. OneDecisionPerWindow'
  BY <1>2 DEF OneDecisionPerWindow
<1> QED BY <1>1, <1>3, <1>4, <1>5

LEMMA MarkingElapse ==
    ASSUME Marking, [Next]_vars, Elapse
    PROVE  Marking'
<1> USE DEF Marking
<1>0. FinishTTL \in Nat \ {0} /\ done \in [Keys -> 0..FinishTTL]
  BY ConfigAssumption DEF Delivery, TypeOK, StoreTypeOK
<1>1. Delivery'
  BY DeliveryStep
<1>2. DOMAIN outputs' = DOMAIN outputs /\ nextId' = nextId /\ stream' = stream
  BY DEF Elapse
<1>3. ASSUME NEW j \in DOMAIN outputs
      PROVE  /\ outputs'[j].id = outputs[j].id
             /\ outputs'[j].age = Older(outputs[j].age, FinishTTL)
             /\ Key(outputs[j].id)' = Key(outputs[j].id)
             /\ Key(outputs[j].id) \in Keys
  <2>1. outputs[j] \in Output
    BY SeqElement DEF Delivery, TypeOK, StoreTypeOK
  <2>2. outputs'[j] = [outputs[j] EXCEPT !.age = Older(@, FinishTTL)]
    BY DEF Elapse
  <2>3. outputs'[j].id = outputs[j].id /\ outputs'[j].age = Older(outputs[j].age, FinishTTL)
    BY <2>1, <2>2 DEF Output
  <2> QED BY <2>3, OutputFacts, KeyStable
<1>4. \A k \in Keys : done'[k] = Less(done[k])
  BY DEF Elapse
<1>5. CompletionMarked'
  <2> SUFFICES ASSUME NEW j \in DOMAIN outputs, outputs'[j].age < FinishTTL
               PROVE  done'[Key(outputs[j].id)'] = FinishTTL - outputs'[j].age
    BY <1>2 DEF CompletionMarked
  <2>1. outputs[j].age \in 0..FinishTTL
    BY OutputFacts
  <2>2. outputs[j].age < FinishTTL /\ outputs'[j].age = outputs[j].age + 1
    BY <1>0, <1>3, <2>1 DEF Older
  <2>3. done[Key(outputs[j].id)] = FinishTTL - outputs[j].age
    BY <2>2 DEF CompletionMarked
  <2> QED BY <1>0, <1>3, <1>4, <2>1, <2>2, <2>3 DEF Less
<1>6. MarkersDecided'
  <2> SUFFICES ASSUME NEW k \in Keys, done'[k] > 0
               PROVE  \E j \in DOMAIN outputs :
                         /\ Key(outputs[j].id)' = k
                         /\ outputs'[j].age + done'[k] = FinishTTL
    BY <1>2 DEF MarkersDecided
  <2>1. done[k] \in 1..FinishTTL /\ done'[k] = done[k] - 1
    BY <1>0, <1>4 DEF Less
  <2>2. PICK j \in DOMAIN outputs :
           Key(outputs[j].id) = k /\ outputs[j].age + done[k] = FinishTTL
    BY <2>1 DEF MarkersDecided
  <2>3. outputs[j].age \in 0..FinishTTL
    BY OutputFacts
  <2>4. outputs'[j].age = outputs[j].age + 1
    BY <1>0, <1>3, <2>1, <2>2, <2>3 DEF Older
  <2> QED BY <1>0, <1>3, <2>1, <2>2, <2>3, <2>4
<1>7. OneDecisionPerWindow'
  <2> SUFFICES ASSUME NEW j \in DOMAIN outputs, NEW k \in DOMAIN outputs, j < k,
                      Key(outputs[j].id)' = Key(outputs[k].id)'
               PROVE  outputs'[j].age = FinishTTL
    BY <1>2 DEF OneDecisionPerWindow
  <2>1. outputs[j].age = FinishTTL
    BY <1>3 DEF OneDecisionPerWindow
  <2> QED BY <1>0, <1>3, <2>1 DEF Older
<1> QED BY <1>1, <1>5, <1>6, <1>7

LEMMA MarkingSettling ==
    ASSUME Marking, [Next]_vars, Settling
    PROVE  Marking'
<1> USE DEF Marking
<1>0. /\ FinishTTL \in Nat \ {0} /\ done \in [Keys -> 0..FinishTTL]
      /\ outputs \in Seq(Output)
  BY ConfigAssumption DEF Delivery, TypeOK, StoreTypeOK
<1>1. Delivery'
  BY DeliveryStep
<1> PICK i \in Ids : i < nextId /\ (FinishSettles(i) \/ FinishFails(i))
  BY DEF Settling
<1>2. Key(i)' = Key(i) /\ Key(i) \in Keys
  BY KeyStable
<1>3. \A j \in DOMAIN outputs : Key(outputs[j].id)' = Key(outputs[j].id) /\ Key(outputs[j].id) \in Keys
  <2> TAKE j \in DOMAIN outputs
  <2>1. outputs'[j] = outputs[j]
    <3>1. outputs' = outputs \/ outputs' = Append(outputs, [id |-> i, age |-> 0])
      BY SettlingEffect
    <3> QED BY <1>0, <3>1
  <2> QED BY <2>1, OutputFacts, KeyStable
<1>4. CASE FinishKnown(i)
  <2>1. UNCHANGED <<done, outputs>> /\ done[Key(i)] > 0
    BY <1>4 DEF FinishKnown, Decided
  <2>2. CompletionMarked' /\ MarkersDecided' /\ OneDecisionPerWindow'
    BY <1>3, <2>1 DEF CompletionMarked, MarkersDecided, OneDecisionPerWindow
  <2> QED BY <1>1, <2>2
<1>5. CASE FinishFails(i)
  <2>1. UNCHANGED outputs
    BY <1>5 DEF FinishFails
  <2>2. done' = done
    <3>1. done[Key(i)] = 0
      BY <1>0, <1>2, <1>5 DEF FinishFails, Decided
    <3>2. done' = [done EXCEPT ![Key(i)] = 0]
      BY <1>5 DEF FinishFails
    <3> QED BY <1>0, <3>1, <3>2
  <2> QED BY <2>1, <2>2, MarkingUntouched
<1>6. CASE FinishNew(i)
  <2> DEFINE n == Len(outputs) + 1
  <2>1. /\ DOMAIN outputs' = DOMAIN outputs \cup {n} /\ n \notin DOMAIN outputs
        /\ \A j \in DOMAIN outputs : outputs'[j] = outputs[j] /\ j < n
        /\ outputs'[n].id = i /\ outputs'[n].age = 0
    BY <1>0, <1>6 DEF FinishNew
  <2>2. done[Key(i)] = 0
    BY <1>0, <1>2, <1>6 DEF FinishNew, Decided
  <2>3. \A k \in Keys : done'[k] = IF k = Key(i) THEN FinishTTL ELSE done[k]
    BY <1>0, <1>6 DEF FinishNew
  <2>4. ASSUME NEW j \in DOMAIN outputs, Key(outputs[j].id) = Key(i)
        PROVE  outputs[j].age = FinishTTL
    <3>1. outputs[j].age \in 0..FinishTTL
      BY OutputFacts
    <3> QED BY <1>0, <2>2, <2>4, <3>1 DEF CompletionMarked
  <2> HIDE DEF n
  <2>5. CompletionMarked'
    <3> SUFFICES ASSUME NEW j \in DOMAIN outputs', outputs'[j].age < FinishTTL
                 PROVE  done'[Key(outputs[j].id)'] = FinishTTL - outputs'[j].age
      BY DEF CompletionMarked
    <3>1. CASE j = n
      BY <1>0, <1>2, <2>1, <2>3, <3>1
    <3>2. CASE j \in DOMAIN outputs
      <4>1. Key(outputs[j].id) # Key(i)
        BY <1>0, <2>1, <2>4, <3>2
      <4> QED BY <1>3, <2>1, <2>3, <3>2, <4>1 DEF CompletionMarked
    <3> QED BY <2>1, <3>1, <3>2
  <2>6. MarkersDecided'
    <3> SUFFICES ASSUME NEW k \in Keys, done'[k] > 0
                 PROVE  \E j \in DOMAIN outputs' :
                           /\ Key(outputs[j].id)' = k
                           /\ outputs'[j].age + done'[k] = FinishTTL
      BY DEF MarkersDecided
    <3>1. CASE k = Key(i)
      BY <1>0, <1>2, <2>1, <2>3, <3>1
    <3>2. CASE k # Key(i)
      BY <1>3, <2>1, <2>3, <3>2 DEF MarkersDecided
    <3> QED BY <3>1, <3>2
  <2>7. OneDecisionPerWindow'
    <3> SUFFICES ASSUME NEW j \in DOMAIN outputs', NEW k \in DOMAIN outputs', j < k,
                        Key(outputs[j].id)' = Key(outputs[k].id)'
                 PROVE  outputs'[j].age = FinishTTL
      BY DEF OneDecisionPerWindow
    <3>1. j \in DOMAIN outputs
      <4>1. n \in Nat /\ DOMAIN outputs \subseteq Nat
        BY <1>0 DEF n
      <4> QED BY <2>1, <4>1
    <3>2. CASE k \in DOMAIN outputs
      BY <1>3, <2>1, <3>1, <3>2 DEF OneDecisionPerWindow
    <3>3. CASE k = n
      BY <1>2, <1>3, <2>1, <2>4, <3>1, <3>3
    <3> QED BY <2>1, <3>2, <3>3
  <2> QED BY <1>1, <2>5, <2>6, <2>7
<1> QED BY <1>4, <1>5, <1>6 DEF FinishSettles

LEMMA MarkingStep ==
    ASSUME Marking, [Next]_vars
    PROVE  Marking'
<1>0. TypeOK /\ WorkOnRecord
  BY DEF Marking, Delivery
<1>1. CASE UNCHANGED <<done, outputs>>
  BY <1>1, MarkingUntouched
<1>2. ASSUME NEW r \in Requests, AdmitNew(r) \/ AdmitAppendFails(r)
      PROVE  UNCHANGED <<done, outputs>>
  BY <1>2 DEF AdmitNew, AdmitAppendFails
<1>3. CASE UNCHANGED storeVars \/ Inject \/ Grouping \/ Delivering
  BY <1>1, <1>3 DEF storeVars, Inject, Grouping, Delivering
<1> QED BY <1>0, <1>1, <1>2, <1>3, StepKinds, MarkingElapse, MarkingSettling

(* What has been published stays published.                                *)
LEMMA PublishedStays ==
    ASSUME Delivery, [Next]_vars, NEW j \in DOMAIN outputs
    PROVE  /\ j \in DOMAIN outputs' /\ outputs'[j].id = outputs[j].id
           /\ Key(outputs[j].id)' = Key(outputs[j].id)
<1>0. TypeOK /\ WorkOnRecord /\ outputs \in Seq(Output) /\ outputs[j] \in Output
  BY SeqElement DEF Delivery, TypeOK, StoreTypeOK
<1>1. j \in DOMAIN outputs' /\ outputs'[j].id = outputs[j].id
  <2>1. CASE UNCHANGED outputs
    BY <2>1
  <2>2. CASE Elapse
    BY <1>0, <2>2 DEF Elapse, Output
  <2>3. CASE Settling
    <3>1. PICK i \in Ids : outputs' = outputs \/ outputs' = Append(outputs, [id |-> i, age |-> 0])
      BY <2>3, SettlingEffect DEF Settling
    <3> QED BY <1>0, <3>1
  <2>4. ASSUME NEW r \in Requests, AdmitNew(r) \/ AdmitAppendFails(r) PROVE UNCHANGED outputs
    BY <2>4 DEF AdmitNew, AdmitAppendFails
  <2>5. CASE UNCHANGED storeVars \/ Inject \/ Grouping \/ Delivering
    BY <2>1, <2>5 DEF storeVars, Inject, Grouping, Delivering
  <2> QED BY <1>0, <2>1, <2>2, <2>3, <2>4, <2>5, StepKinds
<1> QED BY <1>1, OutputFacts, KeyStable

(* Only a FINISH takes an entry out of the stream.                         *)
LEMMA LeavesBySettling ==
    ASSUME Delivery, [Next]_vars, NEW i \in Ids, i < nextId', i \notin stream'
    PROVE  i < nextId /\ (i \in stream => FinishSettles(i))
<1>0. nextId \in Nat /\ i \in Nat
  BY ConfigAssumption DEF Delivery, TypeOK, StoreTypeOK, Ids
<1>1. ASSUME NEW m, XAdd(m) PROVE i < nextId /\ i \notin stream
  BY <1>0, <1>1 DEF XAdd
<1>2. ASSUME NEW r \in Requests, AdmitNew(r) \/ AdmitAppendFails(r)
      PROVE  i < nextId /\ i \notin stream
  <2>1. CASE AdmitNew(r)
    BY <1>1, <2>1 DEF AdmitNew
  <2>2. CASE AdmitAppendFails(r)
    BY <2>2 DEF AdmitAppendFails, streamVars
  <2> QED BY <1>2, <2>1, <2>2
<1>3. CASE UNCHANGED storeVars \/ Inject \/ Grouping \/ Delivering \/ Elapse
  BY <1>1, <1>3 DEF storeVars, streamVars, Inject, Grouping, Delivering, Elapse
<1>4. CASE Settling
  <2> PICK k \in Ids : FinishSettles(k) \/ FinishFails(k)
    BY <1>4 DEF Settling
  <2>1. nextId' = nextId /\ (stream' = stream \/ stream' = stream \ {k})
    BY SettlingEffect
  <2>2. FinishFails(k) => stream' = stream
    BY DEF FinishFails, streamVars
  <2> QED BY <2>1, <2>2
<1> QED BY <1>2, <1>3, <1>4, StepKinds DEF Delivery

(* An entry that leaves the stream has an outcome: FINISH publishes one or *)
(* has found the marker of one.                                            *)
LEMMA OutcomeStep ==
    ASSUME Marking, [Next]_vars, NEW i \in Ids, i < nextId', i \notin stream',
           i < nextId /\ i \notin stream => HasOutcome(i)
    PROVE  HasOutcome(i)'
<1>1. Delivery
  BY DEF Marking
<1>2. i < nextId /\ (i \in stream => FinishSettles(i))
  BY <1>1, LeavesBySettling
<1>3. Key(i)' = Key(i) /\ Key(i) \in Keys
  BY <1>1, <1>2, KeyStable
<1>4. CASE HasOutcome(i)
  <2>1. PICK j \in DOMAIN outputs : Key(outputs[j].id) = Key(i)
    BY <1>4 DEF HasOutcome
  <2> QED BY <1>1, <1>3, <2>1, PublishedStays DEF HasOutcome
<1>5. CASE FinishKnown(i)
  <2>1. done[Key(i)] > 0
    BY <1>5 DEF FinishKnown, Decided
  <2>2. HasOutcome(i)
    BY <1>3, <2>1 DEF Marking, MarkersDecided, HasOutcome
  <2> QED BY <1>4, <2>2
<1>6. CASE FinishNew(i)
  <2>1. outputs \in Seq(Output)
    BY <1>1 DEF Delivery, TypeOK, StoreTypeOK
  <2>2. /\ Len(outputs) + 1 \in DOMAIN outputs'
        /\ outputs'[Len(outputs) + 1].id = i
    BY <1>6, <2>1 DEF FinishNew
  <2> QED BY <2>2 DEF HasOutcome
<1> QED BY <1>2, <1>4, <1>5, <1>6 DEF FinishSettles

LEMMA CompletionStep == Completion /\ [Next]_vars => Completion'
<1> SUFFICES ASSUME Completion, [Next]_vars PROVE Completion'
  OBVIOUS
<1>1. Marking'
  BY MarkingStep DEF Completion
<1>2. ASSUME NEW i \in Ids, i < nextId', i \notin stream' PROVE HasOutcome(i)'
  BY <1>2, OutcomeStep DEF Completion, SettledHasOutcome, HasOutcome
<1>3. SettledHasOutcome'
  BY <1>2 DEF SettledHasOutcome, HasOutcome
<1> QED BY <1>1, <1>3 DEF Completion

LEMMA CompletionInit == Init => Completion
<1> SUFFICES ASSUME Init PROVE Completion
  OBVIOUS
<1>1. DOMAIN outputs = {} /\ \A k \in Keys : done[k] = 0
  BY DEF Init, StoreInit
<1>2. \A i \in Ids : ~(i < nextId)
  BY ConfigAssumption DEF Init, StoreInit, Ids
<1> QED BY <1>1, <1>2, DeliveryInit
        DEF Completion, Marking, CompletionMarked, MarkersDecided,
            OneDecisionPerWindow, SettledHasOutcome

LEMMA CompletionHolds == Spec => []Completion
BY CompletionInit, CompletionStep, PTL DEF Spec

(* No event id is decided twice within the retention, and no undecodable   *)
(* entry dead-lettered twice, whatever is redelivered or executed late.    *)
THEOREM OneDecisionPerWindowHolds == Spec => []OneDecisionPerWindow
BY CompletionHolds, PTL DEF Completion, Marking

(* Nothing leaves the stream without a decision on its event id, or a dead *)
(* letter of its own.                                                      *)
THEOREM SettledHasOutcomeHolds == Spec => []SettledHasOutcome
BY CompletionHolds, PTL DEF Completion

-----------------------------------------------------------------------------
(* Admission.  An entry younger than the retention has its event id bound  *)
(* to its own payload, by a marker that expires when the entry's retention *)
(* does; a marker exists exactly while it has time left.                   *)
FreshIsMarked ==
    \A i \in Admitted : age[i] < AdmitTTL =>
        /\ mark[body[i].event] = body[i].data
        /\ markLeft[body[i].event] = AdmitTTL - age[i]

MarkerHasTime == \A e \in Events : mark[e] = None <=> markLeft[e] = 0

Admission ==
    /\ Delivery
    /\ FreshIsMarked /\ MarkerHasTime
    /\ OneAdmissionPerWindow /\ MarkerIsBacked

LEMMA AdmittedIsMessage ==
    ASSUME Delivery, NEW i \in Admitted
    PROVE  /\ body[i] \in Message /\ body[i].event \in Events /\ body[i].data \in Data
           /\ i \in Ids /\ i < nextId /\ age[i] \in 0..AdmitTTL
BY DEF Admitted, Delivery, StoreOnRecord, TypeOK, StoreTypeOK, Message

LEMMA AdmittedStays ==
    ASSUME Delivery, [Next]_vars, NEW i \in Admitted
    PROVE  i \in Admitted' /\ body'[i] = body[i]
<1>1. nextId \in Int /\ nextId' \in Int /\ Ids \subseteq Int /\ Ids' = Ids
  <2>1. TypeOK /\ TypeOK'
    BY TypeStep DEF Delivery
  <2> QED BY <2>1, ConfigAssumption DEF TypeOK, StoreTypeOK, Ids
<1> QED BY <1>1, RecordStep DEF Admitted

(* A step that changes neither the record nor the markers.                 *)
LEMMA AdmissionUntouched ==
    ASSUME Admission, [Next]_vars, UNCHANGED <<body, age, nextId, markVars>>
    PROVE  Admission'
<1>1. Delivery'
  BY DeliveryStep DEF Admission
<1>2. Admitted' = Admitted
  BY DEF Admitted
<1> QED BY <1>1, <1>2
        DEF Admission, markVars, FreshIsMarked, MarkerHasTime,
            OneAdmissionPerWindow, MarkerIsBacked

LEMMA AdmissionElapse ==
    ASSUME Admission, [Next]_vars, Elapse
    PROVE  Admission'
<1> USE DEF Admission
<1>0. /\ AdmitTTL \in Nat \ {0} /\ markLeft \in [Events -> 0..AdmitTTL]
      /\ mark \in [Events -> Data \cup {None}] /\ None \notin Data
  BY ConfigAssumption, NamesAssumption DEF Delivery, TypeOK, StoreTypeOK
<1>1. Delivery'
  BY DeliveryStep
<1>2. Admitted' = Admitted /\ body' = body
  BY DEF Elapse, Admitted
<1>3. \A i \in Admitted : age'[i] = Older(age[i], AdmitTTL) /\ age[i] \in 0..AdmitTTL
  BY AdmittedIsMessage DEF Elapse
<1>4. \A e \in Events : /\ markLeft'[e] = Less(markLeft[e])
                        /\ mark'[e] = IF markLeft[e] <= 1 THEN None ELSE mark[e]
  BY DEF Elapse
<1>5. FreshIsMarked'
  <2> SUFFICES ASSUME NEW i \in Admitted, age'[i] < AdmitTTL
               PROVE  /\ mark'[body[i].event] = body[i].data
                      /\ markLeft'[body[i].event] = AdmitTTL - age'[i]
    BY <1>2 DEF FreshIsMarked
  <2>1. age[i] < AdmitTTL /\ age'[i] = age[i] + 1 /\ age[i] \in 0..AdmitTTL
    BY <1>0, <1>3 DEF Older
  <2>2. /\ mark[body[i].event] = body[i].data
        /\ markLeft[body[i].event] = AdmitTTL - age[i]
    BY <2>1 DEF FreshIsMarked
  <2>3. body[i].event \in Events
    BY AdmittedIsMessage
  <2>4. markLeft[body[i].event] > 1
    BY <1>0, <2>1, <2>2
  <2> QED BY <1>0, <1>4, <2>1, <2>2, <2>3, <2>4 DEF Less
<1>6. MarkerHasTime'
  <2> SUFFICES ASSUME NEW e \in Events PROVE mark'[e] = None <=> markLeft'[e] = 0
    BY DEF MarkerHasTime
  <2>1. markLeft[e] \in 0..AdmitTTL /\ (mark[e] = None <=> markLeft[e] = 0)
    BY <1>0 DEF MarkerHasTime
  <2> QED BY <1>0, <1>4, <2>1 DEF Less
<1>7. OneAdmissionPerWindow'
  BY <1>0, <1>2, <1>3 DEF OneAdmissionPerWindow, Older
<1>8. MarkerIsBacked'
  <2> SUFFICES ASSUME NEW e \in Events, mark'[e] # None
               PROVE  \E i \in Admitted : /\ body[i] = [event |-> e, data |-> mark'[e]]
                                          /\ age'[i] + markLeft'[e] = AdmitTTL
    BY <1>2 DEF MarkerIsBacked
  <2>1. mark'[e] = mark[e] /\ mark[e] # None /\ markLeft[e] \in 2..AdmitTTL
    BY <1>0, <1>4
  <2>2. PICK i \in Admitted : /\ body[i] = [event |-> e, data |-> mark[e]]
                              /\ age[i] + markLeft[e] = AdmitTTL
    BY <2>1 DEF MarkerIsBacked
  <2>3. age'[i] = age[i] + 1 /\ markLeft'[e] = markLeft[e] - 1 /\ age[i] \in 0..AdmitTTL
    BY <1>0, <1>3, <1>4, <2>1, <2>2 DEF Older, Less
  <2> QED BY <1>0, <2>1, <2>2, <2>3
<1> QED BY <1>1, <1>5, <1>6, <1>7, <1>8

LEMMA AdmissionNew ==
    ASSUME Admission, [Next]_vars, NEW r \in Requests, AdmitNew(r)
    PROVE  Admission'
<1> USE DEF Admission
<1>0. /\ AdmitTTL \in Nat \ {0} /\ markLeft \in [Events -> 0..AdmitTTL]
      /\ mark \in [Events -> Data \cup {None}] /\ None \notin Data
      /\ nextId \in 1..(MaxEntries + 1) /\ MaxEntries \in Nat
      /\ body \in [Ids -> Message \cup {Poison, None}]
      /\ Poison \notin Message
  BY ConfigAssumption, NamesAssumption DEF Delivery, TypeOK, StoreTypeOK
<1>1. Delivery'
  BY DeliveryStep
<1> DEFINE n == nextId
           e == msg[r].event
           d == msg[r].data
<1>2. msg[r] \in Message /\ e \in Events /\ d \in Data /\ msg[r] = [event |-> e, data |-> d]
  BY DEF AdmitNew, Sent, Delivery, TypeOK, GatewayTypeOK, Message
<1>3. /\ n \in Ids /\ nextId' = n + 1 /\ age' = age /\ age[n] = 0
      /\ body' = [body EXCEPT ![n] = msg[r]]
  BY <1>0 DEF AdmitNew, XAdd, Ids, Delivery, StoreOnRecord
<1>4. mark[e] = None /\ markLeft[e] = 0
  BY <1>2 DEF AdmitNew, Prior, MarkerHasTime
<1>5. /\ \A f \in Events : f # e => mark'[f] = mark[f] /\ markLeft'[f] = markLeft[f]
      /\ mark'[e] = d /\ markLeft'[e] = AdmitTTL
  BY <1>0, <1>2 DEF AdmitNew
<1>6. /\ Admitted' = Admitted \cup {n} /\ n \notin Admitted
      /\ body'[n] = msg[r] /\ \A i \in Admitted : body'[i] = body[i] /\ i < n
  BY <1>0, <1>2, <1>3 DEF Admitted, Ids
<1>7. ASSUME NEW i \in Admitted, body[i].event = e PROVE age[i] = AdmitTTL
  <2>1. age[i] \in 0..AdmitTTL
    BY AdmittedIsMessage
  <2> QED BY <1>0, <1>4, <1>7, <2>1 DEF FreshIsMarked
<1> HIDE DEF n, e, d
<1>8. FreshIsMarked'
  <2> SUFFICES ASSUME NEW i \in Admitted', age'[i] < AdmitTTL
               PROVE  /\ mark'[body'[i].event] = body'[i].data
                      /\ markLeft'[body'[i].event] = AdmitTTL - age'[i]
    BY DEF FreshIsMarked
  <2>1. CASE i = n
    BY <1>0, <1>2, <1>3, <1>5, <1>6, <2>1 DEF e, d
  <2>2. CASE i \in Admitted
    <3>1. body[i].event # e
      BY <1>0, <1>3, <1>7, <2>2
    <3>2. body[i].event \in Events
      BY <2>2, AdmittedIsMessage
    <3> QED BY <1>3, <1>5, <1>6, <2>2, <3>1, <3>2 DEF FreshIsMarked
  <2> QED BY <1>6, <2>1, <2>2
<1>9. MarkerHasTime'
  BY <1>0, <1>2, <1>5 DEF MarkerHasTime
<1>10. OneAdmissionPerWindow'
  <2> SUFFICES ASSUME NEW i \in Admitted', NEW k \in Admitted', i < k,
                      body'[i].event = body'[k].event
               PROVE  age'[i] = AdmitTTL
    BY DEF OneAdmissionPerWindow
  <2>1. i \in Admitted
    <3>1. n \in Int /\ \A j \in Admitted : j \in Int /\ j < n
      BY <1>0, <1>3, <1>6, AdmittedIsMessage DEF Ids
    <3> QED BY <1>6, <3>1
  <2>2. CASE k \in Admitted
    BY <1>3, <1>6, <2>1, <2>2 DEF OneAdmissionPerWindow
  <2>3. CASE k = n
    BY <1>3, <1>6, <1>7, <2>1, <2>3 DEF e
  <2> QED BY <1>6, <2>2, <2>3
<1>11. MarkerIsBacked'
  <2> SUFFICES ASSUME NEW f \in Events, mark'[f] # None
               PROVE  \E i \in Admitted' : /\ body'[i] = [event |-> f, data |-> mark'[f]]
                                           /\ age'[i] + markLeft'[f] = AdmitTTL
    BY DEF MarkerIsBacked
  <2>1. CASE f = e
    BY <1>0, <1>2, <1>3, <1>5, <1>6, <2>1
  <2>2. CASE f # e
    BY <1>3, <1>5, <1>6, <2>2 DEF MarkerIsBacked
  <2> QED BY <2>1, <2>2
<1> QED BY <1>1, <1>8, <1>9, <1>10, <1>11

LEMMA AdmissionInject ==
    ASSUME Admission, [Next]_vars, Inject
    PROVE  Admission'
<1> USE DEF Admission
<1>1. Delivery'
  BY DeliveryStep
<1>2. Admitted' = Admitted /\ \A i \in Admitted : body'[i] = body[i]
  <2>1. nextId \in Int /\ Ids \subseteq Int /\ body \in [Ids -> Message \cup {Poison, None}]
    BY ConfigAssumption DEF Delivery, TypeOK, StoreTypeOK, Ids
  <2>2. nextId' = nextId + 1 /\ body' = [body EXCEPT ![nextId] = Poison]
    BY DEF Inject, XAdd
  <2>3. nextId \in Ids
    BY <2>1, ConfigAssumption DEF Inject, XAdd, Ids, Delivery, TypeOK, StoreTypeOK
  <2>4. body'[nextId] = Poison /\ \A i \in Ids : i # nextId => body'[i] = body[i]
    BY <2>1, <2>2, <2>3
  <2>5. \A i \in Ids : i < nextId' <=> i < nextId \/ i = nextId
    BY <2>1, <2>2
  <2>6. \A i \in Ids : i < nextId => i # nextId
    BY <2>1
  <2>7. \A i \in Ids : i \in Admitted' <=> i \in Admitted
    BY <2>4, <2>5, <2>6 DEF Admitted
  <2>8. Admitted' = Admitted
    BY <2>7 DEF Admitted
  <2> QED BY <2>4, <2>6, <2>8 DEF Admitted
<1>3. age' = age /\ UNCHANGED <<mark, markLeft>>
  BY DEF Inject, XAdd, markVars
<1>4. FreshIsMarked'
  BY <1>2, <1>3 DEF FreshIsMarked
<1>5. MarkerHasTime'
  BY <1>3 DEF MarkerHasTime
<1>6. OneAdmissionPerWindow'
  BY <1>2, <1>3 DEF OneAdmissionPerWindow
<1>7. MarkerIsBacked'
  BY <1>2, <1>3 DEF MarkerIsBacked
<1> QED BY <1>1, <1>4, <1>5, <1>6, <1>7

LEMMA AdmissionStep == Admission /\ [Next]_vars => Admission'
<1> SUFFICES ASSUME Admission, [Next]_vars PROVE Admission'
  OBVIOUS
<1>0. TypeOK /\ WorkOnRecord
  BY DEF Admission, Delivery
<1>1. ASSUME NEW r \in Requests, AdmitAppendFails(r) PROVE Admission'
  <2>1. msg[r].event \in Events
    BY <1>0, <1>1 DEF AdmitAppendFails, Sent, TypeOK, GatewayTypeOK, Message
  <2>2. mark[msg[r].event] = None /\ markLeft[msg[r].event] = 0
    BY <1>1, <2>1 DEF AdmitAppendFails, Prior, Admission, MarkerHasTime
  <2>3. mark' = mark /\ markLeft' = markLeft
    BY <1>0, <1>1, <2>2 DEF AdmitAppendFails, TypeOK, StoreTypeOK
  <2> QED BY <1>1, <2>3, AdmissionUntouched DEF AdmitAppendFails, streamVars, markVars
<1>2. CASE UNCHANGED storeVars \/ Grouping \/ Delivering
  BY <1>2, AdmissionUntouched DEF storeVars, streamVars, Grouping, Delivering
<1>3. CASE Settling
  BY <1>3, SettlingEffect, AdmissionUntouched DEF Settling
<1> QED BY <1>0, <1>1, <1>2, <1>3, StepKinds, AdmissionNew, AdmissionInject, AdmissionElapse

LEMMA AdmissionInit == Init => Admission
<1> SUFFICES ASSUME Init PROVE Admission
  OBVIOUS
<1>1. Admitted = {}
  BY ConfigAssumption DEF Init, StoreInit, Admitted, Ids
<1>2. \A e \in Events : mark[e] = None /\ markLeft[e] = 0
  BY DEF Init, StoreInit
<1> QED BY <1>1, <1>2, DeliveryInit
        DEF Admission, FreshIsMarked, MarkerHasTime, OneAdmissionPerWindow, MarkerIsBacked

LEMMA AdmissionHolds == Spec => []Admission
BY AdmissionInit, AdmissionStep, PTL DEF Spec

(* No event id is put on the stream twice within the retention, whichever  *)
(* requests, retries and late scripts race.                                *)
THEOREM OneAdmissionPerWindowHolds == Spec => []OneAdmissionPerWindow
BY AdmissionHolds, PTL DEF Admission

(* A live idempotency marker always stands for an entry on record.         *)
THEOREM MarkerIsBackedHolds == Spec => []MarkerIsBacked
BY AdmissionHolds, PTL DEF Admission

-----------------------------------------------------------------------------
(* Answers.  What a script returned is true when it runs, and stays true:  *)
(* entries stay on record.                                                 *)
OnRecord(r) == \E i \in Admitted : body[i] = msg[r]
Collides(r) == \E i \in Admitted :
                  body[i].event = msg[r].event /\ body[i].data # msg[r].data

ResultsAreTrue ==
    \A r \in Requests :
        /\ ran[r] # "no" => msg[r] # None
        /\ ran[r] \in {"new", "dup"} => OnRecord(r)
        /\ ran[r] = "conflict" => Collides(r)
        /\ answer[r] \in {"202", "202-dup"} => msg[r] # None /\ OnRecord(r)
        /\ answer[r] = "409" => msg[r] # None /\ Collides(r)

Answering == Admission /\ ResultsAreTrue

LEMMA AnsweringStep == Answering /\ [Next]_vars => Answering'
<1> SUFFICES ASSUME Answering, [Next]_vars PROVE Answering'
  OBVIOUS
<1> USE DEF Answering
<1>0. /\ Admission' /\ Delivery
      /\ msg \in [Requests -> Message \cup {None}]
      /\ ran \in [Requests -> Results \cup {"no"}]
      /\ answer \in [Requests -> {"none", "202", "202-dup", "409", "4xx", "503"}]
  BY AdmissionStep DEF Admission, Delivery, TypeOK, GatewayTypeOK
<1>1. ASSUME NEW r \in Requests, msg'[r] = msg[r]
      PROVE  (OnRecord(r) => OnRecord(r)') /\ (Collides(r) => Collides(r)')
  BY <1>0, <1>1, AdmittedStays DEF OnRecord, Collides
<1>2. CASE UNCHANGED gatewayVars
  <2>1. \A r \in Requests : (OnRecord(r) => OnRecord(r)') /\ (Collides(r) => Collides(r)')
    BY <1>1, <1>2 DEF gatewayVars
  <2> QED BY <1>0, <1>2, <2>1 DEF gatewayVars, ResultsAreTrue
<1>3. ASSUME NEW r \in Requests, UNCHANGED <<msg, ran>>,
             NEW a \in {"202", "202-dup", "409", "4xx", "503"},
             answer' = [answer EXCEPT ![r] = a],
             a \in {"202", "202-dup"} => ran[r] \in {"new", "dup"},
             a = "409" => ran[r] = "conflict"
      PROVE  Answering'
  <2>1. \A q \in Requests : (OnRecord(q) => OnRecord(q)') /\ (Collides(q) => Collides(q)')
    BY <1>1, <1>3
  <2>2. \A q \in Requests : answer'[q] = IF q = r THEN a ELSE answer[q]
    BY <1>0, <1>3
  <2> QED BY <1>0, <1>3, <2>1, <2>2 DEF ResultsAreTrue
<1>4. ASSUME NEW r \in Requests, UNCHANGED <<msg, answer>>, Sent(r),
             NEW result \in Results, Return(r, result),
             result \in {"new", "dup"} => OnRecord(r)',
             result = "conflict" => Collides(r)'
      PROVE  Answering'
  <2>1. \A q \in Requests : (OnRecord(q) => OnRecord(q)') /\ (Collides(q) => Collides(q)')
    BY <1>1, <1>4
  <2>2. \A q \in Requests : ran'[q] = IF q = r THEN result ELSE ran[q]
    BY <1>0, <1>4 DEF Return
  <2> QED BY <1>0, <1>4, <2>1, <2>2 DEF ResultsAreTrue, Sent
<1>5. CASE GatewayNext
  <2> PICK r \in Requests : \/ Refuse(r)
                            \/ \E m \in Message : Accept(r, m)
                            \/ AdmitScript(r)
                            \/ Reply(r)
                            \/ Expire(r)
    BY <1>5 DEF GatewayNext
  <2>1. CASE Refuse(r)
    BY <1>3, <2>1 DEF Refuse
  <2>2. ASSUME NEW m \in Message, Accept(r, m) PROVE Answering'
    <3>1. /\ UNCHANGED <<ran, answer>> /\ msg[r] = None /\ m # None
          /\ \A q \in Requests : msg'[q] = IF q = r THEN m ELSE msg[q]
      BY <1>0, <2>2, NamesAssumption DEF Accept
    <3>2. \A q \in Requests \ {r} : (OnRecord(q) => OnRecord(q)') /\ (Collides(q) => Collides(q)')
      BY <1>1, <3>1
    <3> QED BY <1>0, <3>1, <3>2 DEF ResultsAreTrue
  <2>3. CASE AdmitKnown(r)
    <3>1. msg[r] \in Message /\ mark[msg[r].event] # None /\ msg[r].event \in Events
      BY <1>0, <2>3 DEF AdmitKnown, Sent, Prior, Message
    <3>2. PICK i \in Admitted : body[i] = [event |-> msg[r].event, data |-> mark[msg[r].event]]
      BY <3>1 DEF Admission, MarkerIsBacked
    <3>3. mark[msg[r].event] = msg[r].data => OnRecord(r)
      BY <3>1, <3>2 DEF OnRecord, Message
    <3>4. mark[msg[r].event] # msg[r].data => Collides(r)
      BY <3>1, <3>2 DEF Collides
    <3> DEFINE result == IF Prior(r) = msg[r].data THEN "dup" ELSE "conflict"
    <3>5. Sent(r) /\ UNCHANGED <<msg, answer>> /\ Return(r, result)
      BY <2>3 DEF AdmitKnown
    <3>6. CASE Prior(r) = msg[r].data
      BY <1>1, <1>4, <3>3, <3>5, <3>6 DEF Prior, Results
    <3>7. CASE Prior(r) # msg[r].data
      BY <1>1, <1>4, <3>4, <3>5, <3>7 DEF Prior, Results
    <3> QED BY <3>6, <3>7
  <2>4. CASE AdmitFull(r)
    BY <1>4, <2>4 DEF AdmitFull, Results
  <2>5. CASE AdmitNew(r)
    <3>1. nextId \in Ids /\ nextId' = nextId + 1 /\ body' = [body EXCEPT ![nextId] = msg[r]]
      BY <2>5, ConfigAssumption
         DEF AdmitNew, XAdd, Ids, Admission, Delivery, TypeOK, StoreTypeOK
    <3>2. msg[r] \in Message /\ msg'[r] = msg[r] /\ Poison \notin Message
      BY <1>0, <2>5, NamesAssumption DEF AdmitNew, Sent
    <3>3. body'[nextId] = msg[r] /\ nextId < nextId'
      BY <3>1, ConfigAssumption DEF Admission, Delivery, TypeOK, StoreTypeOK, Ids
    <3>4. nextId \in Admitted'
      BY <3>1, <3>2, <3>3 DEF Admitted
    <3>5. OnRecord(r)'
      BY <3>2, <3>3, <3>4 DEF OnRecord
    <3> QED BY <1>4, <2>5, <3>5 DEF AdmitNew, Results
  <2>6. CASE AdmitAppendFails(r)
    BY <1>4, <2>6 DEF AdmitAppendFails, Results
  <2>7. CASE Reply(r)
    <3>1. ran[r] \in Results /\ answer' = [answer EXCEPT ![r] = StatusOf(ran[r])]
          /\ UNCHANGED <<msg, ran>>
      BY <1>0, <2>7 DEF Reply
    <3>2. /\ StatusOf(ran[r]) \in {"202", "202-dup", "409", "4xx", "503"}
          /\ StatusOf(ran[r]) \in {"202", "202-dup"} => ran[r] \in {"new", "dup"}
          /\ StatusOf(ran[r]) = "409" => ran[r] = "conflict"
      BY <3>1 DEF StatusOf, Results
    <3> QED BY <1>3, <3>1, <3>2
  <2>8. CASE Expire(r)
    BY <1>3, <2>8 DEF Expire
  <2> QED BY <2>1, <2>2, <2>3, <2>4, <2>5, <2>6, <2>7, <2>8 DEF AdmitScript
<1> QED
  BY <1>2, <1>5 DEF Next, Tick, Inject, vars

LEMMA AnsweringInit == Init => Answering
BY AdmissionInit DEF Init, GatewayInit, Answering, ResultsAreTrue

LEMMA ResultsGiveAnswers == ResultsAreTrue => AnswersAreTrue
BY DEF ResultsAreTrue, AnswersAreTrue, OnRecord, Collides

(* A provider is told 202 only for an event that is on record as it was    *)
(* sent, and 409 only if the event id is on record with other data.        *)
THEOREM AnswersAreTrueHolds == Spec => []AnswersAreTrue
<1>1. Spec => []Answering
  BY AnsweringInit, AnsweringStep, PTL DEF Spec
<1>2. Answering => AnswersAreTrue
  BY ResultsGiveAnswers DEF Answering
<1> QED BY <1>1, <1>2, PTL

-----------------------------------------------------------------------------
(* The backlog.                                                            *)

LEMMA BacklogStep == Delivery /\ BoundedBacklog /\ [Next]_vars => BoundedBacklog'
<1> SUFFICES ASSUME Delivery, BoundedBacklog, [Next]_vars PROVE BoundedBacklog'
  OBVIOUS
<1>0. /\ TypeOK /\ WorkOnRecord /\ MaxQueue \in Nat /\ stream \subseteq Ids
      /\ nextId \in Int /\ Ids \subseteq Int
      /\ body \in [Ids -> Message \cup {Poison, None}]
  <2>1. TypeOK /\ WorkOnRecord
    BY DEF Delivery
  <2>2. nextId \in Int /\ Ids \subseteq Int /\ MaxQueue \in Nat
    BY <2>1, ConfigAssumption DEF TypeOK, StoreTypeOK, Ids
  <2> QED BY <2>1, <2>2 DEF TypeOK, StoreTypeOK
<1>1. IsFiniteSet(Ids) /\ IsFiniteSet(stream)
  <2>1. IsFiniteSet(Ids)
    BY ConfigAssumption, FS_Interval DEF Ids
  <2> QED BY <1>0, <2>1, FS_Subset
<1>2. ASSUME stream' \cap Admitted' \subseteq stream \cap Admitted PROVE BoundedBacklog'
  <2>1. IsFiniteSet(stream \cap Admitted)
    BY <1>1, FS_Subset
  <2>2. Cardinality(stream' \cap Admitted') <= Cardinality(stream \cap Admitted)
    BY <1>2, <2>1, FS_Subset
  <2>3. Cardinality(stream' \cap Admitted') \in Nat /\ Cardinality(stream \cap Admitted) \in Nat
    BY <1>2, <2>1, FS_Subset, FS_CardinalityType
  <2> QED BY <1>0, <2>2, <2>3 DEF BoundedBacklog
<1>3. ASSUME stream' \subseteq stream, UNCHANGED <<body, nextId>> PROVE BoundedBacklog'
  BY <1>2, <1>3 DEF Admitted
<1>4. ASSUME NEW r \in Requests, AdmitNew(r) PROVE BoundedBacklog'
  <2>1. stream' = stream \cup {nextId} /\ ~(Cardinality(stream) >= MaxQueue)
    BY <1>4 DEF AdmitNew, XAdd, QueueIsFull, XLen
  <2>2. Cardinality(stream) \in Nat
    BY <1>1, FS_CardinalityType
  <2>3. IsFiniteSet(stream') /\ Cardinality(stream') <= Cardinality(stream) + 1
    <3>1. IsFiniteSet(stream')
      BY <1>1, <2>1, FS_AddElement
    <3>2. Cardinality(stream') = Cardinality(stream) \/ Cardinality(stream') = Cardinality(stream) + 1
      BY <1>1, <2>1, FS_AddElement
    <3> QED BY <2>2, <3>1, <3>2
  <2>4. Cardinality(stream' \cap Admitted') <= Cardinality(stream')
    BY <2>3, FS_Subset
  <2>5. Cardinality(stream' \cap Admitted') \in Nat /\ Cardinality(stream') \in Nat
    BY <2>3, FS_Subset, FS_CardinalityType
  <2> QED BY <1>0, <2>1, <2>2, <2>3, <2>4, <2>5 DEF BoundedBacklog
<1>5. ASSUME NEW r \in Requests, AdmitAppendFails(r) PROVE BoundedBacklog'
  BY <1>3, <1>5 DEF AdmitAppendFails, streamVars
<1>6. CASE Inject
  <2>1. /\ nextId \in Ids /\ nextId' = nextId + 1
        /\ stream' = stream \cup {nextId} /\ body' = [body EXCEPT ![nextId] = Poison]
    BY <1>0, <1>6, ConfigAssumption DEF Inject, XAdd, Ids, TypeOK, StoreTypeOK
  <2>2. body'[nextId] = Poison /\ \A i \in Ids : i # nextId => body'[i] = body[i]
    BY <1>0, <2>1
  <2>3. nextId \notin Admitted'
    BY <2>2 DEF Admitted
  <2>4. \A i \in Ids : i # nextId /\ i < nextId' => i < nextId
    BY <1>0, <2>1
  <2>5. \A i \in Ids : i \in Admitted' => i \in Admitted
    BY <2>2, <2>3, <2>4 DEF Admitted
  <2>6. stream' \cap Admitted' \subseteq stream \cap Admitted
    BY <1>0, <2>1, <2>3, <2>5
  <2> QED BY <1>2, <2>6
<1>7. CASE UNCHANGED storeVars \/ Elapse \/ Grouping \/ Delivering
  BY <1>3, <1>7 DEF storeVars, streamVars, Elapse, Grouping, Delivering
<1>8. CASE Settling
  <2>1. PICK i \in Ids : FinishSettles(i) \/ FinishFails(i)
    BY <1>8 DEF Settling
  <2>2. stream' \subseteq stream /\ UNCHANGED <<body, nextId>>
    BY <2>1, SettlingEffect
  <2> QED BY <1>3, <2>2
<1> QED BY <1>0, <1>4, <1>5, <1>6, <1>7, <1>8, StepKinds

(* However many gateways admit at once, the stream never holds more than   *)
(* MaxQueue unfinished events of theirs.                                   *)
THEOREM BoundedBacklogHolds == Spec => []BoundedBacklog
<1>1. Init => BoundedBacklog
  BY FS_EmptySet, ConfigAssumption DEF Init, StoreInit, BoundedBacklog
<1> QED BY <1>1, BacklogStep, DeliveryHolds, PTL DEF Spec

-----------------------------------------------------------------------------
(* A retry within the retention of an entry on record is recognised: the   *)
(* entry still has its marker (FreshIsMarked), and the script looks at the *)
(* marker before anything else.                                            *)
THEOREM RetryIsRecognisedHolds == Spec => RetryIsRecognised
<1>1. ASSUME Admission, [Next]_vars,
             NEW r \in Requests, ran[r] = "no", ran'[r] # "no",
             NEW i \in Admitted, body[i].event = msg[r].event, age[i] < AdmitTTL
      PROVE  ran'[r] = IF body[i] = msg[r] THEN "dup" ELSE "conflict"
  <2>0. /\ ran \in [Requests -> Results \cup {"no"}]
        /\ msg \in [Requests -> Message \cup {None}]
    BY <1>1 DEF Admission, Delivery, TypeOK, GatewayTypeOK
  <2>1. GatewayNext
    BY <1>1 DEF Next, Tick, Inject, vars, gatewayVars
  <2>2. PICK q \in Requests : AdmitScript(q)
    BY <1>1, <2>1 DEF GatewayNext, Refuse, Accept, Reply, Expire
  <2>3. PICK result \in Results : Return(q, result)
    BY <2>2 DEF AdmitScript, AdmitKnown, AdmitFull, AdmitNew, AdmitAppendFails, Results
  <2>4. q = r
    BY <1>1, <2>0, <2>3 DEF Return
  <2>5. body[i] \in Message /\ body[i].data \in Data
    BY <1>1, AdmittedIsMessage DEF Admission
  <2>6. Prior(r) = body[i].data
    BY <1>1 DEF Admission, FreshIsMarked, Prior
  <2>7. Prior(r) # None
    BY <2>5, <2>6, NamesAssumption
  <2>8. AdmitKnown(r)
    BY <2>2, <2>4, <2>7 DEF AdmitScript, AdmitFull, AdmitNew, AdmitAppendFails
  <2>9. msg[r] \in Message
    BY <2>0, <2>8 DEF AdmitKnown, Sent
  <2>10. body[i] = msg[r] <=> body[i].data = msg[r].data
    BY <1>1, <2>5, <2>9 DEF Message
  <2> QED BY <1>1, <2>0, <2>6, <2>8, <2>10 DEF AdmitKnown, Return
<1>2. Admission /\ [Next]_vars =>
        [\A r \in Requests : ran[r] = "no" /\ ran'[r] # "no" =>
          \A i \in Admitted : body[i].event = msg[r].event /\ age[i] < AdmitTTL =>
              ran'[r] = IF body[i] = msg[r] THEN "dup" ELSE "conflict"]_vars
  BY <1>1
<1> QED BY <1>2, AdmissionHolds, PTL DEF Spec, RetryIsRecognised

-----------------------------------------------------------------------------
(* The ledger's entries, as HookGuard instantiates them.                   *)
Entries == [i \in 1..(nextId - 1) |-> [item |-> body[i], age |-> age[i]]]

Entry == [item : Message \cup {Poison, None}, age : 0..AdmitTTL]

LEMMA FunctionIsSeq ==
    ASSUME NEW S, NEW n \in Nat, NEW f \in [1..n -> S]
    PROVE  f \in Seq(S) /\ Len(f) = n /\ DOMAIN f = 1..n
OBVIOUS

LEMMA RecordIsSeq ==
    ASSUME NEW n \in 1..(MaxEntries + 1),
           NEW b \in [Ids -> Message \cup {Poison, None}],
           NEW a \in [Ids -> 0..AdmitTTL],
           NEW s, s = [i \in 1..(n - 1) |-> [item |-> b[i], age |-> a[i]]]
    PROVE  s \in Seq(Entry) /\ Len(s) = n - 1 /\ DOMAIN s = 1..(n - 1)
<1>1. n - 1 \in Nat /\ 1..(n - 1) \subseteq Ids
  BY ConfigAssumption DEF Ids
<1>2. s \in [1..(n - 1) -> Entry]
  BY <1>1 DEF Entry
<1> QED BY <1>1, <1>2, FunctionIsSeq

LEMMA EntriesType ==
    ASSUME TypeOK
    PROVE  /\ Entries \in Seq(Entry)
           /\ Len(Entries) = nextId - 1 /\ DOMAIN Entries = 1..(nextId - 1)
BY RecordIsSeq DEF Entries, TypeOK, StoreTypeOK

(* An id is on record exactly if it is an index of the ledger.             *)
LEMMA IndexOnRecord ==
    ASSUME TypeOK, NEW i
    PROVE  i \in 1..(nextId - 1) <=> i \in Ids /\ i < nextId
BY ConfigAssumption DEF TypeOK, StoreTypeOK, Ids

(* XADD appends to the ledger.                                             *)
LEMMA EntriesGrow ==
    ASSUME Delivery, [Next]_vars, NEW m \in Message \cup {Poison}, XAdd(m)
    PROVE  /\ Entries' = Append(Entries, [item |-> m, age |-> 0])
           /\ stream' = stream \cup {Len(Entries) + 1}
<1> DEFINE e == [item |-> m, age |-> 0]
<1>0. TypeOK /\ TypeOK'
  BY TypeStep DEF Delivery
<1>1. /\ nextId \in Ids /\ nextId' = nextId + 1 /\ nextId \in Nat
      /\ stream' = stream \cup {nextId} /\ age' = age
      /\ body' = [body EXCEPT ![nextId] = m]
  BY <1>0, ConfigAssumption DEF XAdd, Ids, TypeOK, StoreTypeOK
<1>2. age[nextId] = 0 /\ body'[nextId] = m
  BY <1>0, <1>1 DEF Delivery, StoreOnRecord, TypeOK, StoreTypeOK
<1>3. /\ Entries \in Seq(Entry) /\ Len(Entries) = nextId - 1
      /\ Entries' \in Seq(Entry) /\ Len(Entries') = nextId
  <2>1. Entries \in Seq(Entry) /\ Len(Entries) = nextId - 1
    BY <1>0, EntriesType
  <2>2. /\ nextId' \in 1..(MaxEntries + 1) /\ age' \in [Ids -> 0..AdmitTTL]
        /\ body' \in [Ids -> Message \cup {Poison, None}]
    BY <1>0 DEF TypeOK, StoreTypeOK, Ids, Message
  <2>3. Entries' = [i \in 1..(nextId' - 1) |-> [item |-> body'[i], age |-> age'[i]]]
    BY DEF Entries
  <2>4. Entries' \in Seq(Entry) /\ Len(Entries') = nextId' - 1
    BY <2>2, <2>3, RecordIsSeq
  <2> QED BY <1>1, <2>1, <2>4
<1>4. e \in Entry
  BY ConfigAssumption DEF Entry, Message
<1>5. /\ Append(Entries, e) \in Seq(Entry)
      /\ Len(Append(Entries, e)) = nextId
      /\ \A i \in 1..(nextId - 1) : Append(Entries, e)[i] = Entries[i]
      /\ Append(Entries, e)[nextId] = e
  BY <1>1, <1>3, <1>4, AppendProperties
<1>6. ASSUME NEW i \in 1..nextId PROVE Entries'[i] = Append(Entries, e)[i]
  <2>1. Entries'[i] = [item |-> body'[i], age |-> age'[i]]
    BY <1>1 DEF Entries
  <2>2. CASE i = nextId
    BY <1>1, <1>2, <1>5, <2>1, <2>2
  <2>3. CASE i # nextId
    <3>1. i \in 1..(nextId - 1)
      BY <1>1, <2>3
    <3>2. body'[i] = body[i]
      BY <1>1, <2>3, <3>1
    <3> QED BY <1>1, <1>5, <2>1, <3>1, <3>2 DEF Entries
  <2> QED BY <2>2, <2>3
<1>7. Entries' = Append(Entries, e)
  BY <1>3, <1>4, <1>5, <1>6, SeqEqual
<1> QED BY <1>1, <1>3, <1>7

LEMMA EntriesUntouched ==
    ASSUME UNCHANGED <<body, age, nextId>>
    PROVE  Entries' = Entries
BY DEF Entries

(* The ledger's subject of an entry is its completion key.                 *)
LEMMA SubjectIsKey ==
    ASSUME TypeOK, NEW i \in Ids, i < nextId
    PROVE  Ledger!Subject(i) = Key(i)
<1>1. i \in 1..(nextId - 1)
  BY IndexOnRecord
<1> QED BY <1>1 DEF Ledger!Subject, Key

LEMMA AcceptStep ==
    ASSUME Admission, [Next]_vars, NEW r \in Requests, AdmitNew(r)
    PROVE  \E m \in Message : Ledger!Accept(m)
<1>0. TypeOK /\ Delivery
  BY DEF Admission, Delivery
<1> PICK m \in Message : m = msg[r]
  BY <1>0 DEF AdmitNew, Sent, TypeOK, GatewayTypeOK
<1>1. XAdd(m) /\ outputs' = outputs /\ m.event \in Events
  BY DEF AdmitNew, Message
<1>2. mark[m.event] = None /\ markLeft[m.event] = 0 /\ ~(XLen >= MaxQueue)
  BY <1>1 DEF AdmitNew, Prior, QueueIsFull, Admission, MarkerHasTime
<1>3. ASSUME NEW i \in 1..(nextId - 1), body[i] # Poison, body[i].event = m.event
      PROVE  age[i] = AdmitTTL
  <2>1. i \in Admitted
    BY <1>0, <1>3, IndexOnRecord DEF Admitted
  <2>2. age[i] \in 0..AdmitTTL
    BY <1>0, <2>1, AdmittedIsMessage
  <2> QED BY <1>2, <1>3, <2>1, <2>2, ConfigAssumption DEF Admission, FreshIsMarked
<1>4. Ledger!Forgotten(m.event)
  BY <1>3 DEF Ledger!Forgotten
<1>5. Cardinality(stream) < MaxQueue
  <2>1. IsFiniteSet(stream)
    <3>1. IsFiniteSet(Ids)
      BY ConfigAssumption, FS_Interval DEF Ids
    <3> QED BY <1>0, <3>1, FS_Subset DEF TypeOK, StoreTypeOK
  <2> QED BY <1>2, <2>1, FS_CardinalityType, ConfigAssumption DEF XLen
<1>6. Ledger!Record(m)
  BY <1>0, <1>1, EntriesGrow DEF Ledger!Record, Entries
<1>7. Ledger!Accept(m)
  BY <1>4, <1>5, <1>6 DEF Ledger!Accept, Cardinality, Ledger!Cardinality
<1> QED BY <1>1, <1>7

LEMMA PlantStep ==
    ASSUME Delivery, [Next]_vars, Inject
    PROVE  Ledger!Plant
BY EntriesGrow DEF Inject, Ledger!Plant, Ledger!Record, Entries

LEMMA SettleStep ==
    ASSUME Marking, [Next]_vars, Settling
    PROVE  \/ \E i \in DOMAIN Entries : Ledger!Settle(i)
           \/ UNCHANGED <<Entries, stream, outputs>>
<1>0. TypeOK /\ Delivery /\ FinishTTL \in Nat \ {0} /\ done \in [Keys -> 0..FinishTTL]
  BY ConfigAssumption DEF Marking, Delivery, TypeOK, StoreTypeOK
<1> PICK i \in Ids : i < nextId /\ (FinishSettles(i) \/ FinishFails(i))
  BY DEF Settling
<1>1. Entries' = Entries
  BY SettlingEffect, EntriesUntouched
<1>2. i \in DOMAIN Entries
  BY <1>0, IndexOnRecord, EntriesType
<1>3. Key(i) \in Keys
  BY <1>0, KeyStable
<1>4. \A j \in DOMAIN outputs : Ledger!Subject(outputs[j].id) = Key(outputs[j].id)
  BY <1>0, OutputFacts, SubjectIsKey
<1>5. Ledger!Subject(i) = Key(i)
  BY <1>0, SubjectIsKey
<1>6. Ledger!Decided(i) <=>
        \E j \in DOMAIN outputs : Key(outputs[j].id) = Key(i) /\ outputs[j].age < FinishTTL
  BY <1>4, <1>5 DEF Ledger!Decided
<1>7. CASE FinishKnown(i)
  <2>1. done[Key(i)] \in 1..FinishTTL
    BY <1>0, <1>3, <1>7 DEF FinishKnown, Decided
  <2>2. PICK j \in DOMAIN outputs :
           Key(outputs[j].id) = Key(i) /\ outputs[j].age + done[Key(i)] = FinishTTL
    BY <1>3, <2>1 DEF Marking, MarkersDecided
  <2>3. outputs[j].age < FinishTTL
    BY <1>0, <2>1, <2>2, OutputFacts
  <2>4. stream' = stream \ {i} /\ outputs' = outputs
    BY <1>7 DEF FinishKnown, XAckDel
  <2> QED BY <1>1, <1>2, <1>6, <2>2, <2>3, <2>4 DEF Ledger!Settle, Entries
<1>8. CASE FinishNew(i)
  <2>1. done[Key(i)] = 0
    BY <1>0, <1>3, <1>8 DEF FinishNew, Decided
  <2>2. ~Ledger!Decided(i)
    <3> SUFFICES ASSUME NEW j \in DOMAIN outputs, Key(outputs[j].id) = Key(i),
                        outputs[j].age < FinishTTL
                 PROVE  FALSE
      BY <1>6
    <3>1. outputs[j].age \in 0..FinishTTL
      BY <1>0, OutputFacts
    <3> QED BY <1>0, <2>1, <3>1 DEF Marking, CompletionMarked
  <2>3. stream' = stream \ {i} /\ outputs' = Append(outputs, [id |-> i, age |-> 0])
    BY <1>8 DEF FinishNew, XAckDel
  <2> QED BY <1>1, <1>2, <2>2, <2>3 DEF Ledger!Settle, Entries
<1>9. CASE FinishFails(i)
  BY <1>1, <1>9 DEF FinishFails, streamVars
<1> QED BY <1>7, <1>8, <1>9 DEF FinishSettles

LEMMA PassStep ==
    ASSUME TypeOK, Elapse
    PROVE  Ledger!Pass
<1>1. UNCHANGED <<body, nextId, stream>>
  BY DEF Elapse
<1>2. \A i \in 1..(nextId - 1) : age'[i] = Older(age[i], AdmitTTL)
  BY IndexOnRecord DEF Elapse
<1>3. Entries' = Ledger!Aged(Entries, AdmitTTL)
  BY <1>1, <1>2 DEF Entries, Ledger!Aged, Older
<1>4. outputs' = Ledger!Aged(outputs, FinishTTL)
  BY DEF Elapse, Ledger!Aged, Older
<1> QED BY <1>1, <1>3, <1>4 DEF Ledger!Pass, Entries

LEMMA LedgerStep ==
    ASSUME Admission, Completion, [Next]_vars
    PROVE  [Ledger!Next]_(Ledger!vars)
<1>0. TypeOK /\ WorkOnRecord /\ Delivery
  BY DEF Admission, Delivery
<1>1. ASSUME UNCHANGED <<body, age, nextId, stream, outputs>> PROVE UNCHANGED Ledger!vars
  BY <1>1 DEF Ledger!vars
<1>2. ASSUME NEW r \in Requests, AdmitNew(r) PROVE Ledger!Next
  BY <1>2, AcceptStep DEF Ledger!Next, Ledger!Message, Message
<1>3. ASSUME NEW r \in Requests, AdmitAppendFails(r) PROVE UNCHANGED Ledger!vars
  BY <1>1, <1>3 DEF AdmitAppendFails, streamVars
<1>4. CASE Inject
  BY <1>0, <1>4, PlantStep DEF Ledger!Next
<1>5. CASE Settling
  BY <1>5, SettleStep DEF Completion, Ledger!Next, Ledger!vars, Entries
<1>6. CASE Elapse
  BY <1>0, <1>6, PassStep DEF Ledger!Next
<1>7. CASE UNCHANGED storeVars \/ Grouping \/ Delivering
  BY <1>1, <1>7 DEF storeVars, streamVars, Grouping, Delivering
<1> QED BY <1>0, <1>2, <1>3, <1>4, <1>5, <1>6, <1>7, StepKinds

LEMMA LedgerInit == Init => Ledger!Init
<1> SUFFICES ASSUME Init PROVE Ledger!Init
  OBVIOUS
<1>1. nextId = 1 /\ stream = {} /\ outputs = <<>>
  BY DEF Init, StoreInit
<1>2. Entries \in Seq(Entry) /\ Len(Entries) = 0
  BY <1>1, InitType, EntriesType
<1>3. Entries = <<>>
  BY <1>2, EmptySeq
<1> QED BY <1>1, <1>3 DEF Ledger!Init, Entries

(* The whole system implements the ledger: an event id is put on record    *)
(* once and decided once per retention window, an entry is closed only     *)
(* when it is decided, and nothing else ever happens to the streams.       *)
THEOREM LedgerImplemented == Spec => ImplementsLedger
<1>1. Spec => [](Admission /\ Completion)
  BY AdmissionHolds, CompletionHolds, PTL
<1>2. Admission /\ Completion /\ [Next]_vars => [Ledger!Next]_(Ledger!vars)
  BY LedgerStep
<1> QED BY <1>1, <1>2, LedgerInit, PTL DEF Spec, ImplementsLedger, Ledger!Spec
=============================================================================
