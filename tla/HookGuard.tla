------------------------------- MODULE HookGuard -------------------------------
(***************************************************************************)
(* Hook Guard as it is deployed: any number of gateways and risk workers   *)
(* around one Redis, providers that send events and send them again, and   *)
(* an environment that breaks connections, kills workers, fails appends    *)
(* and puts entries on the stream that are no valid events.                *)
(***************************************************************************)
EXTENDS Gateway, Worker

CONSTANT MaxPoison      \* bound: undecodable entries put on the stream

ASSUME PoisonAssumption == MaxPoison \in Nat

vars == <<storeVars, faults, gatewayVars, workerVars>>

(* One second passes for everybody.                                        *)
Tick ==
    /\ Elapse
    /\ due' = [w \in Workers |-> TRUE]
    /\ UNCHANGED <<pc, cursor, wire, failed, stale, late, faults, gatewayVars>>

(* Another producer appends an entry no worker can decode.                 *)
Inject ==
    /\ Cardinality({i \in Ids : body[i] = Poison}) < MaxPoison
    /\ XAdd(Poison)
    /\ UNCHANGED <<groupVars, markVars, done, outputs, faults, gatewayVars,
                   workerVars>>

Init == StoreInit /\ GatewayInit /\ WorkerInit

Next ==
    \/ GatewayNext /\ UNCHANGED workerVars
    \/ WorkerNext /\ UNCHANGED gatewayVars
    \/ Tick
    \/ Inject

Spec == Init /\ [][Next]_vars

(* Time passes; a running worker takes its next step, a worker that is     *)
(* down is restarted (docker-compose.yml, the Kubernetes manifests), and    *)
(* Redis executes what is sent on a connection that works.  Nothing is *)
(* assumed of providers, of the environment or of abandoned commands.      *)
FairSpec ==
    /\ Spec
    /\ WF_vars(Tick)
    /\ \A w \in Workers : WF_vars(WorkerStep(w) /\ UNCHANGED gatewayVars)

-----------------------------------------------------------------------------
(* Every variable has its type.                                            *)
TypeOK == StoreTypeOK /\ GatewayTypeOK /\ WorkerTypeOK

(* No delivery is orphaned.  Whatever crashes, times out or is abandoned   *)
(* half-way, an entry handed to the group is in the pending list exactly   *)
(* until it leaves the stream, so XAUTOCLAIM can always find it again:     *)
(* FINISH acknowledges and deletes together or not at all.                 *)
NoOrphanedDelivery ==
    /\ pending = {i \in stream : i <= last}
    /\ group \/ last = 0

(* The duplicate window of FINISH.  Two outputs for the same event id (or  *)
(* for the same undecodable entry) are never both younger than the         *)
(* retention, however often the entry is redelivered or an abandoned       *)
(* FINISH is executed late.                                                *)
OneDecisionPerWindow ==
    \A j, k \in DOMAIN outputs :
        j < k /\ Key(outputs[j].id) = Key(outputs[k].id)
            => outputs[j].age = FinishTTL

(* The duplicate window of admission.  Two entries for one event id are    *)
(* never both younger than the retention, whichever gateways and retries   *)
(* raced to append them.                                                   *)
OneAdmissionPerWindow ==
    \A i, k \in Admitted :
        i < k /\ body[i].event = body[k].event => age[i] = AdmitTTL

(* A live idempotency marker stands for an entry that was appended with    *)
(* exactly that payload and still has that long to its retention: a failed *)
(* append leaves no marker that would answer a retry "already accepted".   *)
MarkerIsBacked ==
    \A e \in Events : mark[e] # None =>
        \E i \in Admitted :
            /\ body[i] = [event |-> e, data |-> mark[e]]
            /\ age[i] + markLeft[e] = AdmitTTL

(* Accepted means accepted: a provider that was told 202, new or           *)
(* duplicate, has its event on record with its own data; one that was told *)
(* 409 collided with an entry for the same id and other data.              *)
AnswersAreTrue ==
    \A r \in Requests :
        /\ answer[r] \in {"202", "202-dup"} => \E i \in Admitted : body[i] = msg[r]
        /\ answer[r] = "409" => \E i \in Admitted :
              body[i].event = msg[r].event /\ body[i].data # msg[r].data

(* Nothing leaves the stream unanswered: an entry is gone only if its      *)
(* event id has a decision, or its entry id a dead letter.                 *)
SettledHasOutcome ==
    \A i \in Ids : i < nextId /\ i \notin stream =>
        \E j \in DOMAIN outputs : Key(outputs[j].id) = Key(i)

(* Backpressure: the gateways together never have more than MaxQueue       *)
(* unfinished events in the stream; other producers are not counted.       *)
BoundedBacklog == Cardinality(stream \cap Admitted) <= MaxQueue

(* A retry is recognised.  As long as an entry on record for its event is  *)
(* younger than the retention, unfinished or long decided, the script tells*)
(* a retry from other data under the same id.  A full queue does not turn  *)
(* it away, a failing append does not disturb it, nothing is appended.     *)
RetryIsRecognised ==
    [][\A r \in Requests : ran[r] = "no" /\ ran'[r] # "no" =>
          \A i \in Admitted : body[i].event = msg[r].event /\ age[i] < AdmitTTL =>
              ran'[r] = IF body[i] = msg[r] THEN "dup" ELSE "conflict"]_vars

(* Every entry appended is finished in the end, whatever died or broke     *)
(* while it was delivered.                                                 *)
EveryEntryIsFinished == \A i \in Ids : i \in stream ~> i \notin stream

(* The whole system implements the ledger of EventLedger: what the scripts,*)
(* markers, deliveries and retries do to the streams is never more than    *)
(* accepting an event once, and deciding it once, per retention window.    *)
Ledger == INSTANCE EventLedger WITH
    entries   <- [i \in 1..(nextId - 1) |-> [item |-> body[i], age |-> age[i]]],
    open      <- stream,
    decisions <- outputs

ImplementsLedger == Ledger!Spec

(* What docs/api.md says of 202: the event is in the queue or was already  *)
(* accepted, and a worker finishes the decision afterward.  An event that  *)
(* was taken as new has, once it left the queue, a decision of its own     *)
(* data.                                                                   *)
AcceptedIsDecided ==
    \A i \in Admitted : i \notin stream =>
        \E j \in DOMAIN outputs : body[outputs[j].id] = body[i]
=============================================================================
