------------------------------ MODULE RedisStore ------------------------------
(***************************************************************************)
(* The Redis state the gateway and the risk workers share, and the Redis   *)
(* commands they use on it.  Redis itself is not in the repository: its    *)
(* commands are modelled from the arguments the code passes and the        *)
(* results it relies on.                                                   *)
(*                                                                         *)
(* Redis runs one command or one Lua script at a time, so every command    *)
(* below is a piece of a single step of the gateway or of a worker.        *)
(*                                                                         *)
(* Time is discrete.  A tick is one second of the worker's loop            *)
(* (last_claim.elapsed() >= 1s); expiries count down and ages count up to  *)
(* a ceiling, so no clock has to be bounded.                               *)
(***************************************************************************)
EXTENDS Integers, FiniteSets, Sequences

CONSTANTS
    Events,         \* event_id values a provider uses
    Data,           \* canonical payloads (their SHA-256 digests) under an id
    None,           \* the absent value
    Poison,         \* body of an entry that does not decode to a valid event
    MaxEntries,     \* bound: entries ever appended to the input stream
    MaxQueue,       \* HOOKGUARD_MAX_QUEUE
    AdmitTTL,       \* the gateway's retention, in ticks
    FinishTTL,      \* the worker's retention, in ticks
    ReclaimIdle,    \* HOOKGUARD_RECLAIM_IDLE_MS, in ticks
    Batch,          \* HOOKGUARD_WORKER_BATCH
    MaxFaults       \* bound: failures injected by the environment

(* Stream ids, in the order XADD hands them out; Redis derives them from   *)
(* the clock, so an id is never used twice.                                *)
Ids == 1..MaxEntries

(* What POST /v1/events carries once it is decoded.                        *)
Message == [event : Events, data : Data]

(* A decision or dead letter: the entry it was published for, and its age. *)
Output == [id : Ids, age : 0..FinishTTL]

(* The ranges config.go and the worker's positive() enforce at startup.    *)
ASSUME ConfigAssumption ==
    /\ MaxEntries \in Nat \ {0} /\ MaxFaults \in Nat
    /\ MaxQueue \in Nat \ {0} /\ Batch \in Nat \ {0}
    /\ AdmitTTL \in Nat \ {0} /\ FinishTTL \in Nat \ {0}
    /\ ReclaimIdle \in Nat \ {0}

(* The markers `completed:<event_id>' and `rejected:<entry id>' are in     *)
(* disjoint key spaces, and the special values are nobody's data.          *)
ASSUME NamesAssumption ==
    /\ Events \cap Ids = {}
    /\ None \notin Data \cup Message
    /\ Poison \notin Message \cup {None}

VARIABLES
    stream,     \* ids in the input stream: appended and not yet XDELeted
    body,       \* what was appended under each id
    age,        \* ticks since each id was appended, up to AdmitTTL
    nextId,     \* the id the next XADD to the input stream returns
    group,      \* does the consumer group exist?
    last,       \* the group's last-delivered-id
    pending,    \* pending entries list: ids delivered and not acknowledged
    idle,       \* ticks since a pending id was last delivered, up to ReclaimIdle
    mark,       \* idempotency markers: the digest bound to an event_id
    markLeft,   \* ticks until that marker expires
    done,       \* ticks until a completed: or rejected: marker expires
    outputs,    \* the decision stream and the :dead stream, oldest first
    faults      \* failures injected so far

streamVars == <<stream, body, age, nextId>>
groupVars  == <<group, last, pending, idle>>
markVars   == <<mark, markLeft>>
storeVars  == <<streamVars, groupVars, markVars, done, outputs>>

-----------------------------------------------------------------------------
(* The completion marker of entry i: FINISH gets the key                   *)
(* completed:<event_id> for a valid event and rejected:<entry id> else.    *)
Key(i) == IF body[i] = Poison THEN i ELSE body[i].event

Keys == Events \cup Ids

(* Entries that carry an event the gateway admitted.                       *)
Admitted == {i \in Ids : i < nextId /\ body[i] # Poison}

XLen    == Cardinality(stream)
Fresh   == {i \in stream : i > last}            \* what `>' would deliver

(* The first n ids of S in stream order.                                   *)
First(S, n) == {i \in S : Cardinality({k \in S : k < i}) < n}

(* Commands on the input stream and its group.                             *)
XAdd(m) ==
    /\ nextId <= MaxEntries
    /\ stream' = stream \cup {nextId}
    /\ body'   = [body EXCEPT ![nextId] = m]
    /\ nextId' = nextId + 1
    /\ age'    = age

(* Mutant: the entry is deleted and never acknowledged. *)
XDelOnly(i) ==
    /\ UNCHANGED <<pending, idle>>
    /\ stream' = stream \ {i}

XAckDel(i) ==
    /\ pending' = pending \ {i}
    /\ idle'    = [idle EXCEPT ![i] = 0]
    /\ stream'  = stream \ {i}

(* A delivery or a claim restarts the idle time of its entries.  The list  *)
(* also names the consumer of each entry, which nothing here depends on:   *)
(* XACK is per group, and a claim takes idle entries whoever has them.     *)
Deliver(batch) ==
    /\ pending' = pending \cup batch
    /\ idle'    = [i \in Ids |-> IF i \in batch THEN 0 ELSE idle[i]]

(* XREADGROUP `>': the next entries never delivered to the group.          *)
ReadNew(batch) ==
    /\ group
    /\ batch = First(Fresh, Batch)
    /\ IF batch = {} THEN last' = last
       ELSE last' \in batch /\ \A i \in batch : i <= last'
    /\ Deliver(batch)

(* XAUTOCLAIM from id `from': entries idle for long enough, in id order.   *)
(* It would also drop pending ids that are no longer in the stream; there  *)
(* are none (NoOrphanedDelivery).                                          *)
Scanned(from) == {i \in pending : i >= from}
AutoClaim(from, batch) ==
    /\ group
    /\ batch = First({i \in Scanned(from) : idle[i] >= ReclaimIdle}, Batch)
    /\ Deliver(batch)
    /\ last' = last

(* The cursor it returns: where the scan stopped, 0 at the end of the list.*)
NextCursor(from, batch, cursor) ==
    LET rest == {i \in Scanned(from) : \A k \in batch : i > k}
    IN  IF Cardinality(batch) < Batch \/ rest = {}
        THEN cursor = 0
        ELSE cursor \in rest /\ \A i \in rest : cursor <= i

(* Mutant: the group is created at $, the end of the stream. *)
CreateGroupAtEnd ==
    /\ group' = TRUE
    /\ last'  = IF group THEN last ELSE nextId - 1
    /\ UNCHANGED <<pending, idle>>

(* XGROUP CREATE <group> 0 MKSTREAM; BUSYGROUP leaves the group as it is.  *)
CreateGroup ==
    /\ group' = TRUE
    /\ last'  = IF group THEN last ELSE 0
    /\ UNCHANGED <<pending, idle>>

(* An environment failure, out of a bounded budget.                        *)
Fault == faults < MaxFaults /\ faults' = faults + 1

-----------------------------------------------------------------------------
Older(n, cap) == IF n < cap THEN n + 1 ELSE cap
Less(n)       == IF n > 0 THEN n - 1 ELSE 0

(* A second passes: markers get closer to expiry and expire, entries and   *)
(* pending deliveries get older.                                           *)
Elapse ==
    /\ age'      = [i \in Ids |-> IF i < nextId THEN Older(age[i], AdmitTTL) ELSE 0]
    /\ idle'     = [i \in Ids |-> IF i \in pending
                                  THEN Older(idle[i], ReclaimIdle) ELSE 0]
    /\ mark'     = [e \in Events |-> IF markLeft[e] <= 1 THEN None ELSE mark[e]]
    /\ markLeft' = [e \in Events |-> Less(markLeft[e])]
    /\ done'     = [k \in Keys |-> Less(done[k])]
    /\ outputs'  = [j \in DOMAIN outputs |->
                       [outputs[j] EXCEPT !.age = Older(@, FinishTTL)]]
    /\ UNCHANGED <<stream, body, nextId, group, last, pending>>

StoreInit ==
    /\ stream = {} /\ nextId = 1
    /\ body = [i \in Ids |-> None]
    /\ age  = [i \in Ids |-> 0]
    /\ group = FALSE /\ last = 0
    /\ pending = {}
    /\ idle  = [i \in Ids |-> 0]
    /\ mark  = [e \in Events |-> None]
    /\ markLeft = [e \in Events |-> 0]
    /\ done  = [k \in Keys |-> 0]
    /\ outputs = <<>>
    /\ faults = 0

StoreTypeOK ==
    /\ stream \subseteq Ids
    /\ body \in [Ids -> Message \cup {Poison, None}]
    /\ age \in [Ids -> 0..AdmitTTL]
    /\ nextId \in 1..(MaxEntries + 1)
    /\ group \in BOOLEAN
    /\ last \in 0..MaxEntries
    /\ pending \subseteq Ids
    /\ idle \in [Ids -> 0..ReclaimIdle]
    /\ mark \in [Events -> Data \cup {None}]
    /\ markLeft \in [Events -> 0..AdmitTTL]
    /\ done \in [Keys -> 0..FinishTTL]
    /\ outputs \in Seq(Output)
    /\ faults \in 0..MaxFaults
=============================================================================
