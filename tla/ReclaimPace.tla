------------------------------ MODULE ReclaimPace ------------------------------
(***************************************************************************)
(* The pace of one worker's consume loop when some completions fail every  *)
(* time (their output key is not a stream).  A failed reclaim ends the     *)
(* cycle before XREADGROUP and does not reset last_claim, so the next cycle*)
(* reclaims again after a pause of 250 ms: as long as every reclaim finds  *)
(* such an entry idle, nothing new is read.                                *)
(*                                                                         *)
(* A tick is that pause.  Commands take no time; the loop waits only in a  *)
(* pause and in XREADGROUP BLOCK.                                          *)
(***************************************************************************)
EXTENDS Integers, FiniteSets

CONSTANTS
    MaxEntries,     \* bound: entries appended to the stream
    Failing,        \* ids whose completion fails every time
    Batch,          \* HOOKGUARD_WORKER_BATCH
    ReclaimIdle,    \* HOOKGUARD_RECLAIM_IDLE_MS, in pauses
    ClaimEvery,     \* the second between two reclaims, in pauses
    Block           \* XREADGROUP BLOCK, in pauses

Ids == 1..MaxEntries

(* An entry claimed once is not idle again before ReclaimIdle pauses: with *)
(* as many failing entries as that, each pause can end in a failed reclaim.*)
ASSUME PaceAssumption ==
    /\ MaxEntries \in Nat /\ Failing \subseteq Ids /\ Batch \in Nat \ {0}
    /\ ReclaimIdle \in Nat /\ ClaimEvery \in Nat /\ Block \in Nat
    /\ Cardinality(Failing) < ReclaimIdle

VARIABLES
    next,       \* id of the next entry
    last,       \* the group's last-delivered-id
    pending,    \* delivered and not finished
    idle,       \* ticks since an entry was delivered, up to ReclaimIdle
    cursor,     \* where the next reclaim starts
    since,      \* ticks since the last reclaim without a failure
    at,         \* what the loop does: a cycle, or waiting
    left,       \* ticks it still waits
    waited      \* ticks each entry has waited to be read, up to MaxEntries

vars == <<next, last, pending, idle, cursor, since, at, left, waited>>

Unread == {i \in Ids : last < i /\ i < next}

First(S, n) == {i \in S : Cardinality({k \in S : k < i}) < n}

(* Mutant: the idle time is not passed on. *)
AnyPending == {i \in pending : i >= cursor}

Idle == {i \in pending : i >= cursor /\ idle[i] >= ReclaimIdle}

Delivered(batch) == idle' = [i \in Ids |-> IF i \in batch THEN 0 ELSE idle[i]]

Wait(place, ticks) == at' = place /\ left' = ticks

-----------------------------------------------------------------------------
Append ==
    /\ next <= MaxEntries
    /\ next' = next + 1
    /\ UNCHANGED <<last, pending, idle, cursor, since, at, left, waited>>

(* XAUTOCLAIM and process_batch.  What does not fail is finished also when *)
(* the batch as a whole fails.                                             *)
Reclaim ==
    /\ at = "cycle" /\ since >= ClaimEvery
    /\ LET batch == First(Idle, Batch)
           rest  == {i \in pending : i >= cursor /\ \A k \in batch : i > k}
       IN  /\ Delivered(batch)
           /\ pending' = pending \ (batch \ Failing)
           /\ IF Cardinality(batch) < Batch \/ rest = {} THEN cursor' = 0
              ELSE cursor' \in rest /\ \A i \in rest : cursor' <= i
           /\ IF batch \cap Failing # {}
              THEN Wait("pause", 1) /\ since' = since
              ELSE Wait("read", 0) /\ since' = 0
    /\ UNCHANGED <<next, last, waited>>

Reading == at \in {"read", "blocked"} \/ (at = "cycle" /\ since < ClaimEvery)

(* XREADGROUP with something to deliver, and process_batch.                *)
Read ==
    /\ Reading /\ Unread # {}
    /\ LET batch == First(Unread, Batch)
       IN  /\ last' \in batch /\ \A i \in batch : i <= last'
           /\ Delivered(batch)
           /\ pending' = pending \cup (batch \cap Failing)
           /\ IF batch \cap Failing # {} THEN Wait("pause", 1) ELSE Wait("cycle", 0)
    /\ UNCHANGED <<next, cursor, since, waited>>

ReadNothing ==
    /\ Reading /\ at # "blocked" /\ Unread = {}
    /\ Wait("blocked", Block)
    /\ UNCHANGED <<next, last, pending, idle, cursor, since, waited>>

Resume ==
    /\ at \in {"pause", "blocked"} /\ left = 0
    /\ Wait("cycle", 0)
    /\ UNCHANGED <<next, last, pending, idle, cursor, since, waited>>

Tick ==
    /\ left > 0 /\ (at = "blocked" => Unread = {})
    /\ left'  = left - 1
    /\ idle'  = [i \in Ids |-> IF i \in pending /\ idle[i] < ReclaimIdle
                               THEN idle[i] + 1 ELSE idle[i]]
    /\ since' = IF since < ClaimEvery THEN since + 1 ELSE since
    /\ waited' = [i \in Ids |-> IF i \in Unread /\ waited[i] < MaxEntries
                                THEN waited[i] + 1 ELSE waited[i]]
    /\ UNCHANGED <<next, last, pending, cursor, at>>

Init ==
    /\ next = 1 /\ last = 0 /\ pending = {} /\ cursor = 0
    /\ idle = [i \in Ids |-> 0] /\ waited = [i \in Ids |-> 0]
    /\ since = ClaimEvery /\ at = "cycle" /\ left = 0

Next == Append \/ Reclaim \/ Read \/ ReadNothing \/ Resume \/ Tick

Spec == Init /\ [][Next]_vars

(* New entries are read although others fail for ever: every pause of the  *)
(* loop while an entry waits goes back to a different failing entry, so it *)
(* waits for at most one pause per failing entry.                          *)
NewEntriesAreRead == \A i \in Ids : waited[i] <= Cardinality(Failing)
=============================================================================
