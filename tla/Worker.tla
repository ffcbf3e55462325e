-------------------------------- MODULE Worker --------------------------------
(***************************************************************************)
(* The Rust risk workers: the consume loop, process_batch, and the FINISH  *)
(* script process_batch sends once per entry, in one pipeline.             *)
(*                                                                         *)
(* A cycle of the loop is: reclaim idle entries if a second has passed     *)
(* since the last reclaim, finish them, read new entries, finish them.     *)
(* Any error leaves the cycle at once.  Redis executes the commands of a   *)
(* pipeline in order but not as a unit: other clients run in between.      *)
(*                                                                         *)
(* A broken connection, the 4 s timeout of the cycle or the death of the   *)
(* process leaves commands behind that Redis may still execute, or never.  *)
(***************************************************************************)
EXTENDS RedisStore

CONSTANTS
    Workers,        \* risk-worker processes: the consumers of the group
    BrokenOutputs   \* output keys that hold something other than a stream

Outputs == {"result", "dead"}

ASSUME OutputsAssumption == BrokenOutputs \subseteq Outputs

VARIABLES
    pc,         \* where each worker is in its cycle
    cursor,     \* the id its next XAUTOCLAIM starts from
    due,        \* has a second passed since its last complete reclaim?
    wire,       \* ids whose FINISH it has sent and awaits, lowest first
    failed,     \* did a FINISH of that pipeline report a failure?
    stale,      \* ids whose FINISH it sent and gave up on
    late        \* delivery commands it sent and gave up on

workerVars == <<pc, cursor, due, wire, failed, stale, late>>

Places == {"down", "loop", "claimed", "read", "delivered", "backoff"}

-----------------------------------------------------------------------------
(* FINISH on entry i.                                                      *)

OutputOf(i) == IF body[i] = Poison THEN "dead" ELSE "result"

Decided(i) == done[Key(i)] > 0

(* The completion marker is live: acknowledge and delete, publish nothing. *)
FinishKnown(i) ==
    /\ Decided(i)
    /\ XAckDel(i)
    /\ UNCHANGED <<body, age, nextId, group, last, markVars, done, outputs, faults>>

(* Mutants: no completion marker is set; it expires a second too early; its*)
(* time to live is given in milliseconds.                                  *)
FinishUnmarked(i) ==
    /\ ~Decided(i) /\ OutputOf(i) \notin BrokenOutputs
    /\ done'    = done
    /\ outputs' = Append(outputs, [id |-> i, age |-> 0])
    /\ XAckDel(i)
    /\ UNCHANGED <<body, age, nextId, group, last, markVars, faults>>

FinishShort(i) ==
    /\ ~Decided(i) /\ OutputOf(i) \notin BrokenOutputs
    /\ done'    = [done EXCEPT ![Key(i)] = FinishTTL - 1]
    /\ outputs' = Append(outputs, [id |-> i, age |-> 0])
    /\ XAckDel(i)
    /\ UNCHANGED <<body, age, nextId, group, last, markVars, faults>>

FinishMillis(i) ==
    /\ ~Decided(i) /\ OutputOf(i) \notin BrokenOutputs
    /\ done'    = [done EXCEPT ![Key(i)] = 1000 * FinishTTL]
    /\ outputs' = Append(outputs, [id |-> i, age |-> 0])
    /\ XAckDel(i)
    /\ UNCHANGED <<body, age, nextId, group, last, markVars, faults>>

(* Set the marker, publish the decision, acknowledge and delete.           *)
FinishNew(i) ==
    /\ ~Decided(i) /\ OutputOf(i) \notin BrokenOutputs
    /\ done'    = [done EXCEPT ![Key(i)] = FinishTTL]
    /\ outputs' = Append(outputs, [id |-> i, age |-> 0])
    /\ XAckDel(i)
    /\ UNCHANGED <<body, age, nextId, group, last, markVars, faults>>

(* Mutants: a failed append leaves the marker behind; the entry is         *)
(* acknowledged and deleted all the same.                                  *)
FailLeavesMarker(i) ==
    /\ ~Decided(i)
    /\ done' = [done EXCEPT ![Key(i)] = FinishTTL]
    /\ IF OutputOf(i) \in BrokenOutputs THEN faults' = faults ELSE Fault
    /\ UNCHANGED <<streamVars, groupVars, markVars, outputs>>

FailDrops(i) ==
    /\ ~Decided(i)
    /\ XAckDel(i)
    /\ IF OutputOf(i) \in BrokenOutputs THEN faults' = faults ELSE Fault
    /\ UNCHANGED <<body, age, nextId, group, last, markVars, done, outputs>>

(* The output is no stream, or the append fails and the marker is deleted  *)
(* again: the entry stays in the stream and pending.                       *)
FinishFails(i) ==
    /\ ~Decided(i)
    /\ done' = [done EXCEPT ![Key(i)] = 0]
    /\ IF OutputOf(i) \in BrokenOutputs THEN faults' = faults ELSE Fault
    /\ UNCHANGED <<streamVars, groupVars, markVars, outputs>>

FinishSettles(i) == FinishKnown(i) \/ FinishNew(i)

-----------------------------------------------------------------------------
Goto(w, place) == pc' = [pc EXCEPT ![w] = place]

(* main: the group exists before the loop starts, and a reclaim is due.    *)
Start(w) ==
    /\ pc[w] = "down"
    /\ CreateGroup
    /\ Goto(w, "loop")
    /\ UNCHANGED <<cursor, due, wire, failed, stale, late, streamVars,
                   markVars, done, outputs, faults>>

(* Mutant: the next scan starts from the last id claimed, not from the     *)
(* cursor in the reply.                                                    *)
ClaimFromLast(w) ==
    /\ pc[w] = "loop" /\ due[w]
    /\ \E batch \in SUBSET Ids :
          /\ AutoClaim(cursor[w], batch)
          /\ wire' = [wire EXCEPT ![w] = batch]
          /\ \E c \in batch \cup {cursor[w]} :
                /\ \A i \in batch : i <= c
                /\ cursor' = [cursor EXCEPT ![w] = c]
    /\ Goto(w, "claimed")
    /\ UNCHANGED <<due, failed, stale, late, group, streamVars, markVars,
                   done, outputs, faults>>

(* XAUTOCLAIM; the cursor moves on before the batch is processed.          *)
Claim(w) ==
    /\ pc[w] = "loop" /\ due[w]
    /\ \E batch \in SUBSET Ids :
          /\ AutoClaim(cursor[w], batch)
          /\ wire' = [wire EXCEPT ![w] = batch]
          /\ \E c \in 0..MaxEntries :
                /\ NextCursor(cursor[w], batch, c)
                /\ cursor' = [cursor EXCEPT ![w] = c]
    /\ Goto(w, "claimed")
    /\ UNCHANGED <<due, failed, stale, late, group, streamVars, markVars,
                   done, outputs, faults>>

ReadsNext(w) == pc[w] = "read" \/ (pc[w] = "loop" /\ ~due[w])

(* XREADGROUP; with nothing new it returns empty after 500 ms.             *)
Read(w) ==
    /\ ReadsNext(w)
    /\ \E batch \in SUBSET Ids :
          /\ ReadNew(batch)
          /\ wire' = [wire EXCEPT ![w] = batch]
    /\ Goto(w, "delivered")
    /\ UNCHANGED <<cursor, due, failed, stale, late, group, streamVars,
                   markVars, done, outputs, faults>>

(* Redis executes the next FINISH of w's pipeline.                         *)
RunFinish(w) ==
    \E i \in wire[w] :
        /\ \A k \in wire[w] : i <= k
        /\ wire' = [wire EXCEPT ![w] = @ \ {i}]
        /\ \/ FinishSettles(i) /\ failed' = failed
           \/ FinishFails(i)   /\ failed' = [failed EXCEPT ![w] = TRUE]
        /\ UNCHANGED <<pc, cursor, due, stale, late>>

(* All replies are in.  One failure fails the cycle; the reclaim time is   *)
(* reset only by a reclaimed batch that was finished completely.           *)
Collect(w) ==
    /\ pc[w] \in {"claimed", "delivered"} /\ wire[w] = {}
    /\ failed' = [failed EXCEPT ![w] = FALSE]
    /\ IF failed[w] THEN Goto(w, "backoff") /\ due' = due
       ELSE IF pc[w] = "claimed"
            THEN Goto(w, "read") /\ due' = [due EXCEPT ![w] = FALSE]
            ELSE Goto(w, "loop") /\ due' = due
    /\ UNCHANGED <<cursor, wire, stale, late, storeVars, faults>>

-----------------------------------------------------------------------------
(* What w awaited is abandoned: its pipeline, or the command it had sent.  *)
Abandon(w) ==
    /\ stale'  = [stale EXCEPT ![w] = @ \cup wire[w]]
    /\ wire'   = [wire EXCEPT ![w] = {}]
    /\ failed' = [failed EXCEPT ![w] = FALSE]
    /\ late'   = [late EXCEPT ![w] = @ \cup
                    (IF ReadsNext(w) THEN {"read"}
                     ELSE IF pc[w] = "loop" THEN {"claim"} ELSE {})]

(* A transport error or the 4 s timeout ends the cycle.                    *)
CycleBreaks(w) ==
    /\ pc[w] \notin {"down", "backoff"}
    /\ Fault
    /\ Abandon(w)
    /\ Goto(w, "backoff")
    /\ UNCHANGED <<cursor, due, storeVars>>

(* Mutant: ensure_group only at startup. *)
RecoverOnly(w) ==
    /\ pc[w] = "backoff"
    /\ Goto(w, "loop")
    /\ UNCHANGED <<cursor, due, wire, failed, stale, late, groupVars,
                   streamVars, markVars, done, outputs, faults>>

(* After any failed cycle: ensure_group, a pause, and the loop again.      *)
Recover(w) ==
    /\ pc[w] = "backoff"
    /\ CreateGroup
    /\ Goto(w, "loop")
    /\ UNCHANGED <<cursor, due, wire, failed, stale, late, streamVars,
                   markVars, done, outputs, faults>>

(* The process dies, or outlives the 5 s it gets to drain: a new process   *)
(* starts with a fresh cursor and a reclaim that is due.                   *)
Kill(w) ==
    /\ pc[w] # "down"
    /\ Fault
    /\ Abandon(w)
    /\ Goto(w, "down")
    /\ cursor' = [cursor EXCEPT ![w] = 0]
    /\ due'    = [due EXCEPT ![w] = TRUE]
    /\ UNCHANGED storeVars

(* What was abandoned reaches Redis after all.  Nobody reads the replies;  *)
(* a late claim scans from whatever cursor it was sent with.               *)
RunStale(w) ==
    \E i \in stale[w] :
        /\ stale' = [stale EXCEPT ![w] = @ \ {i}]
        /\ FinishSettles(i) \/ FinishFails(i)
        /\ UNCHANGED <<pc, cursor, due, wire, failed, late>>

LateClaim(w) ==
    /\ "claim" \in late[w]
    /\ \E from \in 0..MaxEntries, batch \in SUBSET Ids : AutoClaim(from, batch)
    /\ late' = [late EXCEPT ![w] = @ \ {"claim"}]
    /\ UNCHANGED <<pc, cursor, due, wire, failed, stale, group, streamVars,
                   markVars, done, outputs, faults>>

LateRead(w) ==
    /\ "read" \in late[w]
    /\ \E batch \in SUBSET Ids : ReadNew(batch)
    /\ late' = [late EXCEPT ![w] = @ \ {"read"}]
    /\ UNCHANGED <<pc, cursor, due, wire, failed, stale, group, streamVars,
                   markVars, done, outputs, faults>>

-----------------------------------------------------------------------------
WorkerInit ==
    /\ pc     = [w \in Workers |-> "down"]
    /\ cursor = [w \in Workers |-> 0]
    /\ due    = [w \in Workers |-> TRUE]
    /\ wire   = [w \in Workers |-> {}]
    /\ failed = [w \in Workers |-> FALSE]
    /\ stale  = [w \in Workers |-> {}]
    /\ late   = [w \in Workers |-> {}]

(* The steps a running worker and its connection owe: these are fair.      *)
WorkerStep(w) ==
    Start(w) \/ Claim(w) \/ Read(w) \/ RunFinish(w) \/ Collect(w) \/ Recover(w)

WorkerNext ==
    \E w \in Workers :
        \/ WorkerStep(w)
        \/ CycleBreaks(w) \/ Kill(w)
        \/ RunStale(w) \/ LateClaim(w) \/ LateRead(w)

WorkerTypeOK ==
    /\ pc \in [Workers -> Places]
    /\ cursor \in [Workers -> 0..MaxEntries]
    /\ due \in [Workers -> BOOLEAN]
    /\ wire \in [Workers -> SUBSET Ids]
    /\ failed \in [Workers -> BOOLEAN]
    /\ stale \in [Workers -> SUBSET Ids]
    /\ late \in [Workers -> SUBSET {"claim", "read"}]
=============================================================================
