------------------------------ MODULE Durability ------------------------------
(***************************************************************************)
(* Hook Guard around a Redis that crashes.  Redis appends every write to a *)
(* file and syncs it once a second (--appendonly yes, --appendfsync        *)
(* everysec): a host failure brings it back as it was at some moment since *)
(* the last sync.  A command or script is in the file wholly or not at all,*)
(* so the state it comes back with is one it really had.                   *)
(*                                                                         *)
(* Expiries and delivery times are absolute in the file and go on while    *)
(* Redis is away.  Stream ids are derived from the clock and are not used  *)
(* again, and what workers and providers remember is not rolled back: that *)
(* is where a crash can hurt.                                              *)
(***************************************************************************)
EXTENDS HookGuard

CONSTANT SyncLag    \* ticks the file may be behind the store

ASSUME DurabilityAssumption == SyncLag \in Nat

VARIABLES
    disk,       \* the store a crash would bring back
    lag,        \* ticks for which it may have been behind
    lost        \* history: entries appended and taken back by a crash

diskVars == <<disk, lag, lost>>
allVars  == <<vars, diskVars>>

Saved == [stream |-> stream, group |-> group, last |-> last,
          pending |-> pending, idle |-> idle, mark |-> mark,
          markLeft |-> markLeft, done |-> done, outputs |-> outputs,
          nextId |-> nextId]

(* The saved store a second later: its expiries go on as those of Elapse.  *)
Aged(d) ==
    [d EXCEPT
        !.idle     = [i \in Ids |-> IF i \in d.pending
                                    THEN Older(d.idle[i], ReclaimIdle) ELSE 0],
        !.mark     = [e \in Events |-> IF d.markLeft[e] <= 1 THEN None ELSE d.mark[e]],
        !.markLeft = [e \in Events |-> Less(d.markLeft[e])],
        !.done     = [k \in Keys |-> Less(d.done[k])],
        !.outputs  = [j \in DOMAIN d.outputs |->
                         [d.outputs[j] EXCEPT !.age = Older(@, FinishTTL)]]]

Second ==
    /\ lag < SyncLag
    /\ Tick
    /\ disk' = Aged(disk) /\ lag' = lag + 1 /\ lost' = lost

(* The file now holds everything up to this moment.                        *)
Sync ==
    /\ disk # Saved \/ lag # 0
    /\ disk' = Saved /\ lag' = 0
    /\ UNCHANGED <<vars, lost>>

Load(d) ==
    /\ stream' = d.stream
    /\ group' = d.group /\ last' = d.last
    /\ pending' = d.pending /\ idle' = d.idle
    /\ mark' = d.mark /\ markLeft' = d.markLeft
    /\ done' = d.done
    /\ outputs' = d.outputs

(* Mutants: each kind of marker or the pending list is not in the file, or *)
(* is newer in it than the streams (a script that is not a unit there).    *)
LoadTorn      == Load([disk EXCEPT !.mark = mark, !.markLeft = markLeft])
LoadDone      == Load([disk EXCEPT !.done = done])
LoadNoMarkers == Load([disk EXCEPT !.done = [k \in Keys |-> 0]])
LoadNoPending == Load([disk EXCEPT !.pending = {}])

Restore == Load(disk)

(* Redis crashes and comes back from its file.  Every connection breaks:   *)
(* cycles fail with a transport error and abandoned commands are lost.  A  *)
(* worker between a delivery and its pipeline finds the writer connected   *)
(* again if /readyz or /metrics used it first: that pipeline still runs.   *)
Crash ==
    /\ Fault
    /\ Restore
    /\ UNCHANGED <<body, age, nextId>>
    /\ pc' = [w \in Workers |-> IF pc[w] = "down" THEN "down" ELSE "backoff"]
    /\ \E connected \in SUBSET Workers :
          stale' = [w \in Workers |-> IF w \in connected THEN wire[w] ELSE {}]
    /\ wire'   = [w \in Workers |-> {}]
    /\ failed' = [w \in Workers |-> FALSE]
    /\ late'   = [w \in Workers |-> {}]
    /\ UNCHANGED <<cursor, due, gatewayVars>>
    /\ lost' = lost \cup {i \in Ids : disk.nextId <= i /\ i < nextId}
    /\ disk' = [disk EXCEPT !.nextId = nextId]
    /\ lag'  = 0

DurableInit == Init /\ disk = Saved /\ lag = 0 /\ lost = {}

Step ==
    \/ GatewayNext /\ UNCHANGED workerVars
    \/ WorkerNext /\ UNCHANGED gatewayVars
    \/ Inject

DurableNext ==
    \/ Step /\ UNCHANGED diskVars
    \/ Second
    \/ Sync
    \/ Crash

DurableSpec == DurableInit /\ [][DurableNext]_allVars

(* Redis syncs every second; the rest is as in FairSpec.                   *)
DurableFairSpec ==
    /\ DurableSpec
    /\ WF_allVars(Second) /\ WF_allVars(Sync)
    /\ \A w \in Workers :
          WF_allVars(WorkerStep(w) /\ UNCHANGED <<gatewayVars, diskVars>>)

-----------------------------------------------------------------------------
DurableTypeOK ==
    /\ TypeOK
    /\ lag \in 0..SyncLag
    /\ lost \subseteq Ids

(* A marker comes back with its entry.  Whatever a crash takes back, a     *)
(* live idempotency marker stands for an entry that was not taken back,    *)
(* with the same data: "already accepted" never vouches for a lost event.  *)
MarkerSurvivesWithEntry ==
    \A e \in Events : mark[e] # None =>
        \E i \in Admitted \ lost :
            /\ body[i] = [event |-> e, data |-> mark[e]]
            /\ age[i] + markLeft[e] = AdmitTTL

(* An entry that was not taken back and is no longer queued has an outcome *)
(* in the streams that came back, though decisions are taken back too.     *)
LeftWithOutcome ==
    \A i \in Ids \ lost : i < nextId /\ i \notin stream =>
        \E j \in DOMAIN outputs : Key(outputs[j].id) = Key(i)

(* Around crashes the system implements the ledger that forgets: what is   *)
(* lost is recent, entries of the file are never doubled by a retry after  *)
(* the crash, and whatever loses its decision is decided again.            *)
Forgetful == INSTANCE ForgetfulLedger WITH
    entries   <- [i \in 1..(nextId - 1) |-> [item |-> body[i], age |-> age[i]]],
    open      <- stream,
    decisions <- outputs,
    gone      <- lost

ImplementsForgetfulLedger == Forgetful!ForgetfulSpec
=============================================================================
