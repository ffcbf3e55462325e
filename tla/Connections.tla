------------------------------ MODULE Connections ------------------------------
(***************************************************************************)
(* One risk worker and its two Redis connections: consume reads and claims *)
(* on the reader; process_batch, ensure_group, /readyz and /metrics use the*)
(* writer behind the lock.  A connection breaks in one of two ways.  After *)
(* a reset the next command fails at once and the connection manager       *)
(* connects again by itself.  A half-open connection ("hole") swallows     *)
(* every command until the 2 s response timeout, and the manager keeps it: *)
(* only reconnect gets rid of it.                                          *)
(*                                                                         *)
(* Entries are counted.  When a reclaim is due and which entries are idle  *)
(* enough is left open here; Worker and ReclaimPace have the details.      *)
(***************************************************************************)
EXTENDS Integers

CONSTANTS
    MaxEntries,     \* bound: entries appended to the stream
    MaxFaults       \* bound: failures injected by the environment

ASSUME BoundsAssumption == MaxEntries \in Nat /\ MaxFaults \in Nat

VARIABLES
    up,         \* does Redis take new connections?
    reader,     \* the loop's own connection
    writer,     \* the shared connection, AppState.redis
    at,         \* where the loop is
    fresh,      \* entries in the stream nobody has read
    pending,    \* entries delivered and not finished
    hand,       \* how many of those the loop is about to finish
    ready,      \* Stats.ready
    stop,       \* has the stop signal been received?
    total,      \* entries appended so far
    faults      \* failures injected so far

sockets == <<reader, writer>>
entries == <<fresh, pending, hand, total>>
vars    == <<up, sockets, at, entries, ready, stop, faults>>

Sockets == {"open", "reset", "hole"}
Places  == {"down", "loop", "claimed", "read", "delivered", "broken", "pause"}

Fault == faults < MaxFaults /\ faults' = faults + 1

(* A command on a connection that is not open fails; the manager replaces  *)
(* a reset connection as soon as Redis takes a new one.                    *)
Used(s) == IF s = "reset" /\ up THEN "open" ELSE s

-----------------------------------------------------------------------------
(* main: both connections and the consumer group, or the process ends and  *)
(* is started again.                                                       *)
Start ==
    /\ at = "down" /\ up
    /\ reader' = "open" /\ writer' = "open"
    /\ at' = "loop" /\ stop' = FALSE
    /\ UNCHANGED <<up, entries, ready, faults>>

Claim ==
    /\ at = "loop" /\ ~stop /\ reader = "open"
    /\ hand' \in {0, pending}
    /\ at' = "claimed"
    /\ UNCHANGED <<up, sockets, fresh, pending, total, ready, stop, faults>>

(* A second has not passed since the last reclaim.                         *)
SkipClaim ==
    /\ at = "loop" /\ ~stop
    /\ at' = "read"
    /\ UNCHANGED <<up, sockets, entries, ready, stop, faults>>

Read ==
    /\ at = "read" /\ reader = "open"
    /\ hand' = fresh
    /\ fresh' = 0 /\ pending' = pending + fresh
    /\ at' = "delivered"
    /\ UNCHANGED <<up, sockets, total, ready, stop, faults>>

(* Mutant: the batch in hand is kept for the next cycle. *)
FinishKeepsHand ==
    /\ at \in {"claimed", "delivered"}
    /\ hand = 0 \/ writer = "open"
    /\ pending' = pending - hand
    /\ IF at = "claimed" THEN at' = "read" /\ ready' = ready
       ELSE at' = "loop" /\ ready' = TRUE
    /\ UNCHANGED <<up, sockets, fresh, hand, total, stop, faults>>

(* process_batch: an empty batch does not touch the writer.  A cycle that  *)
(* comes to its end makes the worker ready.                                *)
Finish ==
    /\ at \in {"claimed", "delivered"}
    /\ hand = 0 \/ writer = "open"
    /\ pending' = pending - hand
    /\ hand' = 0
    /\ IF at = "claimed" THEN at' = "read" /\ ready' = ready
       ELSE at' = "loop" /\ ready' = TRUE
    /\ UNCHANGED <<up, sockets, fresh, total, stop, faults>>

(* A completion reports an error: the cycle fails, the connections are fine.*)
FinishRefused ==
    /\ at \in {"claimed", "delivered"} /\ hand > 0 /\ writer = "open"
    /\ Fault
    /\ hand' = 0
    /\ at' = "pause" /\ ready' = FALSE
    /\ UNCHANGED <<up, sockets, fresh, pending, total, stop>>

-----------------------------------------------------------------------------
(* What was sent has been executed, and its answer lost.                   *)
ReadUnseen     == at = "read" /\ fresh' = 0 /\ pending' = pending + fresh
FinishedUnseen == pending' \in (pending - hand)..pending /\ fresh' = fresh

(* A transport error on the connection in use.                             *)
ReaderFails ==
    /\ at = "read" \/ (at = "loop" /\ ~stop)
    /\ reader # "open"
    /\ reader' = Used(reader) /\ writer' = writer
    /\ UNCHANGED <<fresh, pending>> \/ ReadUnseen
    /\ at' = "broken" /\ ready' = FALSE
    /\ UNCHANGED <<up, hand, total, stop, faults>>

WriterFails ==
    /\ at \in {"claimed", "delivered"} /\ hand > 0
    /\ writer # "open"
    /\ writer' = Used(writer) /\ reader' = reader
    /\ FinishedUnseen
    /\ hand' = 0
    /\ at' = "broken" /\ ready' = FALSE
    /\ UNCHANGED <<up, total, stop, faults>>

(* The cycle takes more than 4 s although nothing is broken.               *)
CycleTimesOut ==
    /\ at \in {"claimed", "read", "delivered"}
    /\ Fault
    /\ hand' = 0
    /\ ReadUnseen \/ FinishedUnseen
    /\ at' = "broken" /\ ready' = FALSE
    /\ UNCHANGED <<up, sockets, total, stop>>

(* Mutants: only the reader is replaced; nothing is.                       *)
ReplaceReader ==
    /\ at = "broken" /\ at' = "pause"
    /\ reader' = (IF up THEN "open" ELSE reader) /\ writer' = writer
    /\ UNCHANGED <<up, entries, ready, stop, faults>>

ReplaceNone ==
    /\ at = "broken" /\ at' = "pause"
    /\ UNCHANGED <<up, sockets, entries, ready, stop, faults>>

(* reconnect opens two new connections within 5 s or none.                 *)
Reconnect ==
    IF up THEN reader' = "open" /\ writer' = "open" ELSE UNCHANGED sockets

Replace ==
    /\ at = "broken" /\ at' = "pause"
    /\ Reconnect
    /\ UNCHANGED <<up, entries, ready, stop, faults>>

(* ensure_group on the writer, its result ignored, and a pause of 250 ms.  *)
Pause ==
    /\ at = "pause" /\ at' = "loop"
    /\ writer' = Used(writer) /\ reader' = reader
    /\ UNCHANGED <<up, entries, ready, stop, faults>>

(* The loop sees the stop signal at the start of a cycle and ends.         *)
Exit ==
    /\ at = "loop" /\ stop
    /\ at' = "down" /\ ready' = FALSE
    /\ UNCHANGED <<up, sockets, entries, stop, faults>>

-----------------------------------------------------------------------------
(* /readyz and /metrics use the writer; a PING that fails on a reset       *)
(* connection makes the manager connect again.                             *)
Probe ==
    /\ at # "down" /\ writer # Used(writer)
    /\ writer' = Used(writer)
    /\ UNCHANGED <<up, reader, at, entries, ready, stop, faults>>

(* What /readyz answers.                                                   *)
Ready == ready /\ writer = "open"

Append ==
    /\ up /\ total < MaxEntries
    /\ fresh' = fresh + 1 /\ total' = total + 1
    /\ UNCHANGED <<up, sockets, at, pending, hand, ready, stop, faults>>

(* Redis goes away, with a reset or silently for each connection, and      *)
(* comes back, perhaps at another address.                                 *)
Outage ==
    /\ up /\ Fault
    /\ up' = FALSE
    /\ reader' \in {"reset", "hole"} /\ writer' \in {"reset", "hole"}
    /\ UNCHANGED <<at, entries, ready, stop>>

Return ==
    /\ ~up /\ up' = TRUE
    /\ UNCHANGED <<sockets, at, entries, ready, stop, faults>>

(* The network drops one connection.                                       *)
Drop ==
    /\ up /\ Fault
    /\ \/ reader = "open" /\ reader' \in {"reset", "hole"} /\ writer' = writer
       \/ writer = "open" /\ writer' \in {"reset", "hole"} /\ reader' = reader
    /\ UNCHANGED <<up, at, entries, ready, stop>>

Signal ==
    /\ at # "down" /\ ~stop /\ Fault
    /\ stop' = TRUE
    /\ UNCHANGED <<up, sockets, at, entries, ready>>

(* The process dies, or outlives the 5 s it has after the stop signal.     *)
Kill ==
    /\ at # "down"
    /\ \/ stop /\ faults' = faults
       \/ ~stop /\ Fault
    /\ at' = "down" /\ ready' = FALSE /\ hand' = 0
    /\ UNCHANGED <<up, sockets, fresh, pending, total, stop>>

-----------------------------------------------------------------------------
Init ==
    /\ up = TRUE /\ reader = "reset" /\ writer = "reset"
    /\ at = "down" /\ ready = FALSE /\ stop = FALSE
    /\ fresh = 0 /\ pending = 0 /\ hand = 0 /\ total = 0
    /\ faults = 0

Loop ==
    \/ Start \/ SkipClaim \/ Read \/ Finish \/ ReaderFails \/ WriterFails
    \/ Replace \/ Pause \/ Exit

Next ==
    \/ Loop \/ Claim \/ FinishRefused \/ CycleTimesOut \/ Probe
    \/ Append \/ Outage \/ Return \/ Drop \/ Signal \/ Kill

Spec == Init /\ [][Next]_vars

(* The loop is scheduled and its timeouts end; a process that is down is   *)
(* started again; time passes, so a reclaim is due again and again and     *)
(* pending entries become idle; an outage ends; probes keep coming.        *)
FairSpec ==
    /\ Spec
    /\ WF_vars(Loop \/ Claim) /\ WF_vars(Return) /\ WF_vars(Probe)
    /\ SF_vars(Claim /\ hand' = pending)

TypeOK ==
    /\ up \in BOOLEAN /\ reader \in Sockets /\ writer \in Sockets
    /\ at \in Places
    /\ fresh \in 0..MaxEntries /\ pending \in 0..MaxEntries
    /\ hand \in 0..pending /\ total \in 0..MaxEntries
    /\ ready \in BOOLEAN /\ stop \in BOOLEAN
    /\ faults \in 0..MaxFaults

(* Consumption recovers.  Whatever mixture of resets, half-open            *)
(* connections, outages, timeouts and restarts has happened, every entry   *)
(* in the stream is finished in the end.                                   *)
ConsumptionRecovers == fresh + pending > 0 ~> fresh + pending = 0

(* Readiness recovers.  Once failures stop /readyz answers 200 for good,   *)
(* unless the writer alone is half-open and no entry arrives that would    *)
(* make the loop use it: nothing else replaces it.                         *)
ReadinessRecovers ==
    <>[](Ready \/ (ready /\ writer = "hole" /\ reader = "open"))
=============================================================================
