----------------------------- MODULE EventLedger -----------------------------
(***************************************************************************)
(* What Hook Guard promises, without the machinery: no markers, no group,  *)
(* no deliveries, no scripts.  A ledger of what was put on record, which   *)
(* entries are still open, and the decisions, all with their ages.  The    *)
(* two duplicate windows are stated on the ledger itself: an event id is   *)
(* put on record once, and decided once, per retention window.             *)
(***************************************************************************)
EXTENDS Integers, FiniteSets, Sequences

CONSTANTS Events, Data, Poison, MaxQueue, AdmitTTL, FinishTTL

Message == [event : Events, data : Data]

VARIABLES
    entries,    \* what was put on record: [item, age], oldest first
    open,       \* the entries not finished
    decisions   \* decisions and dead letters: [id, age], oldest first

vars == <<entries, open, decisions>>

(* What a decision is made for: the event id, or the entry if it has none. *)
Subject(i) == IF entries[i].item = Poison THEN i ELSE entries[i].item.event

Record(item) ==
    /\ entries' = Append(entries, [item |-> item, age |-> 0])
    /\ open'    = open \cup {Len(entries) + 1}
    /\ UNCHANGED decisions

(* Every earlier entry for this event id is older than the retention.      *)
Forgotten(event) ==
    \A i \in DOMAIN entries :
        entries[i].item # Poison /\ entries[i].item.event = event
            => entries[i].age = AdmitTTL

Accept(m) ==
    /\ Forgotten(m.event)
    /\ Cardinality(open) < MaxQueue
    /\ Record(m)

Plant == Record(Poison)

(* There is a decision on i's subject within the retention.                *)
Decided(i) ==
    \E j \in DOMAIN decisions :
        /\ Subject(decisions[j].id) = Subject(i)
        /\ decisions[j].age < FinishTTL

(* An entry is closed once it is decided; a late step may repeat a         *)
(* decision of a closed entry, but only after the retention.               *)
Settle(i) ==
    /\ open' = open \ {i}
    /\ decisions' = IF Decided(i) THEN decisions
                    ELSE Append(decisions, [id |-> i, age |-> 0])
    /\ UNCHANGED entries

Aged(s, cap) ==
    [k \in DOMAIN s |-> [s[k] EXCEPT !.age = IF @ < cap THEN @ + 1 ELSE cap]]

Pass ==
    /\ entries'   = Aged(entries, AdmitTTL)
    /\ decisions' = Aged(decisions, FinishTTL)
    /\ UNCHANGED open

Init == entries = <<>> /\ open = {} /\ decisions = <<>>

Next ==
    \/ \E m \in Message : Accept(m)
    \/ Plant
    \/ \E i \in DOMAIN entries : Settle(i)
    \/ Pass

Spec == Init /\ [][Next]_vars
=============================================================================
