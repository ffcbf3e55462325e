--------------------------- MODULE ForgetfulLedger ---------------------------
(***************************************************************************)
(* The ledger of EventLedger when its paper may burn: what Hook Guard      *)
(* promises around a Redis that crashes.  A host failure can lose recent   *)
(* accepted events (docs/operations.md), and recent decisions with them;   *)
(* nothing older, and what is left is a ledger like any other.             *)
(***************************************************************************)
EXTENDS EventLedger

CONSTANT SyncLag    \* how old what is lost can be

VARIABLE gone       \* the entries lost

forgetfulVars == <<vars, gone>>

Kept == DOMAIN entries \ gone

(* Only what is kept is remembered: a lost event may be accepted again.    *)
ForgottenOrGone(event) ==
    \A i \in Kept :
        entries[i].item # Poison /\ entries[i].item.event = event
            => entries[i].age = AdmitTTL

AcceptUnlessKept(m) ==
    /\ ForgottenOrGone(m.event)
    /\ Cardinality(open) < MaxQueue
    /\ Record(m)

RecentAfter(s, n) == \A k \in DOMAIN s : k > n => s[k].age <= SyncLag

(* The latest entries are lost and the latest decisions taken back.  What  *)
(* was open and is kept stays open, and what a decision is taken back of   *)
(* is open again: all that stays closed still has a decision.              *)
Lose ==
    \E n \in 0..Len(entries), k \in 0..Len(decisions) :
        /\ RecentAfter(entries, n) /\ RecentAfter(decisions, k)
        /\ gone'      = gone \cup (n + 1)..Len(entries)
        /\ decisions' = SubSeq(decisions, 1, k)
        /\ entries'   = entries
        /\ open \ gone' \subseteq open' /\ open' \subseteq Kept'
        /\ \A i \in Kept' \ open' :
              \E j \in 1..k : Subject(decisions[j].id) = Subject(i)

ForgetfulInit == Init /\ gone = {}

ForgetfulNext ==
    \/ /\ \/ \E m \in Message : AcceptUnlessKept(m)
          \/ Plant
          \/ \E i \in DOMAIN entries : Settle(i)
          \/ Pass
       /\ UNCHANGED gone
    \/ Lose

ForgetfulSpec == ForgetfulInit /\ [][ForgetfulNext]_forgetfulVars
=============================================================================
