------------------------------ MODULE PaceProofs ------------------------------
(***************************************************************************)
(* New entries are read beside any set of entries whose completion fails   *)
(* for ever, as long as there are fewer of them than pauses in ReclaimIdle.*)
(*                                                                         *)
(* The ages of the failing entries remember the pauses: each pause begins  *)
(* with the delivery of one of them, which is not delivered again before it*)
(* is idle.  So an entry that has waited for n pauses finds failing entries*)
(* of every age from 1 to n, and these are n different entries.            *)
(***************************************************************************)
EXTENDS ReclaimPace, FiniteSetTheorems, TLAPS

Stuck == Failing \cap pending

PaceTypes ==
    /\ next \in 1..(MaxEntries + 1)
    /\ last \in Nat /\ last < next
    /\ pending \subseteq {i \in Ids : i <= last}
    /\ idle \in [Ids -> 0..ReclaimIdle]
    /\ waited \in [Ids -> 0..MaxEntries]
    /\ at \in {"cycle", "read", "blocked", "pause"}
    /\ left \in Nat

(* A pause that has not passed was begun by the delivery of a failing      *)
(* entry.                                                                  *)
PauseHasCause ==
    /\ left > 0 => at \in {"pause", "blocked"}
    /\ at = "pause" /\ left > 0 => left = 1 /\ \E f \in Stuck : idle[f] = 0

(* An entry that waits has seen every pause it waited for.                 *)
PausesRemembered ==
    \A i \in Unread : \A n \in 1..waited[i] : \E f \in Stuck : idle[f] = n

(* Nothing waits before it is appended.                                    *)
NotYetWaiting == \A i \in Ids : next <= i => waited[i] = 0

Pace ==
    /\ PaceTypes /\ PauseHasCause /\ PausesRemembered /\ NotYetWaiting
    /\ NewEntriesAreRead

-----------------------------------------------------------------------------
LEMMA FailingFinite ==
    /\ IsFiniteSet(Failing) /\ Cardinality(Failing) \in Nat
    /\ Cardinality(Failing) <= MaxEntries
<1>1. IsFiniteSet(Ids) /\ Cardinality(Ids) = MaxEntries
  BY PaceAssumption, FS_Interval DEF Ids
<1> QED BY <1>1, PaceAssumption, FS_Subset, FS_CardinalityType

(* As many ages as that need as many entries.                              *)
LEMMA AgesAreEntries ==
    ASSUME NEW n \in Nat, NEW ages \in [Ids -> Nat],
           \A m \in 1..n : \E f \in Failing : ages[f] = m
    PROVE  n <= Cardinality(Failing)
<1> DEFINE g == [m \in 1..n |-> CHOOSE f \in Failing : ages[f] = m]
<1>1. \A m \in 1..n : g[m] \in Failing /\ ages[g[m]] = m
  OBVIOUS
<1>2. g \in [1..n -> Failing]
  BY <1>1
<1>3. \A k, m \in 1..n : g[k] = g[m] => k = m
  BY <1>1
<1> HIDE DEF g
<1>4. g \in Injection(1..n, Failing)
  BY <1>2, <1>3 DEF Injection, IsInjective
<1>5. Cardinality(1..n) <= Cardinality(Failing)
  BY <1>4, FailingFinite, FS_Injection
<1> QED BY <1>5, FS_Interval

LEMMA PaceInit == Init => Pace
BY PaceAssumption, FailingFinite
   DEF Init, Pace, PaceTypes, PauseHasCause, PausesRemembered, NotYetWaiting,
       NewEntriesAreRead, Unread, Stuck, Ids

(* What is claimed has been idle for longer than anything has waited.      *)
LEMMA ReclaimStep == Pace /\ Reclaim => Pace'
<1> SUFFICES ASSUME Pace, Reclaim PROVE Pace'
  OBVIOUS
<1> USE DEF Pace
<1> DEFINE batch == First(Idle, Batch)
<1>1. batch \subseteq Idle
  BY DEF First
<1>2. /\ idle' = [i \in Ids |-> IF i \in batch THEN 0 ELSE idle[i]]
      /\ pending' = pending \ (batch \ Failing)
      /\ UNCHANGED <<next, last, waited>>
      /\ \/ batch \cap Failing # {} /\ at' = "pause" /\ left' = 1
         \/ batch \cap Failing = {} /\ at' = "read" /\ left' = 0
  BY DEF Reclaim, Delivered, Wait
<1>3. Stuck' = Stuck
  BY <1>2 DEF Stuck
<1>4. PaceTypes'
  BY <1>2, PaceAssumption DEF PaceTypes
<1>5. PauseHasCause'
  <2>1. \A f \in batch \cap Failing : f \in Stuck' /\ idle'[f] = 0
    BY <1>1, <1>2, <1>3, PaceAssumption DEF Idle, Stuck
  <2> QED BY <1>2, <2>1 DEF PauseHasCause
<1>6. PausesRemembered'
  <2> SUFFICES ASSUME NEW i \in Unread', NEW n \in 1..(waited[i])
               PROVE  \E f \in Stuck' : idle'[f] = n
    BY <1>2 DEF PausesRemembered
  <2>1. i \in Unread /\ i \in Ids
    BY <1>2 DEF Unread
  <2>2. PICK f \in Stuck : idle[f] = n
    BY <2>1 DEF PausesRemembered
  <2>3. n < ReclaimIdle
    BY <2>1, PaceAssumption, FailingFinite DEF NewEntriesAreRead, PaceTypes
  <2>4. f \in Ids /\ f \notin batch
    BY <1>1, <2>2, <2>3, PaceAssumption DEF Idle, PaceTypes, Stuck
  <2> QED BY <1>2, <1>3, <2>2, <2>4
<1>7. NewEntriesAreRead' /\ NotYetWaiting'
  BY <1>2 DEF NewEntriesAreRead, NotYetWaiting
<1> QED BY <1>4, <1>5, <1>6, <1>7

(* What is read was not pending, so no age changes that was remembered.    *)
LEMMA ReadStep == Pace /\ Read => Pace'
<1> SUFFICES ASSUME Pace, Read PROVE Pace'
  OBVIOUS
<1> USE DEF Pace
<1> DEFINE batch == First(Unread, Batch)
<1>1. batch \subseteq Unread /\ batch \subseteq Ids
  BY DEF First, Unread
<1>2. /\ last' \in batch /\ \A i \in batch : i <= last'
      /\ idle' = [i \in Ids |-> IF i \in batch THEN 0 ELSE idle[i]]
      /\ pending' = pending \cup (batch \cap Failing)
      /\ \/ batch \cap Failing # {} /\ at' = "pause" /\ left' = 1
         \/ batch \cap Failing = {} /\ at' = "cycle" /\ left' = 0
      /\ UNCHANGED <<next, waited>>
  BY DEF Read, Delivered, Wait
<1> HIDE DEF batch
<1>3. last' \in Nat /\ last < last' /\ last' < next
  BY <1>1, <1>2 DEF Unread, Ids
<1>4. PaceTypes'
  <2>1. pending' \subseteq {i \in Ids : i <= last'}
    <3>1. \A i \in pending \cup batch : i \in Ids /\ i <= last'
      BY <1>1, <1>2, <1>3, PaceAssumption DEF PaceTypes, Ids
    <3> QED BY <1>2, <3>1
  <2> QED BY <1>2, <1>3, <2>1, PaceAssumption DEF PaceTypes
<1>5. PauseHasCause'
  <2>1. \A f \in batch \cap Failing : f \in Stuck' /\ idle'[f] = 0
    BY <1>1, <1>2 DEF Stuck
  <2> QED BY <1>2, <2>1 DEF PauseHasCause
<1>6. PausesRemembered'
  <2> SUFFICES ASSUME NEW i \in Unread', NEW n \in 1..(waited[i])
               PROVE  \E f \in Stuck' : idle'[f] = n
    BY <1>2 DEF PausesRemembered
  <2>1. i \in Unread
    BY <1>2, <1>3 DEF Unread, Ids, PaceTypes
  <2>2. PICK f \in Stuck : idle[f] = n
    BY <2>1 DEF PausesRemembered
  <2>3. f \in Ids /\ f \notin batch
    <3>1. f \in Ids /\ f <= last
      BY <2>2 DEF PaceTypes, Stuck
    <3>2. \A k \in batch : k \in Nat /\ last < k
      BY <1>1, PaceAssumption DEF Unread, Ids
    <3> QED BY <3>1, <3>2, PaceAssumption DEF PaceTypes, Ids
  <2> QED BY <1>2, <2>2, <2>3 DEF Stuck
<1>7. NewEntriesAreRead' /\ NotYetWaiting'
  BY <1>2 DEF NewEntriesAreRead, NotYetWaiting
<1> QED BY <1>4, <1>5, <1>6, <1>7

(* A pause passes: everything that waited has seen one more, which the     *)
(* entry that caused it remembers.                                         *)
LEMMA TickStep == Pace /\ Tick => Pace'
<1> SUFFICES ASSUME Pace, Tick PROVE Pace'
  OBVIOUS
<1> USE DEF Pace
<1>1. /\ left > 0 /\ (at = "blocked" => Unread = {})
      /\ left' = left - 1 /\ at' = at
      /\ idle' = [i \in Ids |-> IF i \in pending /\ idle[i] < ReclaimIdle
                                THEN idle[i] + 1 ELSE idle[i]]
      /\ waited' = [i \in Ids |-> IF i \in Unread /\ waited[i] < MaxEntries
                                  THEN waited[i] + 1 ELSE waited[i]]
      /\ UNCHANGED <<next, last, pending, cursor>>
  BY DEF Tick
<1>2. Unread' = Unread /\ Stuck' = Stuck
  BY <1>1 DEF Unread, Stuck
<1>3. PaceTypes'
  BY <1>1, PaceAssumption DEF PaceTypes
<1>8. NotYetWaiting'
  <2>1. \A i \in Ids : next <= i => i \notin Unread
    BY PaceAssumption DEF Unread, Ids, PaceTypes
  <2> QED BY <1>1, <2>1 DEF NotYetWaiting
<1>4. PauseHasCause'
  BY <1>1 DEF PauseHasCause, PaceTypes
<1>5. \A f \in Stuck : idle[f] < ReclaimIdle => idle'[f] = idle[f] + 1
  BY <1>1, PaceAssumption DEF Stuck
<1>6. PausesRemembered'
  <2> SUFFICES ASSUME NEW i \in Unread, NEW n \in 1..(waited'[i])
               PROVE  \E f \in Stuck : idle'[f] = n
    BY <1>2 DEF PausesRemembered
  <2>0. /\ i \in Ids /\ waited[i] \in Nat /\ n \in Nat
        /\ waited'[i] <= waited[i] + 1
    BY <1>1 DEF Unread, PaceTypes
  <2>1. waited[i] < ReclaimIdle
    BY <2>0, PaceAssumption, FailingFinite DEF NewEntriesAreRead
  <2>2. CASE n = 1
    <3>1. PICK f \in Stuck : idle[f] = 0
      BY <1>1 DEF PauseHasCause
    <3>2. idle'[f] = 1
      BY <1>5, <2>0, <2>1, <3>1, PaceAssumption
    <3> QED BY <2>2, <3>1, <3>2
  <2>3. CASE n # 1
    <3>1. n - 1 \in 1..(waited[i])
      BY <1>1, <2>0, <2>3
    <3>2. PICK f \in Stuck : idle[f] = n - 1
      BY <3>1 DEF PausesRemembered
    <3>3. idle'[f] = n
      BY <1>5, <2>0, <2>1, <3>1, <3>2, PaceAssumption
    <3> QED BY <3>2, <3>3
  <2> QED BY <2>2, <2>3
<1>7. NewEntriesAreRead'
  <2> SUFFICES ASSUME NEW i \in Ids PROVE waited'[i] <= Cardinality(Failing)
    BY DEF NewEntriesAreRead
  <2>1. CASE i \notin Unread
    BY <1>1, <2>1 DEF NewEntriesAreRead
  <2>2. CASE i \in Unread
    <3>1. \A m \in 1..(waited'[i]) : \E f \in Failing : idle'[f] = m
      BY <1>2, <1>6, <2>2 DEF PausesRemembered, Stuck
    <3>2. waited'[i] \in Nat /\ idle' \in [Ids -> Nat]
      BY <1>3, PaceAssumption DEF PaceTypes
    <3> QED BY <3>1, <3>2, AgesAreEntries
  <2> QED BY <2>1, <2>2
<1> QED BY <1>3, <1>4, <1>6, <1>7, <1>8

LEMMA AppendStep == Pace /\ Append => Pace'
<1> SUFFICES ASSUME Pace, Append PROVE Pace'
  OBVIOUS
<1> USE DEF Pace
<1>1. /\ next' = next + 1 /\ next <= MaxEntries
      /\ UNCHANGED <<last, pending, idle, cursor, since, at, left, waited>>
  BY DEF Append
<1>2. Stuck' = Stuck /\ next \in Ids /\ next' \in 1..(MaxEntries + 1)
  BY <1>1, PaceAssumption DEF Stuck, PaceTypes, Ids
<1>3. PaceTypes' /\ NotYetWaiting'
  BY <1>1, <1>2 DEF PaceTypes, NotYetWaiting, Ids
<1>4. PausesRemembered'
  <2> SUFFICES ASSUME NEW i \in Unread', NEW n \in 1..(waited[i])
               PROVE  \E f \in Stuck : idle[f] = n
    BY <1>1, <1>2 DEF PausesRemembered
  <2>1. i # next
    BY <1>2 DEF NotYetWaiting, PaceTypes
  <2>2. i \in Unread
    BY <1>1, <1>2, <2>1 DEF Unread, Ids, PaceTypes
  <2> QED BY <2>2 DEF PausesRemembered
<1> QED BY <1>1, <1>2, <1>3, <1>4 DEF PauseHasCause, NewEntriesAreRead

LEMMA WaitStep == Pace /\ (ReadNothing \/ Resume) => Pace'
<1> SUFFICES ASSUME Pace, ReadNothing \/ Resume PROVE Pace'
  OBVIOUS
<1>1. /\ UNCHANGED <<next, last, pending, idle, waited>>
      /\ \/ at' = "blocked" /\ left' = Block
         \/ at' = "cycle" /\ left' = 0
  BY DEF ReadNothing, Resume, Wait
<1>2. Stuck' = Stuck /\ Unread' = Unread
  BY <1>1 DEF Stuck, Unread
<1> QED BY <1>1, <1>2, PaceAssumption
        DEF Pace, PaceTypes, PauseHasCause, PausesRemembered, NotYetWaiting,
            NewEntriesAreRead

LEMMA PaceStep == Pace /\ [Next]_vars => Pace'
<1> SUFFICES ASSUME Pace, [Next]_vars PROVE Pace'
  OBVIOUS
<1>1. CASE UNCHANGED vars
  BY <1>1 DEF vars, Pace, PaceTypes, PauseHasCause, PausesRemembered, NotYetWaiting,
              NewEntriesAreRead, Stuck, Unread
<1> QED BY <1>1, AppendStep, ReclaimStep, ReadStep, WaitStep, TickStep DEF Next

(* New entries are read although others fail for ever: whatever the number *)
(* of failing entries, as long as it is below the pauses in ReclaimIdle, no*)
(* entry waits for more than one pause of the loop per failing entry.      *)
THEOREM NewEntriesAreReadHolds == Spec => []NewEntriesAreRead
<1>1. Spec => []Pace
  BY PaceInit, PaceStep, PTL DEF Spec
<1> QED BY <1>1, PTL DEF Pace
=============================================================================
