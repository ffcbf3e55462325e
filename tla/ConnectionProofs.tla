--------------------------- MODULE ConnectionProofs ---------------------------
(***************************************************************************)
(* The loop never finishes more than was delivered, and no entry is counted*)
(* twice, whichever answers were lost on the way: for any number of entries*)
(* and failures.                                                           *)
(***************************************************************************)
EXTENDS Connections, TLAPS

(* Every entry is unread, pending or finished, and was appended once.      *)
Conserved == TypeOK /\ fresh + pending <= total

LEMMA ConservedNumbers ==
    ASSUME Conserved
    PROVE  /\ MaxEntries \in Nat /\ MaxFaults \in Nat
           /\ fresh \in Nat /\ pending \in Nat /\ hand \in Nat /\ total \in Nat
           /\ hand <= pending /\ fresh + pending <= total /\ total <= MaxEntries
           /\ faults \in 0..MaxFaults
BY BoundsAssumption DEF Conserved, TypeOK

(* What a step may do to the entries: append one, read all that is fresh,  *)
(* finish some of those in hand, or change only which are in hand.         *)
LEMMA EntriesConserved ==
    ASSUME Conserved,
           \/ total < MaxEntries /\ fresh' = fresh + 1 /\ total' = total + 1
              /\ UNCHANGED <<pending, hand>>
           \/ fresh' = 0 /\ pending' = pending + fresh /\ total' = total
              /\ hand' \in {0, fresh}
           \/ pending' \in (pending - hand)..pending /\ hand' = 0
              /\ UNCHANGED <<fresh, total>>
           \/ hand' \in {0, hand, pending} /\ UNCHANGED <<fresh, pending, total>>
    PROVE  /\ fresh' \in 0..MaxEntries /\ pending' \in 0..MaxEntries
           /\ hand' \in 0..pending' /\ total' \in 0..MaxEntries
           /\ fresh' + pending' <= total'
BY ConservedNumbers

LEMMA FaultsBounded ==
    ASSUME Conserved, Fault \/ faults' = faults
    PROVE  faults' \in 0..MaxFaults
BY ConservedNumbers DEF Fault

LEMMA SocketsReplaced ==
    ASSUME Conserved, NEW s \in Sockets
    PROVE  Used(s) \in Sockets
BY DEF Used, Sockets

LEMMA ConservedInit == Init => Conserved
<1> SUFFICES ASSUME Init PROVE Conserved
  OBVIOUS
<1>1. /\ fresh \in 0..MaxEntries /\ pending \in 0..MaxEntries /\ hand \in 0..pending
      /\ total \in 0..MaxEntries /\ faults \in 0..MaxFaults /\ fresh + pending <= total
  BY BoundsAssumption DEF Init
<1> QED BY <1>1 DEF Init, Conserved, TypeOK, Sockets, Places

LEMMA ConservedStep == Conserved /\ [Next]_vars => Conserved'
<1> SUFFICES ASSUME Conserved, [Next]_vars PROVE Conserved'
  OBVIOUS
<1>0. TypeOK
  BY DEF Conserved
<1>1. /\ fresh' \in 0..MaxEntries /\ pending' \in 0..MaxEntries
      /\ hand' \in 0..pending' /\ total' \in 0..MaxEntries
      /\ fresh' + pending' <= total'
  <2>1. CASE Append
    BY <2>1, EntriesConserved DEF Append
  <2>2. CASE Read
    BY <2>2, EntriesConserved DEF Read
  <2>3. CASE Claim
    BY <2>3, EntriesConserved DEF Claim
  <2>4. CASE Finish
    <3>1. pending - hand \in (pending - hand)..pending
      BY ConservedNumbers
    <3> QED BY <2>4, <3>1, EntriesConserved DEF Finish
  <2>5. CASE FinishRefused \/ Kill
    BY <2>5, EntriesConserved DEF FinishRefused, Kill
  <2>6. CASE ReaderFails
    BY <2>6, EntriesConserved, ConservedNumbers DEF ReaderFails, ReadUnseen
  <2>7. CASE WriterFails
    BY <2>7, EntriesConserved DEF WriterFails, FinishedUnseen
  <2>8. CASE CycleTimesOut
    BY <2>8, EntriesConserved DEF CycleTimesOut, ReadUnseen, FinishedUnseen
  <2>9. CASE UNCHANGED entries
    BY <2>9, EntriesConserved DEF entries
  <2>10. CASE \/ Start \/ SkipClaim \/ Replace \/ Pause \/ Exit \/ Probe \/ Outage
              \/ Return \/ Drop \/ Signal \/ UNCHANGED vars
    BY <2>9, <2>10 DEF Start, SkipClaim, Replace, Pause, Exit, Probe, Outage, Return, Drop, Signal,
           vars
  <2> QED BY <2>1, <2>2, <2>3, <2>4, <2>5, <2>6, <2>7, <2>8, <2>9, <2>10 DEF Next, Loop
<1>2. faults' \in 0..MaxFaults
  <2>1. Fault \/ faults' = faults
    BY DEF Next, Loop, Start, Claim, SkipClaim, Read, Finish, FinishRefused, ReaderFails,
           WriterFails, CycleTimesOut, Replace, Pause, Exit, Probe, Append, Outage,
           Return, Drop, Signal, Kill, vars
  <2> QED BY <2>1, FaultsBounded
<1>3. reader' \in Sockets /\ writer' \in Sockets
  <2>1. reader \in Sockets /\ writer \in Sockets
    BY <1>0 DEF TypeOK
  <2>2. Used(reader) \in Sockets /\ Used(writer) \in Sockets
    BY <2>1, SocketsReplaced
  <2>3. reader' \in {reader, Used(reader), "open", "reset", "hole"}
    BY DEF Next, Loop, Start, Claim, SkipClaim, Read, Finish, FinishRefused, ReaderFails,
           WriterFails, CycleTimesOut, Replace, Reconnect, Pause, Exit, Probe, Append,
           Outage, Return, Drop, Signal, Kill, vars, sockets
  <2>4. writer' \in {writer, Used(writer), "open", "reset", "hole"}
    BY DEF Next, Loop, Start, Claim, SkipClaim, Read, Finish, FinishRefused, ReaderFails,
           WriterFails, CycleTimesOut, Replace, Reconnect, Pause, Exit, Probe, Append,
           Outage, Return, Drop, Signal, Kill, vars, sockets
  <2> QED BY <2>1, <2>2, <2>3, <2>4 DEF Sockets
<1>4. up' \in BOOLEAN /\ at' \in Places /\ ready' \in BOOLEAN /\ stop' \in BOOLEAN
  BY <1>0 DEF TypeOK, Places, Next, Loop, Start, Claim, SkipClaim, Read, Finish,
     FinishRefused, ReaderFails, WriterFails, CycleTimesOut, Replace, Pause, Exit,
     Probe, Append, Outage, Return, Drop, Signal, Kill, vars
<1> QED BY <1>1, <1>2, <1>3, <1>4 DEF Conserved, TypeOK

(* Whatever breaks while entries are read, claimed or finished, the loop   *)
(* has no more of them in hand than are pending, and no more are unread or *)
(* pending than were appended.                                             *)
THEOREM ConnectionTypeCorrect == Spec => []TypeOK
<1>1. Conserved => TypeOK
  BY DEF Conserved
<1> QED BY ConservedInit, ConservedStep, <1>1, PTL DEF Spec
=============================================================================
