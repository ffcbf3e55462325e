---------------------------- MODULE LifetimeProofs ----------------------------
(***************************************************************************)
(* A shutdown waits for every request but those on connections it found    *)
(* idle, for every choice of time limits that satisfies LifetimeAssumption.*)
(* A request under way has used up some of its limits; the invariant is    *)
(* that what is left of them is less than what is left of the grace of     *)
(* Shutdown, and that idle connections are only found before the clock of  *)
(* the shutdown has moved.                                                 *)
(***************************************************************************)
EXTENDS GatewayLifetime, TLAPS

(* The clocks of a request while it is under way.                          *)
InLimits(c) ==
    /\ at[c] \in {"header", "next"} =>
          age[c] <= HeaderTimeout /\ since[c] = 0 /\ work[c] = 0
    /\ at[c] = "body" => age[c] <= ReadTimeout /\ since[c] <= age[c] /\ work[c] = 0
    /\ at[c] = "admitting" =>
          /\ age[c] - work[c] <= ReadTimeout /\ since[c] <= age[c]
          /\ since[c] - work[c] + Deadline > WriteTimeout => c \in slow
    /\ at[c] = "writing" /\ since[c] > WriteTimeout => c \in slow
    /\ at[c] = "lost" => c \in slow

(* The time a request may still take is shorter than the grace.            *)
InGrace(c) ==
    server = "draining" =>
        /\ at[c] \in {"header", "body"} => ReadTimeout - age[c] + Deadline < grace
        /\ at[c] = "admitting" => Deadline - work[c] < grace
        /\ at[c] = "writing" => grace > 0
        /\ at[c] \in Idle => grace = Grace

WaitedFor(c) == at[c] = "cut" => c \in found

Lifetime ==
    /\ TypeOK
    /\ \A c \in Clients : InLimits(c) /\ InGrace(c) /\ WaitedFor(c)

LEMMA LifetimeInit == Init => Lifetime
  BY LifetimeAssumption DEF Init, Lifetime, TypeOK, InLimits, InGrace, WaitedFor, Places, Idle

(* A step of one request leaves the clocks and the other requests alone.   *)
LEMMA RequestStep ==
  ASSUME Lifetime, NEW c \in Clients,
         Begin(c) \/ Handle(c) \/ Again(c) \/ FindIdle(c) \/ CloseFound(c)
  PROVE  Lifetime'
<1> USE LifetimeAssumption DEF Lifetime, TypeOK, InLimits, InGrace, WaitedFor,
       Goto, Places, Idle, clocks
<1>1. CASE Begin(c)
  BY <1>1 DEF Begin
<1>2. CASE Header(c)
  BY <1>2 DEF Header
<1>3. CASE HeaderFails(c)
  BY <1>3 DEF HeaderFails
<1>4. CASE Body(c)
  BY <1>4 DEF Body
<1>5. CASE Answer(c)
  BY <1>5 DEF Answer
<1>6. CASE Write(c)
  BY <1>6 DEF Write
<1>7. CASE Again(c)
  BY <1>7 DEF Again
<1>8. CASE FindIdle(c)
  BY <1>8 DEF FindIdle
<1>9. CASE CloseFound(c)
  BY <1>9 DEF CloseFound, Active
<1> QED BY <1>1, <1>2, <1>3, <1>4, <1>5, <1>6, <1>7, <1>8, <1>9 DEF Handle

(* Half a second is taken from the grace and from every request alike.     *)
LEMMA TickStep == Lifetime /\ Tick => Lifetime'
<1> SUFFICES ASSUME Lifetime, Tick PROVE Lifetime'
  OBVIOUS
<1> USE LifetimeAssumption
<1>1. \A c \in Clients :
        /\ at[c] \in {"header", "next"} => age[c] < HeaderTimeout
        /\ at[c] = "body" => age[c] < ReadTimeout
        /\ at[c] = "admitting" => work[c] < Deadline
        /\ at[c] # "writing"
  BY DEF Tick, Overdue, Lifetime, TypeOK
<1>2. TypeOK'
  BY <1>1 DEF Tick, Lifetime, TypeOK, InLimits, Active, clocks
<1>3. ASSUME NEW c \in Clients PROVE (InLimits(c) /\ InGrace(c) /\ WaitedFor(c))'
  BY <1>1 DEF Tick, Lifetime, TypeOK, InLimits, InGrace, WaitedFor, Active, Idle
<1> QED BY <1>2, <1>3 DEF Lifetime

LEMMA LifetimeStep == Lifetime /\ [Next]_vars => Lifetime'
<1> SUFFICES ASSUME Lifetime, [Next]_vars PROVE Lifetime'
  OBVIOUS
<1>1. CASE \E c \in Clients : \/ Begin(c) \/ Handle(c) \/ Again(c)
                              \/ FindIdle(c) \/ CloseFound(c)
  BY <1>1, RequestStep
<1>2. CASE Tick
  BY <1>2, TickStep
<1>3. CASE Signal
  BY <1>3, LifetimeAssumption
     DEF Signal, Lifetime, TypeOK, InLimits, InGrace, WaitedFor, clocks
<1>4. CASE Exit
  BY <1>4, LifetimeAssumption
     DEF Exit, Lifetime, TypeOK, InLimits, InGrace, WaitedFor, Places,
         Active, Idle, clocks
<1>5. CASE UNCHANGED vars
  BY <1>5 DEF vars, clocks, Lifetime, TypeOK, InLimits, InGrace, WaitedFor
<1> QED BY <1>1, <1>2, <1>3, <1>4, <1>5 DEF Next

(* Every clock stays within its limits.                                    *)
THEOREM LifetimeTypeCorrect == Spec => []TypeOK
<1>1. Lifetime => TypeOK
  BY DEF Lifetime
<1> QED BY <1>1, LifetimeInit, LifetimeStep, PTL DEF Spec

(* Shutdown waits for requests, however many clients there are and whenever*)
(* the signal comes, if reading and admitting together take less than the  *)
(* grace: what it cuts off, it had found idle.                             *)
THEOREM ShutdownWaitsForRequestsHolds == Spec => []ShutdownWaitsForRequests
<1>1. Lifetime => ShutdownWaitsForRequests
  BY DEF Lifetime, WaitedFor, ShutdownWaitsForRequests
<1> QED BY <1>1, LifetimeInit, LifetimeStep, PTL DEF Spec

(* An answer is lost to slow senders only.                                 *)
THEOREM OnlySlowSendersLoseAnswersHolds == Spec => []OnlySlowSendersLoseAnswers
<1>1. Lifetime => OnlySlowSendersLoseAnswers
  BY DEF Lifetime, InLimits, OnlySlowSendersLoseAnswers
<1> QED BY <1>1, LifetimeInit, LifetimeStep, PTL DEF Spec
=============================================================================
