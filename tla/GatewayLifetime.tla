---------------------------- MODULE GatewayLifetime ----------------------------
(***************************************************************************)
(* One gateway process and the time limits around a request: those of the  *)
(* HTTP server (main.go), the deadline of handleEvent, and the 5 s that    *)
(* Shutdown waits for requests after a signal.  What is cut off is a matter*)
(* of how these add up, and of what Shutdown takes for idle: net/http calls*)
(* a kept-alive connection idle until the whole header of its next request *)
(* has been read, a new one only after 5 s, which HeaderTimeout precludes. *)
(*                                                                         *)
(* A tick is half a second.  The answer is short and is written at once.   *)
(***************************************************************************)
EXTENDS Integers

CONSTANTS
    Clients,
    HeaderTimeout, ReadTimeout, WriteTimeout,   \* of http.Server
    Deadline,       \* of the admission in handleEvent
    Grace           \* of Shutdown

(* The values of main.go and server.go, in ticks, are 4, 6, 6, 1 and 10.   *)
ASSUME LifetimeAssumption ==
    /\ HeaderTimeout \in Nat /\ ReadTimeout \in Nat /\ WriteTimeout \in Nat
    /\ Deadline \in Nat /\ Grace \in Nat
    /\ HeaderTimeout <= ReadTimeout /\ ReadTimeout + Deadline < Grace

VARIABLES
    server,     \* "listening", "draining", "exited"
    grace,      \* ticks Shutdown still waits
    at,         \* where the request of each client is
    age,        \* ticks since its connection began to be read
    since,      \* ticks since its header was complete
    work,       \* ticks since its script was sent
    found,      \* clients whose connection Shutdown found idle
    slow        \* history: clients whose body came too late to be answered

clocks == <<age, since, work>>
vars == <<server, grace, at, clocks, found, slow>>

(* "header" is the first header of a connection, "next" a later one.       *)
Places == {"closed", "idle", "header", "next", "body", "admitting", "writing",
           "answered", "lost", "dropped", "cut"}
Idle   == {"idle", "next"}
Active == {"header", "body", "admitting", "writing"}

Goto(c, place) == at' = [at EXCEPT ![c] = place]

-----------------------------------------------------------------------------
(* The first bytes of a request, on a new connection or on one that is kept*)
(* alive.  Reading starts with the connection: the server waits for a new  *)
(* one that has sent nothing yet.                                          *)
Begin(c) ==
    /\ \/ server = "listening" /\ at[c] = "closed" /\ Goto(c, "header")
       \/ at[c] = "idle" /\ Goto(c, "next")
    /\ age' = [age EXCEPT ![c] = 0] /\ since' = [since EXCEPT ![c] = 0]
    /\ work' = [work EXCEPT ![c] = 0]
    /\ UNCHANGED <<server, grace, found, slow>>

(* The header is complete: the connection is no longer new or idle, and the*)
(* handler is called.                                                      *)
Header(c) ==
    /\ at[c] \in {"header", "next"} /\ Goto(c, "body")
    /\ UNCHANGED <<server, grace, clocks, found, slow>>

(* No request comes, or not the whole header: IdleTimeout or HeaderTimeout *)
(* has passed, or the client has closed the connection.                    *)
HeaderFails(c) ==
    /\ at[c] \in {"idle", "header", "next"} /\ Goto(c, "closed")
    /\ UNCHANGED <<server, grace, clocks, found, slow>>

(* The body is decoded and the script sent, or an error is answered: 400   *)
(* also for a body that ReadTimeout or the client has cut short.           *)
Body(c) ==
    /\ at[c] = "body"
    /\ \/ Goto(c, "admitting")
       \/ Goto(c, "writing")
    /\ slow' = IF since[c] + Deadline > WriteTimeout THEN slow \cup {c} ELSE slow
    /\ UNCHANGED <<server, grace, clocks, found>>

(* Mutant: the server has no ReadTimeout. *)
OverdueBodyWaits(c) ==
    \/ at[c] \in {"header", "next"} /\ age[c] >= HeaderTimeout
    \/ at[c] = "admitting" /\ work[c] >= Deadline

(* The client has no time left to send, or the deadline has come.          *)
Overdue(c) ==
    \/ at[c] \in {"header", "next"} /\ age[c] >= HeaderTimeout
    \/ at[c] = "body" /\ age[c] >= ReadTimeout
    \/ at[c] = "admitting" /\ work[c] >= Deadline

(* Redis answers, or the deadline has come.                                *)
Answer(c) ==
    /\ at[c] = "admitting" /\ Goto(c, "writing")
    /\ UNCHANGED <<server, grace, clocks, found, slow>>

(* Mutant: the write deadline is shorter. *)
WriteSooner(c) ==
    /\ at[c] = "writing"
    /\ Goto(c, IF since[c] < WriteTimeout - Deadline THEN "answered" ELSE "lost")
    /\ UNCHANGED <<server, grace, clocks, found, slow>>

(* The answer is written unless the write deadline, set when the header    *)
(* was complete, has passed.                                               *)
Write(c) ==
    /\ at[c] = "writing"
    /\ Goto(c, IF since[c] <= WriteTimeout THEN "answered" ELSE "lost")
    /\ UNCHANGED <<server, grace, clocks, found, slow>>

(* The connection is kept alive unless the server is shutting down.        *)
Again(c) ==
    /\ server = "listening" /\ at[c] = "answered"
    /\ Goto(c, "idle")
    /\ UNCHANGED <<server, grace, clocks, found, slow>>

-----------------------------------------------------------------------------
(* Half a second passes; what is overdue or ready to be written goes first.*)
(* Shutdown looks at all connections at once and then at least every half a*)
(* second: by then each one that was idle has been found and closed.       *)
Tick ==
    /\ \A c \in Clients : ~Overdue(c) /\ at[c] # "writing"
    /\ \E c \in Clients : at[c] \in Active \cup {"next"}
    /\ server = "draining" =>
          /\ grace > 0
          /\ \A c \in Clients : at[c] \notin Idle
          /\ \A c \in found : at[c] \notin Active
    /\ grace' = IF server = "draining" THEN grace - 1 ELSE grace
    /\ age'   = [c \in Clients |-> IF at[c] \in Active \cup {"next"}
                                   THEN age[c] + 1 ELSE age[c]]
    /\ since' = [c \in Clients |-> IF at[c] \in {"body", "admitting"}
                                   THEN since[c] + 1 ELSE since[c]]
    /\ work'  = [c \in Clients |-> IF at[c] = "admitting" THEN work[c] + 1 ELSE work[c]]
    /\ UNCHANGED <<server, at, found, slow>>

(* SIGTERM: Shutdown closes the listener.                                  *)
Signal ==
    /\ server = "listening" /\ server' = "draining"
    /\ grace' = Grace
    /\ UNCHANGED <<at, clocks, found, slow>>

(* Shutdown reads the state of a connection, and closes it if it is idle.  *)
(* In between the header can become complete: the handler then runs, the   *)
(* admission too, for a client that gets no answer.                        *)
FindIdle(c) ==
    /\ server = "draining" /\ at[c] \in Idle
    /\ found' = found \cup {c}
    /\ UNCHANGED <<server, grace, at, clocks, slow>>

CloseFound(c) ==
    /\ server = "draining" /\ c \in found
    /\ \/ at[c] = "idle"    /\ Goto(c, "closed")
       \/ at[c] = "next"    /\ Goto(c, "dropped")
       \/ at[c] \in Active  /\ Goto(c, "cut")
    /\ UNCHANGED <<server, grace, clocks, found, slow>>

(* Shutdown returns when all requests are done, or with an error when its  *)
(* time is over, and the process ends with what is under way.              *)
Exit ==
    /\ server = "draining" /\ server' = "exited"
    /\ grace = 0 \/ \A c \in Clients : at[c] \notin Active \cup Idle
    /\ at' = [c \in Clients |-> IF at[c] \in Active THEN "cut" ELSE at[c]]
    /\ UNCHANGED <<grace, clocks, found, slow>>

Init ==
    /\ server = "listening" /\ grace = Grace
    /\ at = [c \in Clients |-> "closed"] /\ age = [c \in Clients |-> 0]
    /\ since = [c \in Clients |-> 0] /\ work = [c \in Clients |-> 0]
    /\ found = {} /\ slow = {}

Handle(c) ==
    Header(c) \/ HeaderFails(c) \/ Body(c) \/ Answer(c) \/ Write(c)

Next ==
    \/ \E c \in Clients : \/ Begin(c) \/ Handle(c) \/ Again(c)
                         \/ FindIdle(c) \/ CloseFound(c)
    \/ Tick \/ Signal \/ Exit

Spec == Init /\ [][Next]_vars

TypeOK ==
    /\ server \in {"listening", "draining", "exited"} /\ grace \in 0..Grace
    /\ at \in [Clients -> Places]
    /\ age \in [Clients -> 0..(ReadTimeout + Deadline)]
    /\ since \in [Clients -> 0..(ReadTimeout + Deadline)]
    /\ work \in [Clients -> 0..Deadline]
    /\ found \subseteq Clients /\ slow \subseteq Clients

(* A shutdown waits for requests (main.go: dropped in-flight admissions    *)
(* cause provider retries).  A request it cuts off came on a kept-alive    *)
(* connection, its header still incomplete when Shutdown found the         *)
(* connection idle; all others have ended before the process does, however *)
(* slowly they are sent and whenever the signal comes.                     *)
ShutdownWaitsForRequests == \A c \in Clients : at[c] = "cut" => c \in found

(* An answer is lost only to a sender whose body takes so long that the    *)
(* deadline of the admission is behind the write deadline.                 *)
OnlySlowSendersLoseAnswers == \A c \in Clients : at[c] = "lost" => c \in slow
=============================================================================
