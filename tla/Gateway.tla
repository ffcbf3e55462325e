------------------------------- MODULE Gateway -------------------------------
(***************************************************************************)
(* The Go gateway's POST /v1/events: handleEvent, the admission script it  *)
(* runs in Redis, and the answer it writes.  A gateway keeps no state of   *)
(* its own between requests, so replicas are not distinguished: every HTTP *)
(* attempt is a request, wherever it lands, and a provider's retry is      *)
(* another request that carries the same message.                          *)
(*                                                                         *)
(* The script runs when Redis gets to it.  The handler's 500 ms deadline   *)
(* can pass first: the handler then answers 503 without knowing whether    *)
(* the script has run, will run or was lost with the connection.           *)
(***************************************************************************)
EXTENDS RedisStore

CONSTANT Requests   \* HTTP attempts: the bound on what providers send

VARIABLES
    msg,        \* the event each request carries, once it has been accepted
    ran,        \* what the admission script returned for it, in Redis
    answer      \* the response the gateway wrote

gatewayVars == <<msg, ran, answer>>

Results == {"new", "dup", "conflict", "full", "error"}

-----------------------------------------------------------------------------
(* A request that fails a check before admission - body size (413), the    *)
(* signature of the raw bytes (401), the contract (400) - never reaches    *)
(* Redis.                                                                  *)
Refuse(r) ==
    /\ msg[r] = None /\ answer[r] = "none"
    /\ answer' = [answer EXCEPT ![r] = "4xx"]
    /\ UNCHANGED <<msg, ran, storeVars, faults>>

(* A request that passes them: its canonical payload is sent to the script.*)
Accept(r, m) ==
    /\ msg[r] = None /\ answer[r] = "none"
    /\ msg' = [msg EXCEPT ![r] = m]
    /\ UNCHANGED <<ran, answer, storeVars, faults>>

(* The admission script of request r is still to run.                      *)
Sent(r) == msg[r] # None /\ ran[r] = "no"

Prior(r) == mark[msg[r].event]

Return(r, result) == ran' = [ran EXCEPT ![r] = result]

(* Mutant: the digests are not compared. *)
AdmitKnownById(r) ==
    /\ Sent(r) /\ Prior(r) # None
    /\ Return(r, "dup")
    /\ UNCHANGED <<msg, answer, storeVars, faults>>

(* A live marker decides first, whatever the length of the queue.          *)
AdmitKnown(r) ==
    /\ Sent(r) /\ Prior(r) # None
    /\ Return(r, IF Prior(r) = msg[r].data THEN "dup" ELSE "conflict")
    /\ UNCHANGED <<msg, answer, storeVars, faults>>

(* Mutant: off by one. *)
QueueIsOverfull == XLen > MaxQueue

(* The stream holds as many unfinished entries as it may.                  *)
QueueIsFull == XLen >= MaxQueue

(* Mutant: the length is looked at before the marker. *)
AdmitFullFirst(r) ==
    /\ Sent(r)
    /\ QueueIsFull
    /\ Return(r, "full")
    /\ UNCHANGED <<msg, answer, storeVars, faults>>

AdmitFull(r) ==
    /\ Sent(r) /\ Prior(r) = None
    /\ QueueIsFull
    /\ Return(r, "full")
    /\ UNCHANGED <<msg, answer, storeVars, faults>>

(* Mutant: the marker expires a second too early. *)
AdmitNewShort(r) ==
    /\ Sent(r) /\ Prior(r) = None
    /\ ~QueueIsFull
    /\ mark'     = [mark EXCEPT ![msg[r].event] = msg[r].data]
    /\ markLeft' = [markLeft EXCEPT ![msg[r].event] = AdmitTTL - 1]
    /\ XAdd(msg[r])
    /\ Return(r, "new")
    /\ UNCHANGED <<msg, answer, groupVars, done, outputs, faults>>

(* The marker is set with its expiry and the event appended, in one script.*)
AdmitNew(r) ==
    /\ Sent(r) /\ Prior(r) = None
    /\ ~QueueIsFull
    /\ mark'     = [mark EXCEPT ![msg[r].event] = msg[r].data]
    /\ markLeft' = [markLeft EXCEPT ![msg[r].event] = AdmitTTL]
    /\ XAdd(msg[r])
    /\ Return(r, "new")
    /\ UNCHANGED <<msg, answer, groupVars, done, outputs, faults>>

(* Mutant: a failed append leaves the marker behind. *)
AdmitAppendLeavesMarker(r) ==
    /\ Sent(r) /\ Prior(r) = None
    /\ ~QueueIsFull
    /\ Fault
    /\ mark'     = [mark EXCEPT ![msg[r].event] = msg[r].data]
    /\ markLeft' = [markLeft EXCEPT ![msg[r].event] = AdmitTTL]
    /\ Return(r, "error")
    /\ UNCHANGED <<msg, answer, streamVars, groupVars, done, outputs>>

(* XADD fails after the marker was set (out of memory): the script removes *)
(* the marker again before it returns the error.                           *)
AdmitAppendFails(r) ==
    /\ Sent(r) /\ Prior(r) = None
    /\ ~QueueIsFull
    /\ Fault
    /\ mark'     = [mark EXCEPT ![msg[r].event] = None]
    /\ markLeft' = [markLeft EXCEPT ![msg[r].event] = 0]
    /\ Return(r, "error")
    /\ UNCHANGED <<msg, answer, streamVars, groupVars, done, outputs>>

AdmitScript(r) ==
    AdmitKnown(r) \/ AdmitFull(r) \/ AdmitNew(r) \/ AdmitAppendFails(r)

-----------------------------------------------------------------------------
(* Script result to HTTP status; 202-dup is 202 with the duplicate header. *)
StatusOf(result) ==
    CASE result = "new"      -> "202"
      [] result = "dup"      -> "202-dup"
      [] result = "conflict" -> "409"
      [] result \in {"full", "error"} -> "503"

Reply(r) ==
    /\ ran[r] # "no" /\ answer[r] = "none"
    /\ answer' = [answer EXCEPT ![r] = StatusOf(ran[r])]
    /\ UNCHANGED <<msg, ran, storeVars, faults>>

(* The deadline passes, or the connection fails, before the result is in.  *)
(* What was sent may still run.                                            *)
Expire(r) ==
    /\ msg[r] # None /\ answer[r] = "none"
    /\ answer' = [answer EXCEPT ![r] = "503"]
    /\ UNCHANGED <<msg, ran, storeVars, faults>>

GatewayInit ==
    /\ msg    = [r \in Requests |-> None]
    /\ ran    = [r \in Requests |-> "no"]
    /\ answer = [r \in Requests |-> "none"]

GatewayNext ==
    \E r \in Requests :
        \/ Refuse(r)
        \/ \E m \in Message : Accept(r, m)
        \/ AdmitScript(r)
        \/ Reply(r)
        \/ Expire(r)

GatewayTypeOK ==
    /\ msg \in [Requests -> Message \cup {None}]
    /\ ran \in [Requests -> Results \cup {"no"}]
    /\ answer \in [Requests -> {"none", "202", "202-dup", "409", "4xx", "503"}]
=============================================================================
