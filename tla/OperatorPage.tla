------------------------------ MODULE OperatorPage ------------------------------
(***************************************************************************)
(* The operator page (server/web/index.html) in one browser tab, and as    *)
(* much of the gateway as it sees.  refresh, send and the handlers of the  *)
(* secret field are asynchronous functions on the same variables: between  *)
(* their awaits the operator edits the secret, other functions run and     *)
(* answers arrive late or never.                                           *)
(*                                                                         *)
(* A secret signs what is sent when a function starts.  The decisions the  *)
(* gateway can show are a version number that grows.                       *)
(***************************************************************************)
EXTENDS Integers, FiniteSets

CONSTANTS
    Secrets,        \* what the operator may type
    Good,           \* the gateway's secret
    None,           \* an empty field, nothing displayed, no request
    Slots,          \* room for concurrent refreshes
    MaxEdits,       \* bound: changes of the secret
    MaxDecisions,   \* bound: decisions made
    MaxSamples,     \* bound: sample events made
    MaxFaults       \* bound: answers lost, late or 503

ASSUME PageAssumption ==
    /\ Good \in Secrets /\ None \notin Secrets
    /\ MaxEdits \in Nat /\ MaxDecisions \in Nat
    /\ MaxSamples \in Nat /\ MaxFaults \in Nat

VARIABLES
    decided,        \* version of the decision stream
    accepted,       \* events the gateway has accepted
    secret,         \* the secret field
    invalid,        \* its aria-invalid attribute
    refreshing,     \* the flag of the same name
    flights,        \* the refreshes that await their two answers
    shown,          \* the table: the secret it was read with, and its version
    lastRefresh,    \* is there a time of the last refresh?
    health,         \* the status badge
    note,           \* the line under the queue: its last-updated part
    sending,        \* the flag of the same name
    lastEvent,      \* the event replay sends, 0 for null
    post,           \* the POST under way
    message,        \* what the page says of the last POST
    button,         \* the text of the replay button
    samples, edits, faults

refreshVars == <<refreshing, flights, shown, lastRefresh, health, note>>
sendVars    == <<sending, lastEvent, post, message, button, samples>>
vars == <<decided, accepted, secret, invalid, refreshVars, sendVars, edits, faults>>

Paths    == {"status", "decisions"}
Versions == 0..MaxDecisions
Sample   == 1..MaxSamples
Failures == {"401", "failed"}

Flight == [secret : Secrets, answer : [Paths -> {"", "200"} \cup Failures],
           version : Versions]
Post   == [event : Sample, bad : BOOLEAN, secret : Secrets,
           answer : {"", "202"} \cup Failures]

Table == [of : Secrets, version : Versions]

ASSUME NoneAssumption == None \notin Flight \cup Post \cup Table

Fault == faults < MaxFaults /\ faults' = faults + 1

-----------------------------------------------------------------------------
(* The gateway.                                                            *)
Decide ==
    /\ decided < MaxDecisions
    /\ decided' = decided + 1
    /\ UNCHANGED <<accepted, secret, invalid, refreshVars, sendVars, edits, faults>>

Answer(s, path, a) ==
    flights' = [flights EXCEPT ![s] =
        [secret  |-> @.secret,
         answer  |-> [@.answer EXCEPT ![path] = a],
         version |-> IF a = "200" /\ path = "decisions" THEN decided ELSE @.version]]

AnswerRead(s, path) ==
    /\ flights[s] # None /\ flights[s].answer[path] = ""
    /\ \/ flights[s].secret = Good /\ Answer(s, path, "200") /\ faults' = faults
       \/ flights[s].secret # Good /\ Answer(s, path, "401") /\ faults' = faults
       \/ Fault /\ Answer(s, path, "failed")
    /\ UNCHANGED <<decided, accepted, secret, invalid, refreshing, shown,
                   lastRefresh, health, note, sendVars, edits>>

(* A failed POST, an abort after 5 s included, may have been executed.     *)
AnswerPost ==
    /\ post # None /\ post.answer = ""
    /\ \/ /\ post.bad \/ post.secret # Good
          /\ post' = [post EXCEPT !.answer = "401"]
          /\ UNCHANGED <<accepted, faults>>
       \/ /\ ~post.bad /\ post.secret = Good
          /\ post' = [post EXCEPT !.answer = "202"]
          /\ accepted' = accepted \cup {post.event} /\ faults' = faults
       \/ /\ Fault
          /\ post' = [post EXCEPT !.answer = "failed"]
          /\ \/ accepted' = accepted
             \/ ~post.bad /\ post.secret = Good /\ accepted' = accepted \cup {post.event}
    /\ UNCHANGED <<decided, secret, invalid, refreshVars, sending, lastEvent,
                   message, button, samples, edits>>

-----------------------------------------------------------------------------
(* Mutant: the time of the last refresh outlives the secret. *)
KeepLastRefresh(s) ==
    /\ edits < MaxEdits /\ s # secret
    /\ edits' = edits + 1 /\ secret' = s
    /\ invalid' = FALSE /\ shown' = None
    /\ health' = "offline" /\ note' = "none"
    /\ UNCHANGED <<decided, accepted, refreshing, flights, lastRefresh, sendVars, faults>>

(* oninput: resetConnection.  An abandoned refresh goes on.                *)
Edit(s) ==
    /\ edits < MaxEdits /\ s # secret
    /\ edits' = edits + 1 /\ secret' = s
    /\ invalid' = FALSE /\ shown' = None /\ lastRefresh' = FALSE
    /\ health' = "offline" /\ note' = "none"
    /\ UNCHANGED <<decided, accepted, refreshing, flights, sendVars, faults>>

TakeOff(s) ==
    /\ flights[s] = None
    /\ flights' = [flights EXCEPT ![s] =
                      [secret |-> secret, answer |-> [p \in Paths |-> ""], version |-> 0]]
    /\ refreshing' = TRUE
    /\ UNCHANGED <<decided, accepted, secret, invalid, shown, lastRefresh,
                   health, note, sendVars, edits, faults>>

(* Mutant: a refresh starts while another one is under way. *)
RefreshAnyway(s) == secret # None /\ TakeOff(s)

(* refresh up to its await: the button, the poll every 2 s, a changed      *)
(* secret, 300 ms after a POST.                                            *)
Refresh(s) == ~refreshing /\ secret # None /\ TakeOff(s)

(* Both answers are data.                                                  *)
Landed(s) ==
    flights[s] # None /\ \A p \in Paths : flights[s].answer[p] = "200"

Display(s) ==
    /\ shown' = [of |-> flights[s].secret, version |-> flights[s].version]
    /\ health' = "connected" /\ invalid' = FALSE
    /\ lastRefresh' = TRUE /\ note' = "updated"

End(s) ==
    /\ refreshing' = FALSE /\ flights' = [flights EXCEPT ![s] = None]
    /\ UNCHANGED <<decided, accepted, secret, sendVars, edits, faults>>

(* Mutants: whatever arrives is displayed; the early return leaves the flag.*)
RenderAny(s) == Landed(s) /\ Display(s) /\ End(s)
RenderOrHang(s) ==
    /\ Landed(s)
    /\ IF flights[s].secret = secret THEN Display(s) /\ End(s)
       ELSE /\ flights' = [flights EXCEPT ![s] = None]
            /\ UNCHANGED <<decided, accepted, secret, invalid, refreshing, shown,
                           lastRefresh, health, note, sendVars, edits, faults>>

(* refresh after its await: data read with an old secret are dropped.      *)
Render(s) ==
    /\ Landed(s)
    /\ IF flights[s].secret = secret THEN Display(s)
       ELSE UNCHANGED <<shown, health, invalid, lastRefresh, note>>
    /\ End(s)

(* Promise.all is rejected by the first read that fails.                   *)
Report(s) ==
    /\ flights[s] # None
    /\ \E p \in Paths :
          /\ flights[s].answer[p] \in Failures
          /\ IF flights[s].secret = secret
             THEN LET refused == flights[s].answer[p] = "401"
                  IN  /\ health' = IF refused THEN "check" ELSE "unavailable"
                      /\ invalid' = (refused \/ invalid)
                      /\ note' = IF lastRefresh THEN "stale" ELSE "none"
             ELSE UNCHANGED <<health, invalid, note>>
    /\ UNCHANGED <<shown, lastRefresh>>
    /\ End(s)

-----------------------------------------------------------------------------
(* send up to its await: a new sample, the last event again, or a new      *)
(* sample with a wrong signature.                                          *)
Sending(event, bad) ==
    /\ sending' = TRUE /\ message' = [kind |-> "sending", event |-> event]
    /\ post' = [event |-> event, bad |-> bad, secret |-> secret, answer |-> ""]
    /\ UNCHANGED <<decided, accepted, secret, invalid, refreshVars, button, edits, faults>>

CanSend == ~sending /\ secret # None
NewSample == samples < MaxSamples /\ samples' = samples + 1

(* Mutant: the event is not kept before the await. *)
SendForgets == CanSend /\ NewSample /\ lastEvent' = lastEvent /\ Sending(samples', FALSE)

Send    == CanSend /\ NewSample /\ lastEvent' = samples' /\ Sending(samples', FALSE)
Replay  == /\ CanSend /\ lastEvent # 0
           /\ UNCHANGED <<lastEvent, samples>> /\ Sending(lastEvent, FALSE)
SendBad == CanSend /\ NewSample /\ lastEvent' = lastEvent /\ Sending(samples', TRUE)

(* send after its awaits.  The second one, of explainFailure, is passed    *)
(* with the first: in between only the answer is looked at.                *)
Sent ==
    /\ post # None /\ post.answer # ""
    /\ sending' = FALSE /\ post' = None
    /\ message' = [kind |-> post.answer, event |-> IF post.bad THEN 0 ELSE post.event]
    /\ button' = IF post.bad THEN button
                 ELSE IF post.answer = "202" THEN "Replay last" ELSE "Retry last"
    /\ invalid' = (invalid \/ (~post.bad /\ post.answer = "401"))
    /\ UNCHANGED <<decided, accepted, secret, refreshVars, lastEvent, samples,
                   edits, faults>>

-----------------------------------------------------------------------------
Init ==
    /\ decided = 0 /\ accepted = {} /\ secret = None /\ invalid = FALSE
    /\ refreshing = FALSE /\ flights = [s \in Slots |-> None]
    /\ shown = None /\ lastRefresh = FALSE /\ health = "offline" /\ note = "none"
    /\ sending = FALSE /\ lastEvent = 0 /\ post = None
    /\ message = [kind |-> "none", event |-> 0] /\ button = "Replay last"
    /\ samples = 0 /\ edits = 0 /\ faults = 0

Next ==
    \/ Decide
    \/ \E s \in Slots : \/ \E p \in Paths : AnswerRead(s, p)
                        \/ Refresh(s) \/ Render(s) \/ Report(s)
    \/ \E s \in Secrets \cup {None} : Edit(s)
    \/ AnswerPost \/ Send \/ Replay \/ SendBad \/ Sent

Spec == Init /\ [][Next]_vars

(* The poll runs every 2 s; a read is answered or aborted after 5 s.       *)
FairSpec ==
    /\ Spec
    /\ WF_vars(\E s \in Slots : Refresh(s))
    /\ \A s \in Slots :
          /\ \A p \in Paths : WF_vars(AnswerRead(s, p))
          /\ WF_vars(Render(s) \/ Report(s))
    /\ WF_vars(AnswerPost) /\ WF_vars(Sent)

TypeOK ==
    /\ decided \in Versions /\ accepted \subseteq Sample
    /\ secret \in Secrets \cup {None} /\ invalid \in BOOLEAN
    /\ refreshing \in BOOLEAN /\ flights \in [Slots -> Flight \cup {None}]
    /\ refreshing <=> \E s \in Slots : flights[s] # None
    /\ shown \in Table \cup {None}
    /\ lastRefresh \in BOOLEAN
    /\ health \in {"offline", "connected", "check", "unavailable"}
    /\ note \in {"none", "updated", "stale"}
    /\ sending \in BOOLEAN /\ lastEvent \in 0..MaxSamples
    /\ post \in Post \cup {None}
    /\ button \in {"Replay last", "Retry last"}
    /\ samples \in 0..MaxSamples /\ edits \in 0..MaxEdits /\ faults \in 0..MaxFaults

(* Decisions are displayed only under the secret they were read with, which*)
(* is the gateway's: nothing read before an edit appears after it.         *)
ShownUnderItsSecret == shown # None => shown.of = secret /\ secret = Good

(* What is displayed and not current is labelled with its age, and an age  *)
(* is given only for what is displayed.                                    *)
StaleIsLabelled ==
    /\ shown # None /\ health # "connected" => note = "stale"
    /\ shown = None => note = "none"

(* The table never goes back: an earlier read does not replace a later one,*)
(* however long its answers took.                                          *)
TableNeverGoesBack ==
    [][shown # None /\ shown' # None => shown.version <= shown'.version]_vars

(* Retrying is safe.  After a POST without an answer the replay button     *)
(* holds that very event, and "Replay last" always one that was accepted.  *)
RetryResendsTheAttempt ==
    ~sending =>
        /\ message.kind = "failed" /\ message.event # 0 => message.event = lastEvent
        /\ lastEvent # 0 /\ button = "Replay last" => lastEvent \in accepted

(* Once the gateway's secret stays in the field and failures stop, the page*)
(* shows all decisions, is connected and does not fault the secret, however*)
(* many answers for old secrets were still under way.                      *)
PageCatchesUp ==
    <>[](secret = Good) =>
        <>[](/\ shown = [of |-> Good, version |-> decided]
             /\ health = "connected" /\ ~invalid)
=============================================================================
