------------------------------ MODULE PageProofs ------------------------------
(***************************************************************************)
(* Theorems about the operator page for any secrets, edits, answers and    *)
(* failures.  Reading and sending share nothing but the secret, so each has*)
(* an invariant of its own.                                                *)
(***************************************************************************)
EXTENDS OperatorPage, TLAPS

-----------------------------------------------------------------------------
(* Reading.  One refresh at a time is under way (that is what refreshing is *)
(* for), its data are only those of the right secret, and no older than the *)
(* table it will replace.                                                  *)
OneFlight ==
    \A s, t \in Slots : flights[s] # None /\ flights[t] # None => s = t

DataAreSigned ==
    \A s \in Slots : \A p \in Paths :
        flights[s] # None /\ flights[s].answer[p] = "200" => flights[s].secret = Good

DataAreNewer ==
    /\ shown # None => shown.version <= decided
    /\ \A s \in Slots : flights[s] # None => flights[s].version <= decided
    /\ \A s \in Slots :
          shown # None /\ flights[s] # None /\ flights[s].answer["decisions"] = "200"
              => shown.version <= flights[s].version

(* refreshing is the flag of the one refresh under way.                    *)
PageTypes == TypeOK /\ OneFlight

Reading ==
    /\ PageTypes /\ DataAreSigned /\ DataAreNewer
    /\ lastRefresh <=> shown # None
    /\ ShownUnderItsSecret /\ StaleIsLabelled

-----------------------------------------------------------------------------
(* Sending.  The POST under way is the attempt that replay would resend,   *)
(* unless its signature is wrong on purpose.                               *)
PostIsTheAttempt ==
    /\ sending <=> post # None
    /\ post # None =>
          /\ ~post.bad => post.event = lastEvent
          /\ post.answer = "202" => ~post.bad /\ post.event \in accepted

ReplayIsAccepted ==
    lastEvent # 0 /\ button = "Replay last" /\ (post # None => post.bad)
        => lastEvent \in accepted

MessageType ==
    message \in [kind : {"none", "sending", "202"} \cup Failures, event : 0..MaxSamples]

Resending ==
    /\ PageTypes /\ MessageType
    /\ PostIsTheAttempt /\ ReplayIsAccepted
    /\ RetryResendsTheAttempt

-----------------------------------------------------------------------------
LEMMA FlightMade ==
    ASSUME NEW x \in Secrets, NEW y \in [Paths -> {"", "200"} \cup Failures],
           NEW z \in Versions
    PROVE  [secret |-> x, answer |-> y, version |-> z] \in Flight
BY DEF Flight

(* The flights stay of their type, one answer at a time.                   *)
LEMMA FlightAnswered ==
    ASSUME TypeOK, NEW s \in Slots, NEW p \in Paths, AnswerRead(s, p)
    PROVE  /\ flights' \in [Slots -> Flight \cup {None}]
           /\ \A t \in Slots : t # s => flights'[t] = flights[t]
           /\ flights[s] # None /\ flights'[s] # None
           /\ flights'[s].secret = flights[s].secret
           /\ flights'[s].version \in {decided, flights[s].version}
           /\ \A q \in Paths :
                 \/ flights'[s].answer[q] = flights[s].answer[q]
                 \/ q = p /\ (flights'[s].answer[q] = "200" => flights[s].secret = Good)
           /\ flights'[s].answer["decisions"] = "200" =>
                 \/ flights'[s].version = decided
                 \/ /\ flights[s].answer["decisions"] = "200"
                    /\ flights'[s].version = flights[s].version
<1>1. flights[s] # None /\ flights[s] \in Flight
  BY DEF TypeOK, AnswerRead
<1>2. PICK a \in {"200"} \cup Failures :
          Answer(s, p, a) /\ (a = "200" => flights[s].secret = Good)
  <2>1. \/ Answer(s, p, "200") /\ flights[s].secret = Good
        \/ Answer(s, p, "401") \/ Answer(s, p, "failed")
    BY DEF AnswerRead
  <2>2. "401" \in Failures /\ "failed" \in Failures /\ "200" # "401" /\ "200" # "failed"
    BY DEF Failures
  <2> QED BY <2>1, <2>2
<1>3. flights'[s] =
         [secret  |-> flights[s].secret,
          answer  |-> [flights[s].answer EXCEPT ![p] = a],
          version |-> IF a = "200" /\ p = "decisions" THEN decided ELSE flights[s].version]
  BY <1>2 DEF Answer, TypeOK
<1>4. [flights[s].answer EXCEPT ![p] = a] \in [Paths -> {"", "200"} \cup Failures]
  <2>1. flights[s].answer \in [Paths -> {"", "200"} \cup Failures]
    BY <1>1 DEF Flight
  <2>2. a \in {"", "200"} \cup Failures
    BY <1>2
  <2> QED BY <2>1, <2>2
<1>5. flights'[s] \in Flight
  <2>1. flights[s].secret \in Secrets /\ flights[s].version \in Versions
    BY <1>1 DEF Flight
  <2>2. decided \in Versions
    BY DEF TypeOK
  <2>3. (IF a = "200" /\ p = "decisions" THEN decided ELSE flights[s].version) \in Versions
    BY <2>1, <2>2
  <2> DEFINE version == IF a = "200" /\ p = "decisions" THEN decided ELSE flights[s].version
  <2>4. flights'[s] = [secret |-> flights[s].secret,
                       answer |-> [flights[s].answer EXCEPT ![p] = a], version |-> version]
    BY <1>3
  <2> HIDE DEF version
  <2> QED BY <1>4, <2>1, <2>3, <2>4, FlightMade DEF version
<1>6. flights' \in [Slots -> Flight \cup {None}] /\ flights'[s] # None
  <2>1. flights \in [Slots -> Flight \cup {None}]
    BY DEF TypeOK
  <2>2. flights' = [t \in Slots |-> flights'[t]]
    BY <1>2, <2>1 DEF Answer
  <2>3. \A t \in Slots : flights'[t] \in Flight \cup {None}
    <3> SUFFICES ASSUME NEW t \in Slots, t # s PROVE flights'[t] \in Flight \cup {None}
      BY <1>5
    <3>1. flights'[t] = flights[t]
      BY <1>2, <2>1 DEF Answer
    <3> QED BY <2>1, <3>1
  <2>4. flights'[s] # None
    BY <1>5, NoneAssumption
  <2> QED BY <2>2, <2>3, <2>4
<1>7. \A q \in Paths : flights'[s].answer[q] = IF q = p THEN a ELSE flights[s].answer[q]
  <2>1. flights[s].answer \in [Paths -> {"", "200"} \cup Failures]
    BY <1>1 DEF Flight
  <2>2. flights'[s].answer = [flights[s].answer EXCEPT ![p] = a]
    BY <1>3
  <2> QED BY <2>1, <2>2
<1>8. \A t \in Slots : t # s => flights'[t] = flights[t]
  BY <1>2 DEF Answer, TypeOK
<1> QED BY <1>1, <1>2, <1>3, <1>6, <1>7, <1>8 DEF Paths

(* The POST stays of its type, and only its answer changes.                *)
Answered(x, a) == [x EXCEPT !.answer = a]

LEMMA PostAnswered ==
    ASSUME NEW x \in Post, NEW a \in {"", "202"} \cup Failures
    PROVE  /\ Answered(x, a) \in Post /\ Answered(x, a).answer = a
           /\ Answered(x, a).event = x.event /\ Answered(x, a).bad = x.bad
           /\ Answered(x, a).secret = x.secret
BY DEF Post, Answered

(* One refresh starts and ends at a time.                                  *)
LEMMA FlightTaken ==
    ASSUME TypeOK, OneFlight, NEW s \in Slots, Refresh(s)
    PROVE  /\ flights' \in [Slots -> Flight \cup {None}]
           /\ flights'[s] # None
           /\ \A t \in Slots : t # s => flights[t] = None /\ flights'[t] = None
           /\ flights'[s].version = 0 /\ \A p \in Paths : flights'[s].answer[p] = ""
<1> DEFINE new == [secret |-> secret, answer |-> [p \in Paths |-> ""], version |-> 0]
<1>1. new \in Flight
  <2>1. secret \in Secrets
    BY DEF TypeOK, Refresh
  <2>2. 0 \in Versions
    BY PageAssumption DEF Versions
  <2>3. [p \in Paths |-> ""] \in [Paths -> {"", "200"} \cup Failures]
    OBVIOUS
  <2> QED BY <2>1, <2>2, <2>3, FlightMade
<1>2. flights' = [flights EXCEPT ![s] = new]
  BY DEF Refresh, TakeOff
<1>3. new.version = 0 /\ \A p \in Paths : new.answer[p] = ""
  OBVIOUS
<1> HIDE DEF new
<1>4. flights \in [Slots -> Flight \cup {None}]
  BY DEF TypeOK
<1>5. flights' \in [Slots -> Flight \cup {None}]
  BY <1>1, <1>2, <1>4
<1>6. flights'[s] = new /\ \A t \in Slots : t # s => flights'[t] = flights[t]
  BY <1>2, <1>4
<1>7. \A t \in Slots : flights[t] = None
  BY DEF TypeOK, Refresh
<1>8. new # None
  BY <1>1, NoneAssumption
<1> QED BY <1>3, <1>5, <1>6, <1>7, <1>8

LEMMA FlightEnded ==
    ASSUME TypeOK, OneFlight, NEW s \in Slots, flights[s] # None, End(s)
    PROVE  /\ flights' \in [Slots -> Flight \cup {None}]
           /\ \A t \in Slots : flights'[t] = None
           /\ flights[s] \in Flight
<1>1. flights \in [Slots -> Flight \cup {None}]
  BY DEF TypeOK
<1>2. flights' = [flights EXCEPT ![s] = None]
  BY DEF End
<1> QED BY <1>1, <1>2 DEF OneFlight

LEMMA CountersGrow ==
    ASSUME NEW m \in Nat, NEW n \in 0..m
    PROVE  0 \in 0..m /\ 1..m \subseteq 0..m
           /\ (n < m => n + 1 \in 0..m) /\ (n # 0 => n \in 1..m)
OBVIOUS

LEMMA CounterTypes ==
    ASSUME TypeOK
    PROVE  /\ decided \in 0..MaxDecisions /\ samples \in 0..MaxSamples
           /\ lastEvent \in 0..MaxSamples
           /\ edits \in 0..MaxEdits /\ faults \in 0..MaxFaults
BY DEF TypeOK, Versions

(* What the three buttons have in common.                                  *)
Launch(event, bad) ==
    /\ CanSend /\ Sending(event, bad)
    /\ samples' = samples \/ NewSample
    /\ \/ bad = TRUE /\ event = samples' /\ NewSample /\ lastEvent' = lastEvent
       \/ bad = FALSE /\ event = lastEvent' /\ lastEvent' # 0
          /\ (lastEvent' = lastEvent \/ (NewSample /\ lastEvent' = samples'))

LEMMA Launches ==
    ASSUME TypeOK, Send \/ Replay \/ SendBad
    PROVE  \E event, bad : Launch(event, bad)
<1>1. CASE Send
  <2>1. samples' # 0
    BY <1>1, CounterTypes DEF Send, NewSample
  <2>2. Launch(samples', FALSE)
    BY <1>1, <2>1 DEF Send, Launch
  <2> QED BY <2>2
<1>2. CASE Replay
  <2>1. Launch(lastEvent, FALSE)
    BY <1>2 DEF Replay, Launch
  <2> QED BY <2>1
<1>3. CASE SendBad
  <2>1. Launch(samples', TRUE)
    BY <1>3 DEF SendBad, Launch
  <2> QED BY <2>1
<1> QED BY <1>1, <1>2, <1>3

LEMMA Launched ==
    ASSUME TypeOK, NEW event, NEW bad, Launch(event, bad)
    PROVE  /\ post' \in Post /\ samples' \in 0..MaxSamples
           /\ lastEvent' \in 0..MaxSamples
           /\ event \in Sample /\ bad \in BOOLEAN
           /\ post'.event = event /\ post'.bad = bad /\ post'.answer = ""
<1>1. samples' \in 0..MaxSamples /\ (NewSample => samples' \in Sample)
  BY PageAssumption, CounterTypes, CountersGrow DEF Launch, NewSample, Sample
<1>2. lastEvent' \in 0..MaxSamples
  BY <1>1, CounterTypes DEF Launch
<1>3. event \in Sample /\ bad \in BOOLEAN
  <2>1. lastEvent' # 0 => lastEvent' \in Sample
    BY <1>2, PageAssumption, CountersGrow DEF Sample
  <2> QED BY <1>1, <2>1 DEF Launch
<1>4. secret \in Secrets
  BY DEF Launch, CanSend, TypeOK
<1>5. post' = [event |-> event, bad |-> bad, secret |-> secret, answer |-> ""]
  BY DEF Launch, Sending
<1> QED BY <1>1, <1>2, <1>3, <1>4, <1>5 DEF Post

-----------------------------------------------------------------------------
(* Type correctness.                                                       *)
LEMMA PageTypesInit == Init => PageTypes
<1> SUFFICES ASSUME Init PROVE PageTypes
  OBVIOUS
<1>1. /\ decided \in Versions /\ lastEvent \in 0..MaxSamples /\ samples \in 0..MaxSamples
      /\ edits \in 0..MaxEdits /\ faults \in 0..MaxFaults
  <2>1. 0 \in Versions /\ 0 \in 0..MaxSamples /\ 0 \in 0..MaxEdits /\ 0 \in 0..MaxFaults
    BY PageAssumption DEF Versions
  <2> QED BY <2>1 DEF Init
<1>2. flights \in [Slots -> Flight \cup {None}] /\ \A s \in Slots : flights[s] = None
  BY DEF Init
<1> QED BY <1>1, <1>2 DEF Init, PageTypes, TypeOK, OneFlight

LEMMA PageTypesStep == PageTypes /\ [Next]_vars => PageTypes'
<1> SUFFICES ASSUME TypeOK, OneFlight, [Next]_vars PROVE PageTypes'
  BY DEF PageTypes
<1>1. CASE Decide
  <2>1. decided' \in Versions
    BY <1>1, PageAssumption, CounterTypes, CountersGrow DEF Decide, Versions
  <2> QED BY <1>1, <2>1 DEF Decide, refreshVars, sendVars, PageTypes, TypeOK, OneFlight
<1>2. ASSUME NEW s \in Slots, NEW p \in Paths, AnswerRead(s, p) PROVE PageTypes'
  <2>1. flights' \in [Slots -> Flight \cup {None}]
    BY <1>2, FlightAnswered
  <2>2. \A t \in Slots : flights'[t] # None <=> flights[t] # None
    BY <1>2, FlightAnswered
  <2>3. faults' \in 0..MaxFaults
    BY <1>2, PageAssumption, CounterTypes, CountersGrow DEF AnswerRead, Fault
  <2> QED BY <1>2, <2>1, <2>2, <2>3 DEF AnswerRead, sendVars, PageTypes, TypeOK, OneFlight
<1>3. ASSUME NEW s \in Slots, Refresh(s) PROVE PageTypes'
  <2>1. /\ flights' \in [Slots -> Flight \cup {None}]
        /\ flights'[s] # None /\ \A t \in Slots : t # s => flights'[t] = None
    BY <1>3, FlightTaken
  <2> QED BY <1>3, <2>1 DEF Refresh, TakeOff, sendVars, PageTypes, TypeOK, OneFlight
<1>4. ASSUME NEW s \in Slots, Render(s) PROVE PageTypes'
  <2>1. flights' \in [Slots -> Flight \cup {None}] /\ \A t \in Slots : flights'[t] = None
    BY <1>4, FlightEnded DEF Render, Landed
  <2>2. shown' \in Table \cup {None}
    <3>1. flights[s] \in Flight
      BY <1>4, FlightEnded DEF Render, Landed
    <3>2. [of |-> flights[s].secret, version |-> flights[s].version] \in Table
      BY <3>1 DEF Flight, Table
    <3> QED BY <1>4, <3>2 DEF Render, Display, TypeOK
  <2> QED BY <1>4, <2>1, <2>2 DEF Render, Display, End, sendVars, PageTypes, TypeOK, OneFlight
<1>5. ASSUME NEW s \in Slots, Report(s) PROVE PageTypes'
  <2>1. flights' \in [Slots -> Flight \cup {None}] /\ \A t \in Slots : flights'[t] = None
    BY <1>5, FlightEnded DEF Report
  <2> QED BY <1>5, <2>1 DEF Report, End, sendVars, PageTypes, TypeOK, OneFlight
<1>6. ASSUME NEW s \in Secrets \cup {None}, Edit(s) PROVE PageTypes'
  <2>1. edits' \in 0..MaxEdits
    BY <1>6, PageAssumption, CounterTypes, CountersGrow DEF Edit
  <2> QED BY <1>6, <2>1 DEF Edit, sendVars, PageTypes, TypeOK, OneFlight
<1>7. CASE AnswerPost
  <2>1. post \in Post
    BY <1>7 DEF AnswerPost, TypeOK
  <2>2. PICK a \in {"202"} \cup Failures : post' = Answered(post, a)
    BY <1>7 DEF AnswerPost, Failures, Answered
  <2>3. post' \in Post
    BY <2>1, <2>2, PostAnswered
  <2>4. accepted' \subseteq Sample
    BY <1>7, <2>1 DEF AnswerPost, TypeOK, Post
  <2>5. faults' \in 0..MaxFaults
    BY <1>7, PageAssumption, CounterTypes, CountersGrow DEF AnswerPost, Fault
  <2> QED BY <1>7, <2>3, <2>4, <2>5 DEF AnswerPost, refreshVars, PageTypes, TypeOK, OneFlight
<1>8. ASSUME NEW event, NEW bad, Launch(event, bad) PROVE PageTypes'
  <2>1. post' \in Post /\ samples' \in 0..MaxSamples /\ lastEvent' \in 0..MaxSamples
    BY <1>8, Launched
  <2> QED BY <1>8, <2>1
          DEF Launch, Sending, refreshVars, PageTypes, TypeOK, OneFlight
<1>9. CASE Sent
  BY <1>9 DEF Sent, refreshVars, PageTypes, TypeOK, OneFlight
<1>10. CASE UNCHANGED vars
  BY <1>10 DEF vars, refreshVars, sendVars, PageTypes, TypeOK, OneFlight
<1> QED BY <1>1, <1>2, <1>3, <1>4, <1>5, <1>6, <1>7, <1>8, <1>9, <1>10, Launches DEF Next

-----------------------------------------------------------------------------
(* The invariant of reading.                                               *)
readVars == <<decided, secret, flights, shown, lastRefresh, health, note>>

LEMMA VersionsAreNumbers ==
    ASSUME TypeOK
    PROVE  /\ decided \in Nat
           /\ shown # None => shown.version \in Nat
           /\ \A s \in Slots : flights[s] # None => flights[s].version \in Nat
<1>1. \A v \in Versions : v \in Nat
  BY PageAssumption DEF Versions
<1> QED BY <1>1 DEF TypeOK, Table, Flight

LEMMA ReadingInit == Init => Reading
<1> SUFFICES ASSUME Init PROVE Reading
  OBVIOUS
<1>1. \A s \in Slots : flights[s] = None
  BY DEF Init
<1> QED BY <1>1, PageTypesInit
        DEF Init, Reading, DataAreSigned, DataAreNewer, ShownUnderItsSecret, StaleIsLabelled

LEMMA ReadingStep == Reading /\ [Next]_vars => Reading'
<1> SUFFICES ASSUME Reading, [Next]_vars PROVE Reading'
  OBVIOUS
<1>0. TypeOK /\ OneFlight /\ PageTypes'
  BY PageTypesStep DEF Reading, PageTypes
<1> USE DEF ShownUnderItsSecret, StaleIsLabelled
<1>1. CASE Decide
  <2>1. DataAreNewer'
    BY <1>0, <1>1, VersionsAreNumbers DEF Reading, DataAreNewer, Decide, refreshVars
  <2> QED BY <1>0, <1>1, <2>1 DEF Reading, DataAreSigned, Decide, refreshVars
<1>2. ASSUME NEW s \in Slots, NEW p \in Paths, AnswerRead(s, p) PROVE Reading'
  <2>1. DataAreSigned'
    BY <1>0, <1>2, FlightAnswered DEF Reading, DataAreSigned
  <2>2. DataAreNewer'
    <3>1. UNCHANGED <<shown, decided>>
      BY <1>2 DEF AnswerRead
    <3>2. /\ \A t \in Slots : t # s => flights'[t] = flights[t]
          /\ flights[s] # None /\ flights'[s].version \in {decided, flights[s].version}
      BY <1>0, <1>2, FlightAnswered
    <3>3. flights'[s].answer["decisions"] = "200" =>
             \/ flights'[s].version = decided
             \/ /\ flights[s].answer["decisions"] = "200"
                /\ flights'[s].version = flights[s].version
      BY <1>0, <1>2, FlightAnswered
    <3>4. decided <= decided
      BY <1>0, VersionsAreNumbers
    <3>5. ASSUME NEW t \in Slots, flights'[t] # None PROVE flights'[t].version <= decided
      BY <3>2, <3>4, <3>5 DEF Reading, DataAreNewer
    <3>6. ASSUME NEW t \in Slots, shown # None, flights'[t] # None,
                 flights'[t].answer["decisions"] = "200"
          PROVE  shown.version <= flights'[t].version
      BY <3>2, <3>3, <3>6 DEF Reading, DataAreNewer
    <3> QED BY <3>1, <3>5, <3>6 DEF Reading, DataAreNewer
  <2> QED BY <1>0, <1>2, <2>1, <2>2 DEF Reading, AnswerRead
<1>3. ASSUME NEW s \in Slots, Refresh(s) PROVE Reading'
  <2>1. \A t \in Slots : flights'[t] # None => \A p \in Paths : flights'[t].answer[p] = ""
    BY <1>0, <1>3, FlightTaken
  <2>2. DataAreSigned'
    BY <2>1 DEF DataAreSigned
  <2>3. DataAreNewer'
    <3>1. \A t \in Slots : flights'[t] # None => flights'[t].version = 0
      BY <1>0, <1>3, FlightTaken
    <3>2. UNCHANGED <<shown, decided>>
      BY <1>3 DEF Refresh, TakeOff
    <3>4. 0 <= decided
      BY <1>0, VersionsAreNumbers
    <3>3. \A t \in Slots : flights'[t] # None => flights'[t].answer["decisions"] # "200"
      BY <2>1 DEF Paths
    <3> QED BY <3>1, <3>2, <3>4, <3>3 DEF Reading, DataAreNewer
  <2> QED BY <1>0, <1>3, <2>2, <2>3 DEF Reading, Refresh, TakeOff
<1>4. ASSUME NEW s \in Slots, Render(s) PROVE Reading'
  <2>1. /\ \A t \in Slots : flights'[t] = None
        /\ flights[s] # None /\ flights[s] \in Flight
    BY <1>0, <1>4, FlightEnded DEF Render, Landed
  <2>2. DataAreSigned'
    BY <2>1 DEF DataAreSigned
  <2>3. CASE flights[s].secret = secret
    <3>1. shown' = [of |-> flights[s].secret, version |-> flights[s].version]
      BY <1>4, <2>3 DEF Render, Display
    <3>2. flights[s].secret = Good
      BY <1>4, <2>1 DEF Reading, DataAreSigned, Render, Landed, Paths
    <3>3. shown' # None
      <4>1. shown' \in Table
        BY <2>1, <3>1 DEF Flight, Table
      <4> QED BY <4>1, NoneAssumption
    <3>4. shown'.of = secret' /\ secret' = Good
      BY <1>4, <2>3, <3>1, <3>2 DEF Render, End
    <3>5. DataAreNewer'
      BY <1>4, <2>1, <3>1 DEF Reading, DataAreNewer, Render, Landed, End, Paths
    <3> QED BY <1>0, <1>4, <2>2, <2>3, <3>3, <3>4, <3>5 DEF Reading, Render, Display
  <2>4. CASE flights[s].secret # secret
    <3>1. UNCHANGED <<shown, health, lastRefresh, note, secret, decided>>
      BY <1>4, <2>4 DEF Render, End
    <3> QED BY <1>0, <2>1, <2>2, <3>1 DEF Reading, DataAreNewer
  <2> QED BY <2>3, <2>4
<1>5. ASSUME NEW s \in Slots, Report(s) PROVE Reading'
  <2>1. \A t \in Slots : flights'[t] = None
    BY <1>0, <1>5, FlightEnded DEF Report
  <2>2. UNCHANGED <<shown, lastRefresh, secret, decided>>
    BY <1>5 DEF Report, End
  <2>3. \/ UNCHANGED <<health, note>>
        \/ health' # "connected" /\ note' = IF lastRefresh THEN "stale" ELSE "none"
    BY <1>5 DEF Report
  <2> QED BY <1>0, <2>1, <2>2, <2>3 DEF Reading, DataAreSigned, DataAreNewer
<1>6. ASSUME NEW s \in Secrets \cup {None}, Edit(s) PROVE Reading'
  BY <1>0, <1>6 DEF Reading, DataAreSigned, DataAreNewer, Edit
<1>7. CASE UNCHANGED readVars
  BY <1>0, <1>7 DEF readVars, Reading, DataAreSigned, DataAreNewer
<1>8. AnswerPost \/ Send \/ Replay \/ SendBad \/ Sent \/ UNCHANGED vars => UNCHANGED readVars
  BY DEF AnswerPost, Send, Replay, SendBad, Sending, Sent, vars, refreshVars, readVars
<1> QED BY <1>1, <1>2, <1>3, <1>4, <1>5, <1>6, <1>7, <1>8 DEF Next

-----------------------------------------------------------------------------
(* The invariant of sending.                                               *)
postVars == <<accepted, sending, lastEvent, post, message, button>>

LEMMA ResendingInit == Init => Resending
<1> SUFFICES ASSUME Init PROVE Resending
  OBVIOUS
<1>1. MessageType
  <2>1. 0 \in 0..MaxSamples
    BY PageAssumption, CountersGrow
  <2> QED BY <2>1 DEF Init, MessageType
<1> QED BY <1>1, PageTypesInit
        DEF Init, Resending, PostIsTheAttempt, ReplayIsAccepted, RetryResendsTheAttempt

LEMMA ResendingStep == Resending /\ [Next]_vars => Resending'
<1> SUFFICES ASSUME Resending, [Next]_vars PROVE Resending'
  OBVIOUS
<1>0. TypeOK /\ OneFlight /\ PageTypes'
  BY PageTypesStep DEF Resending, PageTypes
<1>1. CASE AnswerPost
  <2>1. post \in Post /\ post # None /\ sending
    BY <1>0, <1>1 DEF AnswerPost, TypeOK, Resending, PostIsTheAttempt
  <2>2. PICK a \in {"202"} \cup Failures :
            /\ post' = Answered(post, a)
            /\ a = "202" => ~post.bad /\ post.event \in accepted'
    <3>1. /\ {"401", "failed"} = Failures /\ "202" \in {"202"} \cup Failures
          /\ "401" # "202" /\ "failed" # "202"
      BY DEF Failures
    <3>2. \/ post' = Answered(post, "401")
          \/ /\ post' = Answered(post, "202")
             /\ ~post.bad /\ accepted' = accepted \cup {post.event}
          \/ post' = Answered(post, "failed")
      BY <1>1 DEF AnswerPost, Answered
    <3> QED BY <3>1, <3>2
  <2>3. /\ post' \in Post /\ post'.answer = a
        /\ post'.event = post.event /\ post'.bad = post.bad
    BY <2>1, <2>2, PostAnswered
  <2>4. post' # None
    BY <2>3, NoneAssumption
  <2>5. UNCHANGED <<sending, lastEvent, message, button>> /\ accepted \subseteq accepted'
    BY <1>1 DEF AnswerPost
  <2>6. PostIsTheAttempt'
    BY <2>1, <2>2, <2>3, <2>4, <2>5 DEF Resending, PostIsTheAttempt
  <2>7. ReplayIsAccepted'
    BY <2>1, <2>3, <2>4, <2>5 DEF Resending, ReplayIsAccepted
  <2> QED BY <1>0, <2>1, <2>5, <2>6, <2>7 DEF Resending, MessageType, RetryResendsTheAttempt
<1>2. ASSUME NEW event, NEW bad, Launch(event, bad) PROVE Resending'
  <2>1. /\ post' \in Post /\ event \in Sample /\ bad \in BOOLEAN
        /\ post'.event = event /\ post'.bad = bad /\ post'.answer = ""
    BY <1>0, <1>2, Launched
  <2>2. post' # None
    BY <2>1, NoneAssumption
  <2>3. ~sending /\ sending' /\ UNCHANGED <<accepted, button>>
    BY <1>2 DEF Launch, CanSend, Sending
  <2>4. MessageType'
    <3>1. event \in 0..MaxSamples
      BY <1>0, <2>1, PageAssumption, CounterTypes, CountersGrow DEF Sample
    <3> QED BY <1>2, <3>1 DEF Launch, Sending, MessageType
  <2>5. PostIsTheAttempt'
    BY <1>2, <2>1, <2>2, <2>3 DEF PostIsTheAttempt, Launch
  <2>6. ReplayIsAccepted'
    <3> SUFFICES ASSUME lastEvent' # 0, button' = "Replay last", bad
                 PROVE  lastEvent' \in accepted'
      BY <2>1, <2>2 DEF ReplayIsAccepted
    <3>1. lastEvent' = lastEvent
      BY <1>2 DEF Launch
    <3> QED BY <2>3, <3>1 DEF Resending, RetryResendsTheAttempt
  <2> QED BY <1>0, <2>3, <2>4, <2>5, <2>6 DEF Resending, RetryResendsTheAttempt
<1>3. CASE Sent
  <2>1. post \in Post /\ post # None
    BY <1>0, <1>3 DEF Sent, TypeOK
  <2>2. /\ UNCHANGED <<accepted, lastEvent>> /\ ~sending' /\ post' = None
        /\ message' = [kind |-> post.answer, event |-> IF post.bad THEN 0 ELSE post.event]
        /\ button' = IF post.bad THEN button
                     ELSE IF post.answer = "202" THEN "Replay last" ELSE "Retry last"
    BY <1>3 DEF Sent
  <2>3. MessageType'
    <3>1. post.answer \in {"none", "sending", "202"} \cup Failures
      BY <1>3, <2>1 DEF Sent, Post
    <3>2. (IF post.bad THEN 0 ELSE post.event) \in 0..MaxSamples
      <4>1. post.event \in Sample
        BY <2>1 DEF Post
      <4>2. Sample \subseteq 0..MaxSamples /\ 0 \in 0..MaxSamples
        BY <1>0, PageAssumption, CounterTypes, CountersGrow DEF Sample
      <4> QED BY <4>1, <4>2
    <3> QED BY <2>2, <3>1, <3>2 DEF MessageType
  <2>4. /\ ~post.bad => post.event = lastEvent
        /\ post.answer = "202" => ~post.bad /\ post.event \in accepted
    BY <2>1 DEF Resending, PostIsTheAttempt
  <2>5. lastEvent # 0 /\ button' = "Replay last" => lastEvent \in accepted
    <3>1. CASE post.bad
      BY <2>2, <3>1 DEF Resending, ReplayIsAccepted
    <3>2. CASE ~post.bad
      BY <2>2, <2>4, <3>2
    <3> QED BY <3>1, <3>2
  <2>6. message'.kind = "failed" /\ message'.event # 0 => message'.event = lastEvent
    BY <2>2, <2>4
  <2>7. PostIsTheAttempt' /\ ReplayIsAccepted'
    BY <2>2, <2>5 DEF PostIsTheAttempt, ReplayIsAccepted
  <2>8. RetryResendsTheAttempt'
    BY <2>2, <2>5, <2>6 DEF RetryResendsTheAttempt
  <2> QED BY <1>0, <2>3, <2>7, <2>8 DEF Resending
<1>4. CASE UNCHANGED postVars
  BY <1>0, <1>4
     DEF postVars, Resending, MessageType, PostIsTheAttempt, ReplayIsAccepted, RetryResendsTheAttempt
<1>5. ASSUME NEW s \in Slots,
             (\E p \in Paths : AnswerRead(s, p)) \/ Refresh(s) \/ Render(s) \/ Report(s)
      PROVE  UNCHANGED postVars
  BY <1>5 DEF AnswerRead, Refresh, TakeOff, Render, Report, End, sendVars, postVars
<1>6. Decide \/ (\E s \in Secrets \cup {None} : Edit(s)) \/ UNCHANGED vars => UNCHANGED postVars
  BY DEF Decide, Edit, vars, sendVars, postVars
<1> QED BY <1>0, <1>1, <1>2, <1>3, <1>4, <1>5, <1>6, Launches DEF Next

-----------------------------------------------------------------------------
(* The fields, answers and flags of the page keep their values, and the    *)
(* flag refreshing is up exactly while a refresh is under way.             *)
THEOREM PageTypeCorrect == Spec => []TypeOK
<1>1. PageTypes => TypeOK
  BY DEF PageTypes
<1> QED BY PageTypesInit, PageTypesStep, <1>1, PTL DEF Spec

LEMMA ReadingAlways == Spec => []Reading
BY ReadingInit, ReadingStep, PTL DEF Spec

LEMMA ResendingAlways == Spec => []Resending
BY ResendingInit, ResendingStep, PTL DEF Spec

(* Decisions are displayed only under the secret they were read with,      *)
(* whatever answers for another secret are still to come.                  *)
THEOREM ShownUnderItsSecretHolds == Spec => []ShownUnderItsSecret
<1>1. Reading => ShownUnderItsSecret
  BY DEF Reading
<1> QED BY ReadingAlways, <1>1, PTL

(* What is displayed and not current is labelled as stale, and an age is   *)
(* given only for what is displayed.                                       *)
THEOREM StaleIsLabelledHolds == Spec => []StaleIsLabelled
<1>1. Reading => StaleIsLabelled
  BY DEF Reading
<1> QED BY ReadingAlways, <1>1, PTL

(* A later table is never older than the one it replaces.                  *)
THEOREM TableNeverGoesBackHolds == Spec => TableNeverGoesBack
<1> DEFINE Step == shown # None /\ shown' # None => shown.version <= shown'.version
<1>1. Reading /\ [Next]_vars => [Step]_vars
  <2> SUFFICES ASSUME Reading, Next, shown # None, shown' # None
               PROVE  shown.version <= shown'.version
    OBVIOUS
  <2>1. ASSUME shown' = shown PROVE shown.version <= shown'.version
    <3>1. shown.version \in Nat
      BY VersionsAreNumbers DEF Reading, PageTypes
    <3> QED BY <2>1, <3>1
  <2>2. ASSUME NEW s \in Slots, Render(s) PROVE shown.version <= shown'.version
    <3>1. CASE flights[s].secret = secret
      <4>1. shown' = [of |-> flights[s].secret, version |-> flights[s].version]
        BY <2>2, <3>1 DEF Render, Display
      <4>2. flights[s] # None /\ flights[s].answer["decisions"] = "200"
        BY <2>2 DEF Render, Landed, Paths
      <4> QED BY <4>1, <4>2 DEF Reading, DataAreNewer
    <3>2. CASE flights[s].secret # secret
      BY <2>1, <2>2, <3>2 DEF Render
    <3> QED BY <3>1, <3>2
  <2>3. ASSUME NEW s \in Slots, (\E p \in Paths : AnswerRead(s, p)) \/ Refresh(s) \/ Report(s)
        PROVE  shown' = shown
    BY <2>3 DEF AnswerRead, Refresh, TakeOff, Report
  <2>4. ~ \E s \in Secrets \cup {None} : Edit(s)
    BY DEF Edit
  <2>5. Decide \/ AnswerPost \/ Send \/ Replay \/ SendBad \/ Sent => shown' = shown
    BY DEF Decide, AnswerPost, Send, Replay, SendBad, Sending, Sent, refreshVars
  <2> QED BY <2>1, <2>2, <2>3, <2>4, <2>5 DEF Next
<1> QED BY ReadingAlways, <1>1, PTL DEF Spec, TableNeverGoesBack

(* After a failed POST the replay button resends that very event, and      *)
(* "Replay last" only what the gateway has accepted.                       *)
THEOREM RetryResendsTheAttemptHolds == Spec => []RetryResendsTheAttempt
<1>1. Resending => RetryResendsTheAttempt
  BY DEF Resending
<1> QED BY ResendingAlways, <1>1, PTL
=============================================================================
