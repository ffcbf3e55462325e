# Hook Guard: specification, model checking and proofs

Hook Guard receives payment notifications over HTTP, remembers in Redis which
ones it has accepted, queues them on a Redis stream, and has workers record a
decision for each. This directory specifies that protocol in TLA+, together with
the parts around it that have state or arithmetic of their own, checks it with
TLC on small instances and proves its safety properties with TLAPS for every
value of the constants.

Paths below are relative to `src/`.

## 1. The system

| Component | State it keeps | Operations | Talks to |
| --- | --- | --- | --- |
| Gateway (`apps/gateway/internal/server`, `admission`, `model`, `signature`, `config`; Go) | none between requests | `POST /v1/events` (`handleEvent` → `Admit` → `admitScript`), readiness, status, decisions, operator page | Redis, HTTP clients |
| Redis (`docker-compose.yml`, `infra/k8s/redis.yaml`; external) | input stream, consumer group and pending list, `idempotency:` markers, `completed:`/`rejected:` markers, decision stream and `:dead` stream | single commands and Lua scripts, each isolated | everybody |
| Risk worker (`apps/risk-worker/src/main.rs`; Rust) | reclaim cursor, time of the last reclaim, two connections, ready flag | `ensure_group`, `consume`, `process_batch` with `FINISH`, `reconnect`, `/readyz`, `/score` | Redis |
| Event contract (`model/event.go`, `model.rs`) | none | `Decode` in Go, `valid` in Rust | the payload in the stream |
| Worker connections (`main.rs`: `worker`, `reconnect`, `/readyz`) | reader and writer, ready flag | `connect`, `reconnect`, the pause after a failed cycle | Redis, probes |
| Worker counters (`Stats`) | decisions, duplicates, dead letters | counted while replies are read; `/metrics` | dashboard |
| Risk model (`model.rs`, `model/model.json`, `scripts/train_model.py`) | immutable parameters | `parameters`, `features`, `score` | worker |
| Evaluation (`main.rs: offline`, `evals/risk_eval.py`) | a dataset, a file of predictions | `--predict-jsonl`, `--benchmark`, `/score` row by row, the join | files |
| Operator page (`server/web/index.html`) | secret, table, last event, `refreshing`, `sending`, time of the last refresh | `send` (sample, replay, wrong signature), `refresh`, the secret's handlers | gateway |
| Gateway process (`apps/gateway/main.go`) | HTTP server with its time limits | serve, `Shutdown` after a signal | clients |
| Configuration, gateway telemetry | constants, counters | `Load`, `NewMetrics` | – |
| Fitting, scripts, dashboards | files | offline | – |

How they interact: a provider posts a signed event. The gateway checks it,
re-encodes it and sends one Lua script to Redis which looks up the idempotency
marker, compares digests, looks at the queue length, sets the marker and
appends. A worker reads entries through a consumer group, sends one `FINISH`
script per entry in a pipeline, and that script sets a completion marker,
publishes the decision, acknowledges and deletes the entry. Entries a worker
read and never finished stay pending; any worker claims them once they have
been idle for `HOOKGUARD_RECLAIM_IDLE_MS`.

What is hard in this code:

- *Concurrency.* Several gateways and workers act on one Redis. Only single
  commands and single scripts are atomic; a pipeline is not.
- *Unknown outcomes.* A gateway's 500 ms deadline and a worker's 4 s timeout
  drop an answer, not the command: what was sent may run later, or never.
- *Partial failure.* Lua does not roll back. Both scripts undo their marker by
  hand when the append fails.
- *Redelivery.* An entry may be held by several workers at a time, and an
  abandoned `FINISH` may run after the entry has been finished by another.
- *Expiry.* Markers live for a retention window; two markers of the same event
  are set at different moments and expire at different moments.
- *Limits.* A full queue must not turn away events already accepted.
- *Recovery.* The reclaim cursor moves on before its batch is processed; a new
  process starts with a new cursor.
- *Redis crashes.* Redis syncs its file once a second. After a host failure the
  store goes back by up to that, while workers, gateways and providers remember
  what they did.
- *Half-open connections.* A connection the network dropped silently swallows
  commands; the connection manager never replaces it by itself.
- *Completions that fail for ever.* They end every reclaim before new entries
  are read, and keep the next reclaim due.
- *Lost replies.* What Redis did and a worker did not hear of is counted by
  nobody.
- *Asynchronous functions of the page.* `refresh`, `send` and the handlers of
  the secret run over one set of variables and resume after any of the others.
- *Time limits that add up.* A request may take 3 s to be read and 500 ms to be
  admitted, a shutdown waits 5 s, and the write deadline runs from the header.
- *State read and then acted on.* `Shutdown` closes the connections it finds
  idle, and a kept-alive connection is idle until a whole header has been read.
- *Two implementations of one function.* Events are validated in Go and Rust,
  features are computed in Rust and Python, and predictions reach the evaluation
  along two routes, one of which may be cut short.

Properties that make each part correct:

| Part | Property |
| --- | --- |
| Admission | an event id is appended at most once per retention window (`OneAdmissionPerWindow`); a live marker stands for an appended entry (`MarkerIsBacked`); 202 and 409 are true (`AnswersAreTrue`); the backlog is bounded (`BoundedBacklog`); a retry within the window is recognised, whatever the queue and the failures (`RetryIsRecognised`) |
| Delivery | a delivered entry is pending exactly until it leaves the stream (`NoOrphanedDelivery`) |
| Completion | a key gets one output per retention window (`OneDecisionPerWindow`); what left the stream has an output (`SettledHasOutcome`) |
| Event contract | what the gateway admits the worker can decide (`NoAdmittedDeadLetter`); the payload says what was signed (`PayloadIsTheBody`) and its digest tells events apart (`PayloadTellsEvents`) |
| Redis durability | no marker comes back without its entry (`MarkerSurvivesWithEntry`); what was not taken back and left has an outcome (`LeftWithOutcome`); the delivery and completion properties survive |
| Worker connections | consumption and readiness recover (`ConsumptionRecovers`, `ReadinessRecovers`); new entries are read in spite of failing ones (`NewEntriesAreRead`) |
| Worker counters | nothing is counted that was not published (`CountsAreBacked`), and without losses everything is (`AllIsCounted`) |
| Risk model | scores are those of the trained model (`ServedAsTrained`) and monotone in the risk (`StrongerRiskScoresHigher`) |
| Evaluation | only whole runs are evaluated (`EvaluatedWhole`, `NoPartialPredictions`); both routes agree (`RoutesAgree`); percentiles are what they say (`PercentilesHold`) |
| Operator page | what is shown belongs to the secret in the field (`ShownUnderItsSecret`), is labelled when stale (`StaleIsLabelled`) and never goes back (`TableNeverGoesBack`); a retry sends the same event (`RetryResendsTheAttempt`); the page catches up (`PageCatchesUp`) |
| Gateway process | a shutdown cuts off only requests on connections it had found idle (`ShutdownWaitsForRequests`); only slow senders lose answers (`OnlySlowSendersLoseAnswers`) |
| Whole | every entry is finished in the end (`EveryEntryIsFinished`); the system is a ledger that records once and decides once per window (`ImplementsLedger`), and that loses only what is recent in a crash (`ImplementsForgetfulLedger`) |

## 2. The modules

| Module | What it is |
| --- | --- |
| `RedisStore` | The shared Redis state and the commands used on it |
| `Gateway` | EXTENDS `RedisStore`: `handleEvent` and `admitScript` |
| `Worker` | EXTENDS `RedisStore`: `consume`, `process_batch`, `FINISH` |
| `HookGuard` | EXTENDS both: the composition, its fairness, all properties, the refinement mapping |
| `EventLedger` | the abstract specification: a ledger with two duplicate windows |
| `ForgetfulLedger` | EXTENDS `EventLedger`: the abstract specification around crashes, a ledger that may lose what is recent |
| `Durability` | EXTENDS `HookGuard`: Redis crashes and its append-only file |
| `Accounting` | EXTENDS `HookGuard`: the workers' counters |
| `Connections` | one worker's two connections and its ready flag |
| `ReclaimPace` | one worker's loop with completions that fail for ever, in pauses |
| `EventContract` | `Decode` in Go, the canonical payload, parsing and `valid` in Rust |
| `RiskModel` | the artifact's checks, the transform and the score in Rust; the transform in Python |
| `Evaluation` | EXTENDS `RiskModel`: `offline`, `/score` and the evaluation |
| `OperatorPage` | the page in one tab and the gateway as it sees it |
| `GatewayLifetime` | time limits of requests, signal and drain |
| `MCHookGuard`, `MCAccounting`, `MCEventContract`, `MCEvaluation` | symmetry, and the bodies, events and parameters TLC tries |
| `HookGuardProofs` | about the composition, in four parts: delivery, completion, admission, and that `HookGuard` implements `EventLedger` |
| `ExtensionProofs` | about the two modules that extend `HookGuard`: the counters, what survives crashes, and that `Durability` implements `ForgetfulLedger` |
| `ConnectionProofs` | type correctness of `Connections` |
| `PaceProofs` | new entries are read beside failing ones |
| `PageProofs` | the safety properties of the operator page |
| `ContractProofs` | the event contract's three properties |
| `EvaluationProofs` | the properties of the score and of the evaluation |
| `LifetimeProofs` | the properties of the gateway's life |

`Connections` and `ReclaimPace` each look at one concern of the worker's loop
that `Worker` leaves open. `Worker` may fail a cycle for any reason and says what
a failure leaves behind in Redis; `Connections` says which failures there are
and which connection they leave; `ReclaimPace` counts the pauses between cycles.

### RedisStore

`stream` is the set of ids in the input stream (ids are handed out in
increasing order, so a set is the stream); `body` and `age` remember every
entry ever appended, finished or not; that is history the properties are
about, and no action is guarded by `age`. `pending`, `idle`, `last` and `group` are the consumer group.
`mark`/`markLeft` are the `idempotency:` markers with their digest and the time
left, `done` the time left of the `completed:` and `rejected:` markers. `outputs`
is the decision stream and the dead-letter stream in the order of publication,
each output with the entry it was published for and its age.

`XAdd`, `XAckDel`, `ReadNew`, `AutoClaim` with `NextCursor`, `CreateGroup` are
the commands. The pending list does not record which consumer holds an entry:
`XACK` is per group and a claim takes idle entries whoever holds them, so
nothing depends on it. `NextCursor` is exact about the cursor Redis returns as
long as the list fits one scan; Redis may also stop a scan early after ten
times COUNT entries, which only returns a cursor sooner.

A tick is one second, the unit of the worker's reclaim interval. Time is
discrete and relative: expiries count down, ages count up to a ceiling (the
retention, where their exact value no longer matters).

### Gateway

One request is one HTTP attempt at some replica. `Refuse` is the 413/401/400
paths; `Accept` the event being decoded and its script sent; `AdmitKnown`,
`AdmitFull`, `AdmitNew` and `AdmitAppendFails` are the four ways through
`admitScript` (code 0 and -1, -2, 1, and the error reply), each one atomic
step; `Reply` the status written; `Expire` the deadline or a broken
connection, after which the script may still run. A `Duplicate` answer is
`202-dup`. `script.Run` falls back from EVALSHA to EVAL only when Redis does not
know the script and the client's retries are off (`MaxRetries: -1`), so one
attempt executes the script at most once. Retry-After and bodies are left out.

### Worker

`pc` is the place in the loop. `Claim` is XAUTOCLAIM together with the
assignment of the cursor; `Read` is XREADGROUP; both hand their batch to a
pipeline (`wire`), whose scripts Redis runs one by one in order (`RunFinish`);
`Collect` reads all replies and returns the first error or goes on; only after
a complete reclaim is `due` cleared (`last_claim = Instant::now()`).
`FinishKnown`, `FinishNew` and `FinishFails` are the three results 0, 1 and -1
of the script. `CycleBreaks` is a transport error or the 4 s timeout,
`Recover` the `ensure_group` after any failed cycle, `Kill` the death of the
process (or the end of its 5 s drain), `Start` `main` up to the loop.
Everything sent and not answered at that moment goes to `stale` and `late`
and may be executed at any later time, or never (`RunStale`, `LateClaim`,
`LateRead`). The failure of `XADD` in `FINISH` is transient (`Fault`) or, for
the streams in `BrokenOutputs`, permanent (the `TYPE` check).

### HookGuard

Interleaves the gateways, the workers, `Tick` and `Inject` (another producer
puts an entry on the stream that does not decode). Nothing is fair but time
and the steps of running workers, see below.

### Durability

`disk` is the store a crash would bring back. A write is in the file wholly or
not at all (a script is one unit there), so `disk` is a state the store really
had, at most `SyncLag` seconds ago: `Sync` makes it current, `Second` lets both
grow older. Expiries and delivery times are absolute in the file and go on while
Redis is away (`Aged`). `Crash` loads it, breaks every connection, and leaves
the memory of workers (cursor, `due`), of requests and of stream ids alone: ids
come from the clock and are not handed out again, so `nextId` never goes back
and `lost` names the entries taken back. A pipeline that was about to be sent
when Redis came back may still run.

An accepted event may be forgotten and a published decision may be taken back:
that is the loss `docs/operations.md` ("Recovery and storage") admits.
`AnswersAreTrue`, `MarkerIsBacked` and `SettledHasOutcome` are therefore not
properties of this module; `MarkerSurvivesWithEntry` and `LeftWithOutcome` say
what is left of them. `ImplementsForgetfulLedger` says it of the whole: in
`ForgetfulLedger` a crash (`Lose`) takes back the end of the record and the end of
the decisions, neither older than the file's lag; entries that are kept and were
open stay open, those whose decision is taken back are open again, and an event
may be accepted again only if what it duplicates is gone or older than the
retention.

### Accounting

Adds to `HookGuard` what each worker has heard from its pipeline and its
counters. `Finish` is `FINISH` with its reply; `Count` is the loop over the
replies, which counts each of them also when another one is an error; `Lose` and
`Die` are a broken cycle and the end of the process. The counters of claims
and of failed cycles are left out. The dashboard's sum over the workers (`SumOf`)
is stated as the number of pairs of a worker and one of what it counted: that is
a cardinality, which can be proved about, and a recursive sum is not.

### Connections

A connection is open, reset (the next command fails and the manager connects
again) or half-open (every command runs into the 2 s response timeout and the
manager keeps it). `at` is the place in `worker`; `Replace` is `reconnect`, which
gets two new connections or none; `Pause` is the `ensure_group` after it, whose
result is ignored. Entries are counted, not told apart. Whether a reclaim is due
and what is idle is left open (`SkipClaim`, `hand' \in {0, pending}`).

After a silent drop of the writer alone `/readyz` stays at 503 although the
loop is fine, because an idle loop does not use the writer: it takes an entry, or
the kernel giving up on the connection, to change that. `ReadinessRecovers`
names that exception.

### ReclaimPace

A tick is the pause of 250 ms. A failed reclaim ends the cycle and leaves
`last_claim` where it was, so the next cycle reclaims again; what keeps new
entries moving is that a claimed entry is not idle again before `ReclaimIdle`
pauses. With as many failing entries as that, every pause can end in a failed
reclaim and nothing new is read while they keep failing: at the defaults
(5000 ms, 250 ms) this takes 20 of them. `PaceAssumption` excludes it, so
`NewEntriesAreRead` is a bound for fewer.

### EventContract

Two bodies, sent one after the other, are each decoded by the gateway
(`Handle`) and, if admitted, parsed by a worker (`Consume`). A body is the
sequence of its object's members; a text is its length in bytes with the
classes of its characters, which is all either validator looks at; a number is
an integer, and "-0" is 0 as it is for `strconv`. `alone` stands for a body
that is one object and nothing more. In the composition this module's payload
is `Data`, and "does not decode" is `Poison`.

### RiskModel and Evaluation

Numbers are exact: a feature is in units of 1/300000, which every scale of the
transform divides; weights are integers. The sigmoid is strictly increasing, so
a score is given by its argument and the threshold by its logit. `features` and
`score` are the Rust code, in the order of its array; `Trained` and `Fitted` are
the training script's, by feature name, its terms in an order of its own. An
artifact may come with its names in another order, which `Loads` must refuse.

`offline` parses every line before it prints the first prediction, and may be
cut at any moment. `Joins` is the evaluation's comparison, row by row, with its
own score. One artifact stands for the one in the binary and the one given to
the evaluation, so that the comparison of `model_version` (`risk_eval.py:76`),
which refuses the predictions of another model, is always passed. The rows differ in how they spell the event: with a label, without,
with an invalid value, with an unknown member, not as JSON.

### OperatorPage

One action per stretch of a function between two awaits: `Refresh` up to
`Promise.all`, `Render` or `Report` after it, `Send`, `Replay` and `SendBad` up to
the POST, `Sent` after it, `Edit` for the handlers of the secret field. A flight
carries the secret it was signed with. Answers are 200/202, 401 or a failure
(an error status, a lost connection, the abort after 5 s); a failed POST may
have been executed. Decisions are a version number that grows.

`send` and `read` await `explainFailure` on an answer that is a failure
(lines 65 and 110). Between that await and the one before they touch nothing but
their own answer, so the two are one stretch here: the answer comes later.

A 401 to a POST marks the secret field invalid also when the field was edited
in the meantime (line 68 of the page); the next successful refresh clears it.

### GatewayLifetime

A tick is half a second. `Begin` is a new connection or the next request on one
that is kept alive, `Header` the header being complete, `Body` the body being
complete or cut short (answered with 400), `Answer` the script's result or the
deadline. Overdue work goes before the clock. The write deadline is set when
the header is complete, so a body that takes almost 3 s leaves the answer less
than the 500 ms of the admission; `slow` remembers such senders.

What `Shutdown` waits for is a matter of the connection states of net/http. A new
connection (`"header"`) is waited for; it would count as idle after 5 s without a
header, but the header's limit is 2 s. A kept-alive connection is idle until
the whole header of its next request has been read (`"idle"`, `"next"`): the
change to active is part of `Header`, and `Shutdown` closes such a connection even
in the middle of a header. That request is `"dropped"`; it has not reached the
handler. `Shutdown` reads the state (`FindIdle`) and closes the connection
(`CloseFound`) in two steps. When the header becomes complete between the two,
the handler runs and may admit the event for a client that gets no answer:
`"cut"`. It is therefore not true of the gateway that no request is ever cut off,
and the model reaches both cases. `ShutdownWaitsForRequests` says that these are
all: a request that is cut off came on a connection found idle. The client's
retry is then a request of `HookGuard`, where an admission without an answer is
one whose `Reply` is never taken.

`Shutdown` looks at all connections at once and then at least every 500 ms, a
tick, so idle connections are found and closed before the clock moves. Left
out: the instant between the server's check that it may keep a connection alive
and the connection's becoming idle (`Again` is one step), and connections the
kernel has accepted and the server has not.

## 3. What is checked

| Run | Question | Instance |
| --- | --- | --- |
| `admission` | Do the admission properties hold when three requests race or repeat, over two ids and two payloads, with markers expiring and an append failing? | 1 worker, `MaxQueue` 1, retention 2 s at the gateway and 1 s at the worker, 3 entries, 1 failure |
| `finishing` | Do redelivery, abandoned pipelines and late scripts ever lose or repeat a decision, and is the whole the ledger? | 2 workers, 2 entries of one id, retention 1 s/2 s, 2 failures |
| `pipeline` | What if one completion of a pipeline fails for good, and what do the counters say? | 2 workers, a valid and an undecodable entry in one batch, `:dead` is no stream, 2 failures |
| `recovery` | What survives crashes of Redis, is the whole a ledger that loses only what is recent, and is every entry finished in the end? | 1 worker, a valid and an undecodable entry, retention 1 s at the gateway and 2 s at the worker, file up to 1 s old, 2 failures (crashes among them), fairness |
| `contention` | Is every entry finished when two workers claim from each other? | 2 workers, a valid and an undecodable entry, 1 failure, fairness |
| `reconnect` | Do consumption and readiness recover from any mixture of resets, silent drops, outages, timeouts and restarts? | 3 entries, 4 failures, fairness |
| `pace` | Are new entries read beside entries that fail for ever? | 7 entries of which 1, 2, 4 and 6 fail, `Batch` 2, idle time 5 pauses, reclaim every 2, block 2 |
| `page` | Is what the page shows current, labelled or nothing, and does it catch up? | 2 secrets, room for 2 refreshes, 3 edits, 2 decisions, 2 samples, 1 failure, fairness |
| `contract` | Do the two validators agree, and does the payload stand for the body? | all pairs of bodies one edit from a valid event, integer widths scaled to 20000 and 30000 |
| `evaluation` | Are scores those of the trained model, monotone, and only whole runs evaluated? | all datasets of up to 2 rows of every kind, events on both sides of every limit, the weights of `model.json` in tenths, artifacts in and out of order, sample counts 1, 2, 3, 99, 100, 101, 250 |
| `lifetime` | What does a shutdown cut off, and who loses an answer? | 2 clients, the time limits of the source |
| `expired` | Does 202 mean that the event gets its decision? It does not, see section 6 | 2 requests, 1 worker, no failure |

Bounds. `MaxEntries` bounds appends (an `XAdd` beyond it is disabled),
`MaxFaults` the injected failures, `MaxPoison` the undecodable entries,
`Requests` the HTTP attempts; `SyncLag` is the age of the file. Two entries for
one id are what a duplicate takes, three let a full queue, an expired marker and
a new admission meet; two requests race, and a third repeats one of them later.
One failure breaks every promise that a single mistake in the code would break,
two let a failure hit the recovery from the first: in `recovery` a second crash
during the work after the first. There the completion retention is longer than
the file's lag, so that `Lose` tells recent decisions from others; with a single
request nothing is accepted twice in this run, so what the forgetful ledger says
of accepting after a crash, and of the age of lost entries, rests on the proof. Retentions of one and two ticks are the
smallest with expiry before, between and after the steps of a request or a
cycle. `Batch` 2 puts two entries in one pipeline; `Batch` 1 makes the reclaim
cursor stop in the middle of the list. In `pipeline` nothing reaches the
dead-letter output, so its counter stays at zero there.

`reconnect` has four failures, enough to break both connections, take Redis away
and restart the process; entries are only counted, and three of them are one
read, one in hand and one pending. `pace` has more failing entries than fit one
batch, one fewer than the idle time in pauses, with others between them. `page`
has three edits: the right secret is typed, replaced and typed again, so that
a read signed with the first is still under way when it is right once more. `evaluation` has two rows because joins, order and
all-or-nothing are about a row and its neighbour; longer datasets are covered by
the proofs. `lifetime` has the real time limits; a second client keeps the
process alive while the first is done.

Each property is also run against a plausible bug in a definition (operators marked
"Mutant" beside the definitions), which TLC must catch.

Deadlock checking is on wherever something can always happen: in every run of
the composition, in `reconnect` and in `pace`. It is off where a bounded history
simply ends: an event's journey (`contract`), a run over a dataset
(`evaluation`), the life of a process (`lifetime`), and a page without a secret
whose edits are used up (`page`).

Symmetry is used only in runs without liveness.

### Fairness

`FairSpec` of `HookGuard` adds weak fairness of `Tick` (clocks run) and, per
worker, of `WorkerStep`: start, claim, read, run the next script of the pipeline,
collect, recover. A running worker's task is always scheduled, Redis executes
what arrives on a working connection, and a stopped worker is started again
(`docker-compose.yml:37`, `restart: unless-stopped`; the Deployment in
`infra/k8s/worker.yaml`). No fairness is assumed of providers, of failures, or of
abandoned commands. The liveness property holds because failures are finitely
many (`MaxFaults`): after the last one, an idle pending entry is claimed by the
next reclaim that reaches it. `DurableFairSpec` is the same with `Second` for
`Tick` and weak fairness of `Sync` (`appendfsync everysec`).

`FairSpec` of `Connections`: the loop goes on and its timeouts end, an outage ends,
probes keep coming (weak fairness). That a reclaim finds the pending entries is
strong fairness, for a reason that lies outside of the module: time passes in
every cycle, so again and again a reclaim is due and the entries are idle
enough. `ReclaimPace` counts that time.

`FairSpec` of `OperatorPage`: the poll runs every 2 s, a read or a POST is answered
or aborted after 5 s, and a function whose await is over resumes. The operator
is not fair, and a failed answer is one of the answers; failures are finitely
many.

## 4. What is proved

For all sets of workers, requests, events, clients and payloads, all bounds and
timeouts, under the assumptions `ConfigAssumption` (the ranges `config.go` and
`positive()` enforce), `NamesAssumption` (disjoint key spaces),
`OutputsAssumption`, `PoisonAssumption`, `DurabilityAssumption`,
`ContractAssumption`, `ModelAssumption` (no negative weight, as in
`model.json`), `EvaluationAssumption`, `LifetimeAssumption` (reading and
admitting a request take less than the grace of a shutdown), `PaceAssumption`
(fewer failing entries than the idle time has pauses), `PageAssumption` and
`BoundsAssumption` (ranges of the bounds) and `NoneAssumption` (nothing is not
something):

| Theorem | Property |
| --- | --- |
| `TypeCorrect` | `TypeOK` |
| `NoOrphanedDeliveryHolds` | `NoOrphanedDelivery` |
| `OneDecisionPerWindowHolds` | `OneDecisionPerWindow` |
| `SettledHasOutcomeHolds` | `SettledHasOutcome` |
| `OneAdmissionPerWindowHolds` | `OneAdmissionPerWindow` |
| `MarkerIsBackedHolds` | `MarkerIsBacked` |
| `AnswersAreTrueHolds` | `AnswersAreTrue` |
| `BoundedBacklogHolds` | `BoundedBacklog` |
| `RetryIsRecognisedHolds` | `RetryIsRecognised` |
| `LedgerImplemented` | `ImplementsLedger` |
| `DurableTypeCorrect` | `DurableTypeOK`, the types of the store and of its file |
| `NoOrphanedDeliverySurvives` | `NoOrphanedDelivery`, with crashes |
| `OneDecisionPerWindowSurvives` | `OneDecisionPerWindow`, with crashes |
| `LeftWithOutcomeHolds` | `LeftWithOutcome` |
| `MarkerSurvivesWithEntryHolds` | `MarkerSurvivesWithEntry` |
| `AccountingIsHookGuard` | every behaviour of `Accounting` is one of `HookGuard` |
| `CountsAreBackedHolds` | `CountsAreBacked` |
| `AllIsCountedHolds` | `AllIsCounted` |
| `NewEntriesAreReadHolds` | `NewEntriesAreRead` |
| `PageTypeCorrect` | `TypeOK` of `OperatorPage` |
| `ShownUnderItsSecretHolds` | `ShownUnderItsSecret` |
| `StaleIsLabelledHolds` | `StaleIsLabelled` |
| `TableNeverGoesBackHolds` | `TableNeverGoesBack` (an action property) |
| `RetryResendsTheAttemptHolds` | `RetryResendsTheAttempt` |
| `ConnectionTypeCorrect` | `TypeOK` of `Connections` |
| `ForgetfulLedgerImplemented` | `ImplementsForgetfulLedger`, with crashes |
| `LifetimeTypeCorrect` | `TypeOK` of `GatewayLifetime` |
| `ShutdownWaitsForRequestsHolds` | `ShutdownWaitsForRequests` |
| `OnlySlowSendersLoseAnswersHolds` | `OnlySlowSendersLoseAnswers` |
| `ServedAsTrainedHolds` | `ServedAsTrained` |
| `StrongerRiskScoresHigherHolds` | `StrongerRiskScoresHigher` |
| `NoPartialPredictionsHolds` | `NoPartialPredictions` |
| `EvaluatedWholeHolds` | `EvaluatedWhole` |
| `RoutesAgreeHolds` | `RoutesAgree` |
| `PercentilesHoldForAll` | `PercentilesHold` |
| `NoAdmittedDeadLetterHolds`, `PayloadIsTheBodyHolds`, `PayloadTellsEventsHolds` | of the same names, for bodies of any length and any widths (`ContractAssumption`) |

The argument about the composition has six layers, the first four of them in
`HookGuardProofs` and the last two in `ExtensionProofs`.

1. Delivery. `RecordStep` says what any step may do to the record
   (entries keep their body, ids only grow) and `StepKinds` sorts the steps by
   what they do to the store, so that later proofs have one case per kind and
   not one per action. `Delivery` is the inductive invariant:
   `NoOrphanedDelivery` together with `StoreOnRecord` (`last`, the stream and
   the outputs name only ids handed out before) and `WorkOnRecord` (so do the
   scripts workers have sent, abandoned or not). Without `last < nextId` an
   entry could be appended behind the group's position and never be delivered.
2. Completion. `Marking` adds `CompletionMarked` (an output younger
   than the retention has a marker that expires exactly when its retention
   does) and `MarkersDecided` (a live marker has an output of that age). The
   first is why a second output is never young, the second is why an entry
   whose marker is found may be deleted. `Completion` is that and
   `SettledHasOutcome`, shown entry by entry: an entry leaves the stream only
   by a `FINISH` (`LeavesBySettling`), and outputs stay (`PublishedStays`).
3. Admission. `Admission` says the same of admission with
   `FreshIsMarked` and `MarkerIsBacked`; `MarkerHasTime` ties a marker to its
   expiry. `Answering` adds that what a script returned for a request is true
   of the record, and stays true because the record only grows.
   `RetryIsRecognised` rests on `FreshIsMarked`: as long as an entry is younger than
   the retention its marker is there, with its data, and `admitScript` looks at
   the marker before the length of the queue and before it appends.
   `BoundedBacklog` is inductive over `Delivery` alone.
4. The ledger. The refinement combines them: an `AdmitNew` is an `Accept` (no marker means
   the id is `Forgotten`, by `FreshIsMarked`), a `FINISH` is a `Settle` (the
   marker is live exactly when the ledger says `Decided`, by `CompletionMarked`
   and `MarkersDecided`), a tick is a `Pass`, everything else a stutter.
5. Accounting. `Counted` is what a worker has counted together with the replies
   it has yet to read; collecting a pipeline only moves the one to the other,
   which is why it and not `stats` is in the invariant `Accounts`. Losing replies
   only lowers the sum, and a `FINISH` whose reply arrives raises it by no more
   than what it published (`FinishRaises`), so `Backed` holds for ever.
   `Complete` is about the time before the first loss. No `FINISH` is abandoned
   until then, so nothing is published without a reply (`StaleAccounts` says that
   a late `FINISH` would be). That the counters cover every entry that left the
   stream needs the strengthening `Left <= Counted`, raised by one on both sides
   when an entry leaves. The sum lemmas (`PairOf`, `SumMonotone`, `SumGrows`) are
   facts about cardinalities. `AccountingIsHookGuard` makes every theorem of
   layers 1 to 4 a theorem of `Accounting` too.
6. Durability says of the file what the layers 1 to 3 say of the store:
   `OnDisk` is `Delivery` of the saved store, `MarksIn` is `Marking`, `TimedIn` and
   `BackedIn` tie its markers to their entries. The steps of `HookGuard` keep the
   store consistent by the earlier lemmas; the disk is shown to stay so as it
   ages, takes over the store and is loaded. The invariant needs both halves: a
   crash makes the store what the disk was, and a sync the reverse. The file's
   `nextId` bounds what it names, which is why an entry it has is not `lost`;
   `LeftIn` says of every entry it had seen and no longer queues that it had an
   outcome. The refinement of `ForgetfulLedger` needs two more invariants.
   `Keeping` is `FreshIsMarked` for the entries that are kept, in memory
   (`KeptIsMarked`) and on disk (`KeptIn`): that is why a kept event is not
   accepted twice. `Behind` says how far the disk is behind: what the store has
   and the disk has not is no older than `lag` (`EntriesFollow`, `OutputsFollow`),
   and the disk's outputs are where the store's began. `CrashLoses` turns that
   into the ledger's `Lose`; every other step is a step of `EventLedger` by the
   lemmas of layer 4.

The other modules stand apart.

`ContractProofs`. A decoded body has the ten fields and no other
member: it contains all ten and has ten different keys, which is where
cardinality comes in. Hence the event is filled in nowhere, and parsing the
payload gives it back.

`EvaluationProofs` begins with arithmetic: the clamps of the two languages agree
and keep the order (`ClampedIsSaturated`, `ClampedOrder`), the features are those
of the training (`FeaturesAsTrained`), the sum does not depend on its order
(`ScoreIsModelled`), and with weights that are not negative a riskier event does
not score lower (`ScoreOrder`). The invariant `Routes` then says that each route
accepts exactly a `Sound` dataset (an artifact that loads and rows that are
valid and labelled) and that every prediction is the score of its row. Both
halves of `EvaluatedWhole` and `RoutesAgree` follow from it. Percentiles are a
lemma about integer division, for every count.

`LifetimeProofs`. `InLimits` says how much of its limits a request has used,
`InGrace` that what is left to it is less than what is left of the grace. A tick
takes the same from both, and overdue requests go first, so the grace never
reaches zero with a request under way. Requests that become active during the
shutdown come from idle connections, which exist only while the grace is whole;
the rest is closed, and remembered in `found`. The proof uses nothing of the time limits
but `ReadTimeout + Deadline < Grace` and `HeaderTimeout <= ReadTimeout`.

`PaceProofs`. `NewEntriesAreRead` bounds how long an entry waits by the number
of failing entries, and is not inductive: nothing in it says why the next pause
would be the last. `PausesRemembered` does. For every pause an entry has waited
there is a failing entry whose idle time is that number of pauses; since a pause
makes all of them older by one and a claim makes one of them 0
(`PauseHasCause`), the idle times of the failing entries remember all pauses
since the entry was appended. Different pauses are different idle times, hence
different entries, and there are only so many (`AgesAreEntries`, by an
injection). An idle time is forgotten only when it has reached `ReclaimIdle`,
which by `PaceAssumption` is beyond that count.

`PageProofs` has two invariants over the types, which include `OneFlight`: at
most one refresh is under way. `Reading` is about refreshes. What a flight
brings was signed with the gateway's secret (`DataAreSigned`), and is no older
than the table it will replace and no newer than what is decided
(`DataAreNewer`). An edit takes the flight's table off, so the secret in the
field is still that of the flight when it lands; `ShownUnderItsSecret`,
`StaleIsLabelled` and `TableNeverGoesBack` follow. `Resending` is about POSTs: the
one under way is the attempt that the replay button would repeat, unless its
signature is wrong on purpose (`PostIsTheAttempt`), and a button that says
"Replay last" holds an accepted event (`ReplayIsAccepted`).

`ConnectionProofs`. The ranges of the counts are not inductive one by one: an
entry moves between unread, in hand and pending. `Conserved` says that unread and
pending entries together are no more than were ever appended.

Only model-checked are the four liveness properties, which are out of the
prover's reach: `EveryEntryIsFinished`, `ConsumptionRecovers`,
`ReadinessRecovers`, `PageCatchesUp`. Every invariant and every action property
that a run checks is also a theorem.

## 5. What is not modelled, and why

- *Trimming of the decision stream* at about a million entries; not reachable
  with small streams.
- *Floating point.* Scores are exact here. What rounding does to two events whose
  scores differ in the last digits, and the sigmoid itself, are outside of
  integer arithmetic. Fitting and the statistics of the evaluation are numerical
  library calls.
- *A producer that bypasses the gateway with a valid event*: only undecodable
  entries are injected.
- *Configuration.* Parsing is not modelled; the ranges it enforces are the
  assumptions on the constants. `AdmitTTL` and `FinishTTL` are separate
  constants, so processes with different retentions are covered.
- *HMAC.* A signature is right or wrong; a request with a wrong one is refused.
- *Gateway metrics* are written once per request and read by nothing; of the
  worker's counters, those of claims and failed cycles grow for ever and relate
  to no other state.
- *The page's form feedback* (validation of the amount) and layout are
  synchronous; the queue length it shows is a number from one answer.
- *Loss of Redis beyond a crash with its file*: a lost volume, or a file cut in
  the middle that Redis refuses to load, is an operator's matter.
- *Several causes in one model.* `Durability` has one worker and `Connections`
  counts its entries; crashes with two workers in one instance are covered by the
  proofs (any number of workers), not by a run.
- *Scripts, dashboards and manifests*: sequential drivers and declarative
  configuration. Restart policies appear as fairness of `Start`.

## 6. A disagreement between code and documentation

`docs/api.md:5` says of `202`: the event is in the queue or was already
accepted, and "a worker finishes the decision afterward". The run `expired`
finds an execution without any failure where this is not so:

1. Event `e1` with data `d1` is accepted; its admission marker is set.
2. It waits in the queue, then a worker finishes it and sets the completion
   marker, with the same retention, later than the admission marker.
3. The admission marker expires. The completion marker is still live.
4. `e1` with data `d2` is sent. The gateway has no record of `e1`, answers 202
   as for a new event and appends it.
5. `FINISH` finds the completion marker, acknowledges and deletes the entry
   and publishes nothing.

The interval in which this happens is as long as the first entry waited.

## 7. Plan

The connections composed with the worker's pipeline, so that a half-open writer
and the scripts it swallowed are one model.
