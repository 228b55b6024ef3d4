# Harness-Lab: a verification development

TLA+ models of Harness-Lab, the TLC configurations that check them on small
instances, and theorems about them whose proofs TLAPS checks. Paths such as
`app/leases.py:25` are relative to the repository (`src/`). `PROJECT.json` lists
the components, the runs, the mutants, the hazards and, for every definition that
stands for code, the lines it stands for.

Contents: 1 the system · 2 the modules · 3 the runs · 4 fairness · 5 what is proved ·
6 what is only model-checked · 7 findings · 8 Known limits · 9 what is not modelled ·
10 plan · 11 how to run it.

## 1. The system

Harness-Lab runs *agent runs*: a prompt is posted, a worker lets a language model
answer it in a few rounds of tool calls, and everything that happens is kept as
evidence. PostgreSQL (READ COMMITTED) is the only truth; Redis/RQ only delivers.
Five kinds of process share the database: the API (several processes), the
dispatcher, RQ workers (a main thread and a lease-renewal thread each), the sweeper,
and — for the evaluation — a chaos proxy between the workers and the model server.
Two gates judge the whole: the M3 gate injects faults into the running system, the M4
gate submits a frozen catalog of cases.

```
client ──POST /runs──▶ API ──insert run, event, outbox job, key──▶ PostgreSQL
client ◀─SSE events─── API ◀─────────────poll────────────────────── PostgreSQL
                  dispatcher ──pending outbox job──▶ Redis/RQ ──pop──▶ worker
   worker ──claim, fence, events, turns, tool rows, outcome──▶ PostgreSQL
   worker ──chat completion──▶ chaos proxy ──▶ model server
   sweeper ──expired leases: requeue or bury──▶ PostgreSQL
   cohort driver ──arm / submit / wait / verify / disarm──▶ proxy, API
   gate script, driver ──moves services between databases──▶ all of the above
   M3 verifier ──kills, stops, reconfigures; reads rows, queue, containers──▶ all of the above
   exporter, classifier ◀── evidence of finished runs ── PostgreSQL
```

### Inventory

**Run lifecycle** (`app/models.py`, `runs.py`, `events.py`, `fencing.py`,
`leases.py`, `jobs.py`, `sweeper.py`). *State:* the run row (status, lease owner,
lease deadline, attempt = generation), the numbered event log. *Operations:* create,
claim, renew, fenced append, finish completed/failed, sweep (requeue or bury).
*Interactions:* five processes write one row; the row lock is their only meeting
point. *Hard:* `now()` is the start of the transaction, so a transaction that waited
compares a lease with the past; a worker that lost its lease goes on ("zombie");
workers die between any two steps; the renewal thread is concurrent with the main
one. *Correct when:* one generation writes at a time and generations appear in the
log in order; one outcome; attempts bounded; a live lease is respected; terminal is
final; every accepted run ends.

**Dispatcher and outbox** (`app/outbox.py`, `dispatcher.py`, `chaos/hooks.py`).
*State:* outbox rows (pending / dispatched) and the rows an open transaction has
locked. *Operations:* select a batch with SKIP LOCKED, publish each, mark, append
`run.enqueued`, commit. *Hard:* it publishes before it commits, so a crash publishes
again; a duplicate is swallowed by job id; a publish may fail in the middle.
*Correct when:* a queued run is always carried by some job.

**RQ worker process and Redis queue** (`app/worker.py`; the library is external).
*State:* queue, known job ids. *Hard:* a delivery is lost with the worker that popped
it; job ids are forgotten after a while.

**Tools and budget policy** (`app/agent/tools.py`, `policy.py`). *State:* campaigns,
tool call rows, audit rows. *Operations:* one transaction per tool call: fence,
idempotency lookup, campaign lock, authorisation, write. *Hard:* a run is executed
again from its first step; two generations may be alive; two runs adjust one
campaign; amounts are rounded to cents. *Correct when:* at most one write per run,
only what the prompt authorised and within 20 %, all or nothing, explained by the
audit.

**Event stream and its clients** (`app/api/routes_runs.py`, `web/index.html`).
*State:* the server's cursor and batch, what is on the wire, what the client has.
*Hard:* two SELECTs, two snapshots; connections break with events on the wire.
*Correct when:* each client has a prefix of the log without holes or repetitions, and
learns the outcome.

**POST /runs and idempotency** (`app/runs.py`, `app/api/routes_runs.py`). *State:*
advisory lock, idempotency keys. *Hard:* concurrent requests with one key, retries
after a lost answer, API processes that die. *Correct when:* one key, one run, one
answer, nobody blocked.

**Evaluation cohort** (`scripts/run_m4_cohort.py`, `scripts/verify_m4.py`,
`app/chaos/proxy.py`, `app/agent/loop.py`, `app/eval/model_turns.py`). *State:* the
proxy's armed fault window (case, schedule, cursor), the driver's position, the
recorded model turns. *Operations:* arm, submit, wait, verify schedule, disarm;
decide the next fault; record a turn; compare the turns with the schedule. *Hard:* the
proxy does not know who asks; model calls are not fenced, so a zombie consumes a
decision. *Correct when:* an accepted cohort heard exactly its own faults; without a
disturbance it is accepted; it ends.

**Evidence: recorded turns, export, classification** (`app/eval/model_turns.py`,
`export.py`, `classify.py`, `app/agent/loop.py`). *State:* turns, tool rows, audits,
outcome. *Operations:* record a turn, execute a call, fail, finish; reconstruct the
lineage of calls and rows; classify. *Hard:* turns of several generations share their
step numbers; the model's arguments are rewritten before they are executed; a row's key
compares them as text, the exporter as Python values. *Correct when:* the reconstruction is
possible and right, and a verdict never rewards what was refused.

**M4 gate** (`scripts/run_verify_m4_home5090.sh`, `scripts/verify_m4.py`,
`app/eval/replay.py`, `app/eval/dataset.py`, `scripts/m4_watchdog.py`). *State:* which
database the one set of services is on, whether a worker is up, whose control token the
proxy has, the runs of four databases per gate, the artifact directory, `gate_state.json`,
`gate_m4.json`, the shared `eval/`. *Operations:* new (cohort, evidence, requeue
control, capture-off control), the reviewer, resume (dataset, two replays), finalize;
the trap that restores the ordinary services. *Hard:* script and driver are different
processes and a signal ends only one of them; the commands come in any order and may be
cut off; the files of one gate meet those of another. *Correct when:* PASS has been
earned, no run is in anybody else's database, the ordinary services are back between
scripts.

**Data model and migrations** (`app/models.py`, `alembic/`, `app/db.py`,
`app/config.py`): the tables behind all of the above; UNIQUE constraints are
preconditions that the row lock and the advisory lock have to establish.

**M3 gate** (`scripts/run_verify_m3_home5090.sh`, `scripts/verify_m3.py`,
`app/chaos/hooks.py`, `compose.yaml`). *State:* where the services are and which switches
their containers were started with, whether Redis is up, the marker of the dispatcher's
crash, the runs of the gate, the verifier's position and what it has read, the two reports.
*Operations:* six experiments, each after a check that the system is quiet: kill the
worker of a run that used a tool, let the dispatcher die between publish and commit, stop
Redis, inject 429s and timeouts, one worker against four, event streams. *Hard:* every
verdict is put together from separate reads of PostgreSQL, Redis, Docker and the API
while the system goes on; the faults ordered may strike at the wrong time or not at all;
the verifier may die with Redis stopped; script and verifier are different processes.
*Correct when:* a pass has seen its faults and the recovery from them, no fault reaches
the evidence of another experiment, a good system is not condemned, and the ordinary
services are back afterwards.

**Chaos proxy, seeded faults of M3** (`app/chaos/proxy.py`): independent random faults
and latency; part of the M3 gate's arms.

**Replay of a dataset** (`app/eval/replay.py`): scores recorded trajectories and runs
a dataset again through proxy and workers, one item at a time (a stage of the gate).

**Normalisation and redaction** (`app/eval/redact.py`): pseudonyms and secret
patterns in texts. **Human review and dataset build** (`app/eval/dataset.py`): fixed
sample, agreement thresholds, slices, manifest. **Artifact files**
(`app/eval/artifacts.py`): temporary file, fsync, rename. **Eval catalog**
(`app/eval/catalog.py`, `config/eval/`): frozen cases and schedules, validated.
**LLM client** (`app/agent/llm.py`): one call, no retries of its own. **Telemetry,
metrics, debug routes**: observation only. **Verification scripts** (`scripts/verify_*`):
clients of the deployed system that assert its behaviour. **Resource watchdog** (`scripts/m4_watchdog.py`).
**Deployment** (`compose.yaml`, shell scripts).

## 2. The modules

One module per component; each is written from the source and stands alone. They meet
in the concepts they share (generation = `agent_runs.attempt`, the fence, the row lock),
not in shared variables: what one component is to another is an action with the choices
its own module justifies. `MC*` modules give the constants values for TLC, `*Proofs`
modules hold the theorems.

| Module | Component | Refines / is used by |
| --- | --- | --- |
| `RunContract` | what Harness-Lab promises about a run | abstract |
| `RunLifecycle` | run row, leases, outbox, dispatcher, Redis/RQ, worker, sweeper | implements `RunContract` |
| `BudgetTools` | the tool transaction and the budget policy | |
| `EventStream` | `GET /runs/{id}/events` and its clients | |
| `IdempotentPost` | what `POST /runs` promises its clients | abstract |
| `CreateRun` | `POST /runs` with an Idempotency-Key | implements `IdempotentPost` |
| `Cohort` | the evaluation driver, the proxy's fault window, model turns | |
| `Trajectory` | evidence of one run, export, classification | |
| `Gate` | the M4 gate: script, driver, services, databases, files | |
| `ChaosGate` | the M3 gate: verifier, script and the system under its faults | |

**Transactions.** A PostgreSQL transaction that takes the run's row lock, reads and
writes is one step, because others wait for the lock or skip the row. It is split where
the code does something else in the middle or where its snapshot matters: the
dispatcher's transaction (it publishes to Redis while it is open), the tool transaction
(run lock, campaign lock, commit), the two SELECTs of the event stream (two READ
COMMITTED snapshots), the lookup behind the advisory lock.

**RunLifecycle.** `status`, `owner`, `lease`, `attempt` are columns of `agent_runs`,
`events` is `run_events` with the generation of the writer, `outbox[r][n]` the n-th
outbox job of the run, `queue`/`known` the RQ queue and its live job keys,
`batch`/`published`/`marked`/`draft` the dispatcher's open transaction, `worker[w]` main
and renewal thread. Actions: `CreateRun` (runs.py), `DispatchSelect/Publish/Postpone/
Mark/Commit/Crash` (outbox.py), `Pop`, `KeyExpires` (RQ), `Claim/ClaimRefused`,
`Start/StartRefused`, `AgentStep…`, `AgentRaises`, `Finish…`, `Renew/RenewStops`
(leases.py, jobs.py), `WorkerCrash`, `Sweep` (sweeper.py), `Tick`. Time: every lease
comparison uses `now()`, fixed when the transaction starts; an action of age `a` sees
`lease[r] + a` ticks left, so late commits with an old clock are there. Deadlines are
relative to the present, which keeps the state finite without a clock.

**RunContract** has three variables (status, attempt, and which runs lost a delivery)
and five actions. `RunLifecycle` implements it under the identity mapping of those
three; `GiveUp` takes a set of runs because one sweep does.

**BudgetTools.** `calls` is `tool_calls`, `audits` is `budget_audit` (with the
budget before as history), `intent[r]` what the prompt authorises, `agent[r][g]` the
generation `g` of run `r` and its open transaction, `runLock`/`campaignLock` the row
locks. Amounts are integers of a hundredth of a cent, `Stored` rounds to NUMERIC(12,2).
The regular expressions that find an intent in a prompt are abstracted to the intent.

**EventStream.** `log` is the committed event log, `draft[w]` a writer's uncommitted
sequence number, `stream[c]` the server side of a client (cursor, batch, where it is
between its two SELECTs), `wire[c]`, `got[c]`. A *browser* is an EventSource: it
reconnects with its last id and closes when told the outcome. A *reader* takes the end of
the response for the end.

**CreateRun.** `advisory` is `pg_advisory_xact_lock`, `keys` the table
`idempotency_keys`, `pc[q]` where a request is. Different keys may share a lock
(`HashOf`), requests may have no key, processes die before and after the commit. It
implements `IdempotentPost` (one request of a key creates, the others repeat, any may
fail) with `open` as the requests that have not ended; locks, lookup and flush are
stuttering steps there.

**Cohort.** `window` is `RegisteredFaultWindow`, `run`/`turns` the rows, `worker` the
one worker the gate deploys, `pc`/`at` the driver, `proof` the manifest, `heard` history:
which decision of which schedule each recorded turn came from. A worker that lost its
lease keeps calling the model until a fenced write is refused.

**Trajectory.** `turns` (model turns by generation, step, try), `rows` (tool calls),
`audits`, `worker`; then, as operators over what a run left, `ReconstructionError` and
`Linked` (export.py) and `Classification` (classify.py). A `Call` stands for what matters of
a tool call's name and arguments; `KeyOf` is the row it is looked up under when it is
executed (by text), `Matches` the rows the exporter finds for it (by value). The exporter
also rejects a run whose events have a gap (`app/eval/export.py:31`): that none arises is
`NoSequenceClash` of `EventStream` and not repeated here.

**Gate.** `plane` is the database the services are on, `worker` whether compose's worker
container runs, `proxy` whose token the proxy has; `queued`/`ended` the runs per
database; `script` and `driver[d]` two processes that move the same services; `files`,
`review`, `state`, `criteria` per gate and `rows`, `manifest` in the one `eval/`. A run
here only is queued where the API was and ends where the services are: its insides are
`RunLifecycle` and `Cohort`. The criteria of `gate_m4.json` are grouped (evidence,
human_review, replay, restored). `stray` is history: a driver outlived its script, or a
script was killed in its trap.

**ChaosGate.** `plane`, `redis`, `fleet`, `dispatcher`, `marker`, `proxy` are the
services as their containers were started; `run[k]` one run of the verifier with its row,
its newest outbox row and its delivery; `v` the verifier (`pc`, stage, what it has read),
`script` the shell script, `report` the files. `stray` is history: a verifier has
outlived its script; `CutOff` is the end of a script without its trap. `System` is what
goes on by itself: publish, commit, restart, claim, use a tool, end, sweep; a run's insides are in
`RunLifecycle` and `BudgetTools`, and claiming and starting are one step here. `Verifier`
has one action for every read or command whose order matters; a deadline that may pass is
a disjunct. `dark`, `orphan`, `retried` are history: Redis was down when the run was
posted, its publisher died of the crash switch, it met a fault of the proxy.

## 3. The runs

Times are with two workers on two cores.

| Run | Checks | Size |
| --- | --- | --- |
| `lifecycle_safety` | `TypeOK`, `GenerationsInOrder`, `StartedOncePerGeneration`, `OneOutcome`, `AttemptsBounded`, `QueuedRunIsCarried`, `LeaseRespected` | 2.03 M states, 180 s |
| `lifecycle_liveness` | `ImplementsContract` | 256 k |
| `lifecycle_lost_delivery` | finds `RunSettles` violated | |
| `tools` | `TypeOK`, `OneWritePerRun`, `WritesAuthorized`, `LedgerExplainsBudget`, `ToldIsWritten`, `CommitsBehindFence` | 2.25 M, 130 s |
| `stream` | `TypeOK`, `GotIsPrefix`, `NoSequenceClash`, `FollowersLearnTheEnd` | 268 k |
| `stream_closed_without_outcome` | finds `ClosedWithOutcome` violated | |
| `create_run` | `TypeOK`, `ImplementsPost`, `NoDuplicateKey`, `RequestsEnd` | 4.3 k |
| `cohort` | `TypeOK`, `LiveRunOwnsWindow`, `AcceptedMeansHeard`, `NoFalseAlarm`, `CohortEnds` | 1.37 M |
| `evidence` | `TypeOK`, `LineageHolds`, `OutcomeBacked`, `RefusalNotRewarded` | 538 k, 10 s |
| `environment_negative` | finds `EnvironmentNeverNegative` violated | |
| `gate` | `TypeOK`, `PassIsEarned`, `RunsStayHome`, `ServicesRestored` | 2.07 M, 55–90 s |
| `chaos_gate` | `TypeOK`, `PassIsEarned`, `ExperimentsIsolated`, `DispatcherTrialFair`, `NormalUntouched` | 2.77 M, 75 s |

**Bounds, and why they are enough to be interesting.**

- `lifecycle_safety`: one run, two workers, two attempts, transactions up to two ticks
  old with a lease of one, one forgotten job key. Runs meet only in the dispatcher's
  batch and in a worker's attention; the races are between processes over one row, and
  two workers are the live one and the zombie. `TxDelay > LeaseTime` is what makes an old
  `now()` dangerous; the forgotten key is what makes a second claim beyond `MaxAttempts`
  possible.
- `lifecycle_liveness`: no symmetry, no forgotten key (with one, an execution beyond
  `MaxAttempts` is possible and `RunContract` does not promise otherwise), prompt
  transactions, one event per generation.
- `tools`: two runs with two generations each that may both be alive, in two scenarios.
  Either both adjust one campaign, one by 20 %, one by half a cent, and each may ask for
  the amount that is right before or after the other's write. Or one has two rounds and
  ten requests (a read, a tool that fails, the authorised write, another campaign, another
  delta, abbreviated ids, no campaign, missing and malformed delta; then the write again,
  also as a decimal), or a prompt that authorises nothing or too much, next to a run whose
  model asks for nothing. `Prompts` and `Dialogues` bound what is asked. What they leave
  out, more rounds, runs and requests, is covered by the theorems of section 5.
- `stream`: a page and a reader, a completed run, two faults. Two faults are a lost
  connection and the loss of its repetition.
- `create_run`: five requests: three with one key, one whose key shares its lock, one
  without. Everyone may die anywhere.
- `cohort`: four cases (no schedule; a schedule ending in 200; one exhausting the
  retries with equal errors; one with four different ones), two lost leases, one crash,
  two attempts, two rounds. Two leases let a zombie of one case and the requeue of the
  next coincide. `UpstreamFaults = {}`; see Known limits.
- `evidence`: one run of any kind, two rounds of two tries in two generations, and turns
  (`MCTurns`) with every kind of call: a read with its respelling, the authorised adjustment
  abbreviated, respelled and twice in one turn, one the gate refuses, alone with a refusal
  in words or behind one it executes, an unknown tool, a delta that is no number, malformed
  arguments.
- `gate`: two gates, two cases and one item each, one fault (any check that fails for
  outside reasons, a signal, a killed script or host) at any step, and new, resume,
  restore in any order without bound. Timeouts and refusals are not counted as faults,
  so a gate may also fail as often as its checks make it. With one case and two faults,
  10.9 M states were explored without a violation; that run did not complete and is not
  part of the project.

- `chaos_gate`: one trial out of two candidates in EXP-1, so that one may be skipped and
  still be running; one run in every other arm; two attempts; one fault nobody ordered
  anywhere (a work horse, the dispatcher or the verifier dies, a command fails, the script is
  interrupted or killed). The script may be started again when its verifier has ended. A
  restart of the host is several of these faults at once: the theorems allow any number, the
  run one. With two runs in the outage, published in one batch and taken by several workers,
  6.40 M states are explored without a violation in three to five minutes; that run is not
  part of the project, and all five properties are proved for any number of runs.

Deadlock is checked where the system never stops (`lifecycle_*`, `tools`, which ends in
the stuttering action `Settled`, `gate`); the others end: every run is terminal, every
stream closed, every request answered, the cohort accepted or aborted. `chaos_gate` may
stop too: a verifier that outlived its script waits without a deadline on a stream of a
run nobody executes (heartbeats every 15 s, `app/api/routes_runs.py:127`, keep the
connection open), and a script is not started beside it.

Every property of a passing run has a mutant in `PROJECT.json`: one definition of the
model changed the way a bug would change the code (a dropped guard, a lock not taken, an
off-by-one, a check made in the wrong place), for which TLC finds the property violated.
The mutated forms stand next to the definitions they replace (`Name_Mutation`); no
specification uses them.

## 4. Fairness

| Where | Assumed | Why the code justifies it |
| --- | --- | --- |
| `RunLifecycle` | weak fairness of `Tick`, `Sweep`, the dispatcher's steps, each worker's main thread | time passes; every service has `restart: unless-stopped` (compose.yaml), and their loops run for ever (`dispatcher.py`, `sweeper.py`, `worker.py`) |
| | strong fairness of each publish | a failing `enqueue_call` takes the row out of the batch and postpones it; Redis is not down for ever |
| | from some time on the dispatcher does not die in the middle of a transaction | otherwise nothing is ever committed; workers may die for ever |
| | none for renewals, crashes, key expiry | nothing forces a renewal to be in time |
| `EventStream` | strong fairness of a writer's lock, weak fairness of commit, serving and listening; faults bounded | PostgreSQL queues lock waiters; the poll loop and EventSource repeat; with endless disconnections no client learns anything |
| `CreateRun` | strong fairness of the advisory lock, weak fairness of the transaction | PostgreSQL grants a lock in turn and frees it when a session dies |
| `Cohort` | weak fairness of the driver, the worker, the expiry of unrenewed leases and the sweeper; crashes and lost leases bounded | sequential loops with deadlines (240 s), one worker that is restarted |

`BudgetTools`, `Trajectory`, `Gate` and `ChaosGate` state safety only.

## 5. What is proved

Eight modules hold the theorems; each is proved for every value of the constants that
meets the named assumptions of its module, which TLC evaluates in the runs.

| Module | Theorem | Says |
| --- | --- | --- |
| `RunLifecycleProofs` | `TypeCorrect` | `TypeOK` |
| | `GenerationsStayInOrder` | `GenerationsInOrder`: no zombie writes after a newer generation, however late its transaction commits |
| | `NoRunForgotten` | `QueuedRunIsCarried` |
| | `EndsOnce`, `StartsOnce` | `OneOutcome`, `StartedOncePerGeneration` |
| | `AttemptsAreBounded` | `AttemptsBounded`: at most `MaxAttempts` claims, plus one for every key RQ forgot |
| | `LeasesAreRespected` | `LeaseRespected` (an action property): only its owner ends a lease that has not run out |
| | `ContractIsKept` | the initial states and steps of `RunContract`, if RQ forgets no key (`MaxExpiries = 0`) |
| `BudgetToolsProofs` | `TypeCorrect` | `TypeOK` |
| | `WritesBehindFence` | `CommitsBehindFence` (an action property) |
| | `WritesOnce`, `OnlyAuthorizedWrites`, `WritesAreWhole` | `OneWritePerRun`, `WritesAuthorized`, `AllOrNothing` |
| | `BudgetsLast` | `BudgetStaysPositive`: no number of adjustments exhausts a budget |
| | `AgentsAreToldTheTruth` | `NeverUnknown` and `ToldIsWritten` |
| | `TheAuditExplainsTheBudget` | `LedgerExplainsBudget`: no update is lost |
| `CreateRunProofs` | `TypeCorrect`, `NeverDuplicate` | `TypeOK`, `NoDuplicateKey` |
| | `Idempotent` | `ImplementsPost`: `CreateRun` implements `IdempotentPost` |
| | `OneRun`, `OneAnswer` | one run for a key, one answer for a key |
| `EventStreamProofs` | `TypeCorrect`, `StreamsArePrefixes`, `SequencesAreUnique` | `TypeOK`, `GotIsPrefix`, `NoSequenceClash` |
| `CohortProofs` | `TypeCorrect`, `WindowOfTheLiveRun` | `TypeOK`, `LiveRunOwnsWindow` |
| | `AcceptedCohortsAreSound` | `AcceptedMeansHeard`, if the model server answers (`UpstreamFaults = {}`) |
| | `NoAlarmWithoutCause` | `NoFalseAlarm` |
| `TrajectoryProofs` | `TypeCorrect`, `TurnsKeepTheirOrder`, `OutcomeHasEvidence` | `TypeOK`, `TurnsInKeyOrder`, `OutcomeBacked` |
| | `LineageIsKept` | `LineageHolds`: of a run that ended, no identity twice, no row without a call, never two rows for a budget write; three ways for the export to fail remain, which it names |
| | `RefusalsAreNotRewarded` | `RefusalNotRewarded` |
| `GateProofs` | `TypeCorrect`, `ServicesAreRestored` | `TypeOK`, `ServicesRestored` |
| | `PassesAreEarned`, `RunsAreAtHome` | `PassIsEarned`, `RunsStayHome` |
| `ChaosGateProofs` | `TypeCorrect`, `TheOrdinaryRuntimeIsRestored` | `TypeOK`, `NormalUntouched` |
| | `ExperimentsAreIsolated` | `ExperimentsIsolated` (an action property; both of these unless a verifier outlives its script) |
| | `PassesAreEarned`, `DispatcherTrialsAreFair` | `PassIsEarned`, `DispatcherTrialFair` |

`BudgetStaysPositive`, `NeverUnknown`, `AllOrNothing` (in `BudgetTools`),
`TurnsInKeyOrder` (in `Trajectory`), `OneRunPerKey` and `SameAnswer` are proved; no run
lists them, since the theorems cover all bounds.

**The arguments.** No invariant above is inductive alone. What is added:

- `RunLifecycle`. *Types* (`TypeInv`) need `JobHeld`: a worker that is not idle, or
  renews, holds a delivery. *Order* (`LogInv`): the newest generation in a
  run's log is at most the row's `attempt` (`Ordered`); what the dispatcher has appended
  and not committed carries the row's `attempt`, which the row lock keeps current
  (`DraftInv`). A fenced append carries exactly `attempt`,
  so it goes to the end of an ordered log; the comparison of the lease with an old clock
  is not needed. That is why a late commit does no harm: the fence's generation test
  alone orders the log. *Carrying* (`CarrierInv`): the newest outbox job of a queued
  run is in Redis, or popped, or pending and never handed to RQ (`Carried`); jobs the
  dispatcher or RQ has seen have rows (`SeenInv`), so a new job is not among them and the
  swallowed `DuplicateJobError` cannot be its first publish. Without "never handed to
  RQ" it is not inductive: after a crash between publish and commit the next publish of
  the pending row is swallowed.
  *Ends* (`EndInv`): an open run has no outcome in its log, an ended one has the row's.
  *Starts*: each generation has one worker (`GenInv`), and a worker that is about to start
  finds no start of its generation in the log (`StartInv`). *Attempts*: `DeliveryInv` (a
  delivery is in one place, with a key in Redis) and `CountInv`, which counts the
  deliveries of a run still to come: a queued run has an attempt left for one of them, and
  every other is a key RQ forgot. *Leases*: a running run has an owner (`OwnedInv`), and no
  transaction's old clock is ahead of the present. *The contract*: a delivery that is
  popped while its run runs is spent, unless RQ forgot a key, so a claim finds a queued
  run (`PoppedIsUnspent`); that is where `MaxExpiries = 0` is needed, and with forgotten
  keys the claim of a running run is allowed (section 8).
- `BudgetTools`. `TxInv` says who holds what in each step of the tool transaction:
  `LockInv` (whoever is between begin and commit holds the run's lock, whoever has
  decided also the campaign's) and `DecidedInv` (what was decided is the prompt's own
  adjustment, against the budget that is still there). `Ledger` relates the tables:
  adjustments and audit rows come together, at most one audit per run, every
  audited write authorised against its own *before*, no budget below a cent, and what an
  agent was told of its write is in the audit (`Honest`). `SumInv` is for the sum of the
  audit. What a recursive total computes would take an induction over the rows; instead
  the invariant says of every function that satisfies the recursion that it ends at the
  moved amount, up to a cent for each delta with a fraction of one, and that there is such
  a function. Each step appends at most one row, so both are kept step by step, and
  `RunningTotal` is one of these functions (`TotalIsTotal`).
- `CreateRun`. `HoldsLock` (between lookup and commit the key's lock is held),
  `StillAbsent` (what the lookup did not find is still absent), so the UNIQUE constraint
  on the key is never what decides. The refinement of `IdempotentPost` needs in
  addition that the key rows are exactly the runs created with a key (`KeyRowsAreRuns`):
  then what the lookup finds is what `IdempotentPost` knows.
- `EventStream`. `RowInv` and `ClientInv`: the server's cursor, the batch, the wire and
  what the client has are consecutive parts of one log that only grows at its end.
- `Cohort`. `WindowInv`, `CursorInv` (the cursor is within the schedule of the armed
  case), `LiveInv`, `FreshInv`, `QueuedInv`, `RetryInv`: between arming and disarming
  only the armed case's run can be live. *Soundness* (`HInv`): zombies may have taken
  decisions, so a run need not have heard its schedule from the start. But what it has
  recorded are faults of its own case in their order: the distance between a fault's place
  in the schedule and its place on record never shrinks (`OrderInv`). If the record equals
  the schedule, the last fault has no room to have moved, and neither have those before it
  (`ParityIsHeard`). It needs that the model server itself answers: otherwise a timeout of
  its own may stand on record where a registered one was due, and the theorem is false
  (section 8). *Completeness*: without a lost lease or a crash (`Calm`) schedule and worker
  move in step (`Steady`: `InStep` gives the cursor for each place the worker can be at,
  `DoneInv` the proofs of the cases behind).
- `Trajectory`. `ProgressInv` (where the live worker is in its generation, step and try
  is after every recorded turn), `BeginInv`, `VerdictInv`, `ErrorInv`. For the lineage:
  the calls still to be made are calls of the last recorded turn (`TodoInv`), every row was
  asked for by one (`RowsInv`), only reads and one adjustment in the whole run have rows
  (`WriteInv`, so that only reads can be ambiguous), and without a turn nobody but the
  sweeper ends a run (`EmptyInv`). What was refused has no row under its key and never will
  (`BlockedInv`: the reason for which it was refused, `Hopeless`, lasts); if the exporter
  finds it a row all the same, in another spelling, it shares that row with the call it was
  executed for, and one of the two adjustments stays without.
- `Gate`. *Types* need to know where each driver may be with which purpose (`Shape`), and
  that a driver is off until its launch (`FreshDrivers`). *Services* (`PlaneInv`): while no
  driver is live, whatever the trap has passed is done. *Evidence* (`EvidenceInv`): of each
  driver, the runs still to come are nowhere and those behind it ended at home (`RunsInv`);
  a run is in one database (`OnePlace`), since a driver submits each key once; of each
  gate, what its files and criteria say is so (`GateInv`, `CriteriaInv`), and a mode that
  has no files yet has no runs either (`LaunchInv`).
- `ChaosGate`. Two facts carry the rest. *What any step does to a run* (`Evolves`): what is
  on its record stays, and a run that is over, with nothing of it in Redis or in the outbox,
  stays as it is. It holds of runs that were in Redis before they were claimed (`Known`),
  which every step keeps. *How the verifier moves* (`Shape`, `VerifierSteps`, `Arrivals`):
  which stage goes with which place in its code, and what it has just read when it gets
  there. *Services* (`PlaneInv`): from the end of `up` until the trap they are all on the
  gate's database, unless a verifier outlived its script. *Isolation* (`QuietInv`): while
  `ensure_quiescent` reads, nothing is submitted, since every submission is the verifier's
  own; so what its three reads find at different times holds together at the end, and by
  `Evolves` it lasts. *What a pass has seen*: a run that was not posted has no row
  (`FreshInv`), so whatever is on record is this gate's; what each stage leaves in its rows
  (`ProgressInv`, `DarkInv`, `OrphanInv`) is what `Judge` goes by and stays true after it
  (`PassedInv`, `GateInv`). *The trial of the dispatcher* (`TrialInv`): as long as nothing
  unordered breaks, a run that was claimed was claimed once (`Undisturbed`), and a
  dispatcher that is down in EXP-2 left the row pending and is not restarted before the row
  was read (`DispatchInv`).

**Assumptions.** Only those named in the modules: the null values are no members of the
sets they stand next to, bounds are positive naturals, the lease and the ages are
naturals (`RunLifecycle`: `NullsAssumption`, `TimingAssumption`, `BoundsAssumption`),
amounts are whole cents (`MoneyAssumption`, `NamesAssumption`, `LimitsAssumption`),
requests and clients are what the code can receive (`RequestsAssumption`,
`ClientsAssumption`, `ScriptAssumption`), a case's schedule is one the catalog's
validator lets through (`CaseAssumption`, `ScheduleAssumption`, `BoundsAssumption`), and
`Trajectory`'s `Kind-`, `Turn-`, `Fault-` and `BoundAssumption`, and `Gate`'s
`NamesAssumption` and `BoundsAssumption`; the sizes of `ChaosGate`'s experiments are positive
and it wants no more trials than it has candidates (`SizesAssumption`). Two theorems assume a value of a constant:
`ContractIsKept` that `MaxExpiries = 0`, `AcceptedCohortsAreSound` that
`UpstreamFaults = {}`. The runs that check the same property use the same value.

TLC finds no violation of the strengthened invariants on the instances of the runs
(`SumInv`, which quantifies over all functions, is beyond it).

## 6. What is only model-checked

- Liveness (`FollowersLearnTheEnd`, `RequestsEnd`, `CohortEnds`) and the fairness of
  `RunContract`: fairness and ENABLED are outside what TLAPS's backends do. Of the
  refinement of `RunContract` the initial states and the steps are proved.

No module uses a RECURSIVE operator.

## 7. Findings

Three places where a run shows the program doing something else than the repository's
documents say. The counterexamples come from the runs named.

1. `lifecycle_lost_delivery`, `RunSettles`. *docs/harness-lab-plan.md:99*: "kill 掉任何
   进程，run 不丢" (kill any process and no run is lost). RQ gives a popped delivery to
   nobody else, its outbox row is `dispatched`, and `sweep_once` looks only at
   `status = 'running'` (`app/sweeper.py:28`). A worker that dies after the pop and
   before `claim_run` commits (`app/jobs.py:55`) leaves the run queued for ever.
   `ImplementsContract` and `QueuedRunIsCarried` show that, in the model, this is the only hole.
2. `stream_closed_without_outcome`, `ClosedWithOutcome`. *docs/harness-lab-plan.md:209*:
   when the run is terminal, send `run.completed`/`run.failed`, then close the stream.
   `get_events` selects the events (`app/api/routes_runs.py:104-108`), then in a newer
   snapshot the status (`:109`); a `finish_run` between the two makes it close without
   the terminal event. The page recovers (EventSource reconnects: `FollowersLearnTheEnd`),
   a plain reader does not.
3. `environment_negative`, `EnvironmentNeverNegative`. *docs/harness-lab-plan.md:516*: a
   terminal environment failure never goes into `behavior_negative`.
   `classify_trajectory` considers ENVIRONMENT_ERRORS only for cases of kind
   `environment` (`app/eval/classify.py:98-137`); a normal case that ends with MODEL_429,
   MODEL_TIMEOUT or MODEL_5XX becomes model_behavior / bad_output / behavior_negative
   (`:197-203`).

## 8. Known limits

Things met while modelling that no run of this project decides.

*Runs and events.*
- RQ may also redeliver a job of a run that is `running` with an expired lease before the
  sweeper sees it; `RunLifecycle` has that claim, and its consequence: attempts may
  exceed `MaxAttempts` by the number of forgotten job keys, which is what
  `AttemptsBounded` says.
- `run.started` may precede `run.enqueued` in the log, because the job is in Redis
  before the dispatcher commits. `scripts/verify_m1.py:46` expects the usual order.

*Tools.*
- A delta that is not a number ends as INTERNAL_ERROR, not as a refused call
  (`app/agent/tools.py:164`). `Trajectory` has it.
- Two calls of one step whose arguments are equal for Python (`1`, `1.0`, `True`) but not
  as JSON text have two keys; if both were executed the export fails with "ambiguous tool
  lineage" (`app/eval/export.py:80`), although docs/harness-lab-plan.md:496 wants every
  executed call uniquely linked. `Trajectory` has them, and `LineageHolds` excepts them: it
  takes two reads of one step with a number the tool does not look at. Two spellings of a
  budget write never get there, since the second is refused.
- Numbers that JSONB returns as something else for Python (`1e23`) are left out.

*Evaluation.*
- One run makes the export of the whole cohort fail. A model that writes arguments that are
  no JSON object ends its run in good order as BAD_OUTPUT; `_arguments`
  (`app/eval/export.py:18-26`) then raises, and `export_trajectories` (`:152-153`) with it.
  docs/harness-lab-plan.md:533 has a quarantine/ for what cannot be reconstructed; the M4
  plan (docs/plans/2026-09-08-m4-data-flywheel-plan.md:320) wants the export to fail, but
  lists missing turns, duplicates, gaps and conflicting lineage only. A record without
  turns, and two spellings of a read, have the same effect. `LineageHolds` excepts the
  three by name and says that there is no fourth.
- `AcceptedMeansHeard` is checked with a model server that answers
  (`UpstreamFaults = {}`). With `{"timeout"}` it fails: the first timeout of the schedule
  timeout, timeout, 200 is consumed by a zombie of the previous case, and the 200 is slow
  enough to be recorded as a timeout. The manifest then agrees with the schedule though
  the case did not hear it.
- The label `unsafe_attempt` does not require that anything was refused
  (`app/eval/export.py:101`, `app/eval/classify.py:181-188`, beside
  docs/harness-lab-plan.md:440).
- A run that lost all its workers after `step.model_call` and before its first turn was
  recorded ends the whole export (`app/eval/export.py:56-57`), which the M4 plan wants;
  `LineageHolds` says that only the sweeper leaves such a run.

*M3 gate.*
- Recovery may take 46 s (lease 30, grace 5, sweep 10, poll 1) and is accepted up to 45
  (`scripts/verify_m3.py:152`, docs/harness-lab-plan.md:399).
- The row of EXP-2 is read until it is dispatched; EXP-3 (`:897`), `ensure_quiescent` and
  EXP-6 read the same row at once, although a run may be over before its row is
  committed: a good system may fail there. `_wait_for_committed_tool` leaves a skipped
  candidate running, which the next `ensure_quiescent` may meet.
- `"injected": True` is a constant (`:753`). What counts as a trial of EXP-1 is a second
  attempt and one audit row; a worker that died by itself leaves the same.
- `ExperimentsIsolated` and `NormalUntouched` except histories with a verifier that has
  outlived its script (`stray`), and `NormalUntouched` excepts the time between a script
  that was killed before its trap had run and the end of the next one (`script = "cut"`).
  A verifier that outlived its script moves worker and dispatcher back to its own database,
  posts its runs to wherever the API is, and a run of its in the ordinary database blocks
  every later M3 gate (`:1188`).
- The check that the gate's database is empty (`:1177-1183`) comes long before the first
  run; two verifiers at a time are not modelled, the script starts one.
- The commands of the trap follow one another at once in the model. A verifier that
  outlives the script could find Redis up between two of them.

*Gate.*
- A signal, and the watchdog's SIGTERM, ends the script; a driver in its container goes
  on. It may then move services after the trap has restored them, or stop the ordinary
  worker. `ServicesRestored` excepts exactly these histories (`stray`).
  docs/plans/2026-09-08-m4-data-flywheel-plan.md:566 expects the ordinary services back
  on every catchable exit.
- The dataset of a resume that failed stays in the shared `eval/` and is never
  overwritten (`app/eval/artifacts.py`). A new gate id, which
  `scripts/run_verify_m4_home5090.sh:122` recommends, cannot build its own until a
  person removes the old one.
- A crash between writing `gate_state.json` and `gate_m4.json` makes the later resume
  fail at its end, for want of `gate_m4.json`.
- Jobs another gate's replay left in Redis databases 13 and 14 make a later resume fail
  its quiescence check.
- `new` goes on to PENDING_HUMAN with criteria that are FAIL; they decide at the end.
- The trap's own commands are assumed to work.

## 9. What is not modelled

| Part | Why |
| --- | --- |
| Shares and latencies of M3 | independent random draws: `ChaosGate` has the faults of an arm, not how many of 30 runs meet one, nor p95, throughput and alerts, whose verdict may come out either way |
| Diagnostic modes and preflight of `verify_m3.py` | they write no gate |
| Normalisation and redaction, artifact files, telemetry, debug routes | pure text transformations, one writer with hardly any state, or observation only |
| Fixtures, contamination counters, digests, latency and usage in the export | data no modelled property tells apart |
| Selection and thresholds of the review, slices of the dataset, scores of the replay | sequential computations; planned as operators (section 10). `Gate` has them as stages that may fail |
| Wire format of the LLM client | its results are the environment's choices in `BudgetTools`, `Cohort` and `Trajectory` |
| Migrations, indexes, column widths other than NUMERIC(12,2) | schema changes on an idle database |
| Verification scripts other than the gates', images and configuration | clients of the system and configuration; two facts are assumptions: crashed processes are restarted, the evaluation has one worker |
| Prompts | the regular expressions of `build_tool_policy` are abstracted to the intent they yield |

## 10. Plan

Order in which the rest is to be built.

1. Proofs: every safety invariant and every action property the runs check is proved. What
   is left is the temporal part of `RunContract`, which is out of reach (section 6), and
   lemmas that several modules state for themselves and could share.
2. `Replay`: the live replay of a dataset as an instance of `Cohort` with its own check
   of the schedule, items in sequence.
3. `Dataset`: the review sample, the agreement thresholds and the slices as operators,
   checked against a reference definition over bounded inputs; `score_item` likewise.
4. The intent grammar of `build_tool_policy` over a small alphabet of tokens.
5. `Catalog`: the shape the validator accepts, and that `Cohort`'s assumptions follow
   from it.

## 11. How to run it

With the TLA+ tools, the community modules and TLAPS 1.4.5 on the path, in this
directory:

```
tlc -workers 2 -config RunLifecycle_safety.cfg MCRunLifecycle
tlc -workers 2 -config Gate_stages.cfg MCGate
tlapm RunLifecycleProofs.tla
```

`PROJECT.json` pairs every module with its configuration (`runs`). All passing runs
together take about twelve minutes on two cores, and so do all proofs. A run with
`"expect": "violation"` ends with a counterexample to its only property.
