---------------------------- MODULE RunLifecycle ----------------------------
(***************************************************************************)
(* The life of a run across the processes of Harness-Lab: the API inserts  *)
(* it with an outbox job, the dispatcher publishes the job to Redis, an RQ *)
(* worker claims the run under a lease and executes it behind a fence, and *)
(* the sweeper requeues or buries runs whose lease ran out.  PostgreSQL    *)
(* rows are the truth, Redis only delivers, and any worker or the          *)
(* dispatcher may die between two steps.                                   *)
(*                                                                         *)
(* A PostgreSQL transaction that takes the row lock of a run, reads it and *)
(* writes it is one step: others wait for the lock or skip the row.  The   *)
(* dispatcher's transaction publishes to Redis while it is open, so it is  *)
(* a sequence of steps, with the rows it has locked and not yet committed  *)
(* visible in its own variables.                                           *)
(*                                                                         *)
(* Time.  Every comparison with a lease uses now(), which PostgreSQL fixes *)
(* when the transaction STARTS; a transaction that waited commits with an  *)
(* old now().  lease[r] is the deadline as seen from the present (ticks    *)
(* left, negative once past), and a transaction of age a sees lease[r] + a *)
(* ticks left.  No transaction lives longer than TxDelay, so a deadline    *)
(* further back than Floor is indistinguishable from Floor.                *)
(***************************************************************************)
EXTENDS Integers, Sequences

CONSTANTS
    Runs,         \* run identifiers (new_run_id never repeats one)
    Workers,      \* RQ worker processes
    NoWorker,     \* lease_owner IS NULL
    NoJob,        \* "no delivery"
    MaxAttempts,  \* settings.max_attempts
    LeaseTime,    \* settings.lease_seconds, in ticks
    Grace,        \* the sweeper's 5 seconds, in ticks
    RenewEvery,   \* the renewal thread's 10 seconds, in ticks
    TxDelay,      \* bound: the longest a transaction stays open, in ticks
    MaxSteps,     \* bound: events run_agent appends in one generation
    MaxExpiries   \* bound: RQ job keys that expire (0: deduplication is perfect)

ASSUME NullsAssumption == NoWorker \notin Workers /\ NoJob \notin Runs \X Nat
ASSUME TimingAssumption ==
    /\ LeaseTime \in Nat \ {0}
    /\ {Grace, RenewEvery, TxDelay} \subseteq Nat
ASSUME BoundsAssumption ==
    /\ MaxAttempts \in Nat \ {0}
    /\ {MaxSteps, MaxExpiries} \subseteq Nat

VARIABLES
    \* agent_runs and run_events
    status, owner, lease, attempt, events,
    \* outbox_jobs: outbox[r][n] is the status of the n-th job of run r
    outbox,
    \* Redis: delivered jobs waiting in the RQ queue, and live RQ job keys
    queue, known, expiries,
    \* the dispatcher's open transaction
    batch, published, marked, draft,
    \* RQ workers
    worker,
    \* history: runs whose popped delivery died with its worker
    lost

rows    == <<status, owner, lease, attempt>>
redis   == <<queue, known, expiries>>
dispatch == <<batch, published, marked, draft>>
vars == <<status, owner, lease, attempt, events, outbox, queue, known,
          expiries, batch, published, marked, draft, worker, lost>>

-----------------------------------------------------------------------------
(* Types *)

Floor == -(TxDelay + Grace + 1)
Ages  == 0..TxDelay

Status == {"absent", "queued", "running", "completed", "failed"}
Terminal == {"completed", "failed"}

\* "step" stands for every step.* event.
EventTypes == {"run.created", "run.enqueued", "run.started", "step",
               "run.completed", "run.failed", "run.requeued_by_sweeper"}
\* gen is the generation of the writer: the attempt in the fence of a worker,
\* and the attempt in the row for the writers that have no fence.
Event == [type: EventTypes, gen: Nat]

Job == Runs \X Nat
JobStatus == {"pending", "dispatched"}

Phases == {"idle", "popped", "starting", "agent", "failing", "returning"}
Worker == [phase: Phases, job: Job \cup {NoJob}, gen: Nat, steps: 0..MaxSteps,
           since: 0..TxDelay, renewing: BOOLEAN, rsince: 0..(TxDelay + RenewEvery)]

IdleWorker == [phase |-> "idle", job |-> NoJob, gen |-> 0, steps |-> 0,
               since |-> 0, renewing |-> FALSE, rsince |-> 0]

TypeOK ==
    /\ status \in [Runs -> Status]
    /\ owner \in [Runs -> Workers \cup {NoWorker}]
    /\ lease \in [Runs -> Floor..LeaseTime]
    /\ attempt \in [Runs -> Nat]
    /\ events \in [Runs -> Seq(Event)]
    /\ outbox \in [Runs -> Seq(JobStatus)]
    /\ queue \subseteq Job /\ known \subseteq Job /\ expiries \in 0..MaxExpiries
    /\ batch \subseteq Job /\ published \in Job \cup {NoJob} /\ marked \subseteq Job
    /\ draft \in [Runs -> Seq(Event)]
    /\ worker \in [Workers -> Worker]
    /\ lost \subseteq Runs

-----------------------------------------------------------------------------
(* The run row, its lease and its lock *)

\* The dispatcher holds the row lock of every run it has appended an event to
\* until it commits; a transaction that needs the row waits.
Unlocked(r) == draft[r] = <<>>

\* lease_expires_at > now(), < now() and < now() - 5 seconds, for a
\* transaction that started a ticks ago.  owner and lease_expires_at are
\* always set and cleared together, so a null lease is owner = NoWorker.
LeaseLive(r, a)    == owner[r] # NoWorker /\ lease[r] + a > 0
LeaseExpired(r, a) == owner[r] # NoWorker /\ lease[r] + a < 0
LeaseSwept_OwnClock(r, a) == owner[r] # NoWorker /\ lease[r] - a < -Grace
LeaseSwept(r, a)   == owner[r] # NoWorker /\ lease[r] + a < -Grace

\* lease_expires_at = now() + lease_seconds, set by claim_run and renew_lease.
Deadline_Extended(r, a) == lease[r] + LeaseTime
Deadline(r, a) == LeaseTime - a

\* lock_current_run: the caller's lease is still the run's lease.
FenceHolds_AnyGeneration(r, w, gen, a) == status[r] = "running" /\ LeaseLive(r, a)
FenceHolds_AttemptOnly(r, w, gen, a) == attempt[r] = gen
FenceHolds(r, w, gen, a) ==
    /\ status[r] = "running"
    /\ owner[r] = w
    /\ attempt[r] = gen
    /\ LeaseLive(r, a)

Ev(type, gen) == [type |-> type, gen |-> gen]

\* append_event under the row lock: sequence = max + 1.
AppendEvent(r, type, gen) == events' = [events EXCEPT ![r] = Append(@, Ev(type, gen))]

-----------------------------------------------------------------------------
(* API: POST /runs without a key inserts run, event and outbox job at once. *)

CreateRun(r) ==
    /\ status[r] = "absent"
    /\ status' = [status EXCEPT ![r] = "queued"]
    /\ AppendEvent(r, "run.created", 0)
    /\ outbox' = [outbox EXCEPT ![r] = Append(@, "pending")]
    /\ UNCHANGED <<owner, lease, attempt, redis, dispatch, worker, lost>>

-----------------------------------------------------------------------------
(* Dispatcher: dispatch_batch as one open transaction.  batch holds the     *)
(* selected jobs not yet tried, published the one published but not yet    *)
(* marked, marked the rows set to dispatched and draft the events appended, *)
(* both invisible to others until the commit.                              *)

DispatcherIdle == batch = {} /\ published = NoJob /\ marked = {}

Pending == UNION {{<<r, n>> : n \in {k \in DOMAIN outbox[r] : outbox[r][k] = "pending"}}
                  : r \in Runs}

\* Backoff postpones a job by next_attempt_at, so a batch is any nonempty set
\* of pending jobs.
DispatchSelect ==
    /\ DispatcherIdle
    /\ \E ready \in SUBSET Pending : ready # {} /\ batch' = ready
    /\ UNCHANGED <<rows, events, outbox, redis, published, marked, draft, worker, lost>>

\* enqueue_call(job_id, unique=True): a known id is a DuplicateJobError, which
\* is swallowed; either way the job goes on to be marked.
DispatchPublish(j) ==
    /\ j \in batch /\ published = NoJob
    /\ batch' = batch \ {j}
    /\ published' = j
    /\ queue' = IF j \in known THEN queue ELSE queue \cup {j}
    /\ known' = known \cup {j}
    /\ UNCHANGED <<rows, events, outbox, expiries, marked, draft, worker, lost>>

\* enqueue_call raised: the job is postponed and stays pending.
DispatchPostpone_Swallowed(j) ==
    /\ j \in batch /\ published = NoJob
    /\ batch' = batch \ {j} /\ published' = j
    /\ UNCHANGED <<rows, events, outbox, redis, marked, draft, worker, lost>>
DispatchPostpone(j) ==
    /\ j \in batch /\ published = NoJob
    /\ batch' = batch \ {j}
    /\ UNCHANGED <<rows, events, outbox, redis, published, marked, draft, worker, lost>>

\* job.status = "dispatched"; append_event(run.enqueued) locks the run.
DispatchMark ==
    /\ published # NoJob
    /\ LET r == published[1] IN
         draft' = [draft EXCEPT ![r] = Append(@, Ev("run.enqueued", attempt[r]))]
    /\ marked' = marked \cup {published}
    /\ published' = NoJob
    /\ UNCHANGED <<rows, events, outbox, redis, batch, worker, lost>>

DispatchCommit ==
    /\ batch = {} /\ published = NoJob /\ marked # {}
    /\ outbox' = [r \in Runs |-> [n \in DOMAIN outbox[r] |->
                    IF <<r, n>> \in marked THEN "dispatched" ELSE outbox[r][n]]]
    /\ events' = [r \in Runs |-> events[r] \o draft[r]]
    /\ marked' = {}
    /\ draft' = [r \in Runs |-> <<>>]
    /\ UNCHANGED <<rows, redis, batch, published, worker, lost>>

\* The process dies (or PostgreSQL aborts it): the transaction rolls back,
\* what it put in Redis stays.  crash_after_publish_once does it on purpose.
DispatchCrash ==
    /\ ~DispatcherIdle
    /\ batch' = {} /\ published' = NoJob /\ marked' = {}
    /\ draft' = [r \in Runs |-> <<>>]
    /\ UNCHANGED <<rows, events, outbox, redis, worker, lost>>

-----------------------------------------------------------------------------
(* RQ.  A popped delivery is not given to anyone else; its key outlives it. *)

Held(j) == \E w \in Workers : worker[w].job = j

Pop(w, j) ==
    /\ worker[w].phase = "idle" /\ j \in queue
    /\ queue' = queue \ {j}
    /\ worker' = [worker EXCEPT ![w] = [IdleWorker EXCEPT !.phase = "popped", !.job = j]]
    /\ UNCHANGED <<rows, events, outbox, known, expiries, dispatch, lost>>

\* The key of a finished job passes its TTL; a later publish is not a duplicate.
KeyExpires(j) ==
    /\ expiries < MaxExpiries
    /\ j \in known \ queue /\ ~Held(j)
    /\ known' = known \ {j}
    /\ expiries' = expiries + 1
    /\ UNCHANGED <<rows, events, outbox, queue, dispatch, worker, lost>>

-----------------------------------------------------------------------------
(* Worker: _execute_run_body.  since is the time since the main thread's    *)
(* last transaction ended: its next one started at some point in between,   *)
(* so its age is anything up to since.                                      *)

RunOf(w) == worker[w].job[1]
Gen(w)   == worker[w].gen
Fenced(w, a) == FenceHolds(RunOf(w), w, Gen(w), a)

\* One transaction of the main thread of w, in a given phase.
InTx(w, phase, a) ==
    /\ worker[w].phase = phase
    /\ a \in 0..worker[w].since
    /\ Unlocked(RunOf(w))

Claimable(r, a) ==
    /\ status[r] \in {"queued", "running"}
    /\ owner[r] = NoWorker \/ LeaseExpired(r, a)

\* attempt = attempt + 1
NextGen_Unchanged(r) == IF attempt[r] = 0 THEN 1 ELSE attempt[r]
NextGen(r) == attempt[r] + 1

Claim(w, a) ==
    /\ InTx(w, "popped", a)
    /\ LET r == RunOf(w) IN
         /\ Claimable(r, a)
         /\ status' = [status EXCEPT ![r] = "running"]
         /\ owner' = [owner EXCEPT ![r] = w]
         /\ lease' = [lease EXCEPT ![r] = Deadline(r, a)]
         /\ attempt' = [attempt EXCEPT ![r] = NextGen(r)]
         /\ worker' = [worker EXCEPT ![w] = [worker[w] EXCEPT !.phase = "starting", !.since = 0,
                                                      !.gen = NextGen(r)]]
    /\ UNCHANGED <<events, outbox, redis, dispatch, lost>>

\* claim_run returned None: execute_run returns False, the delivery is spent.
ClaimRefused(w, a) ==
    /\ InTx(w, "popped", a)
    /\ ~Claimable(RunOf(w), a)
    /\ worker' = [worker EXCEPT ![w] = IdleWorker]
    /\ UNCHANGED <<rows, events, outbox, redis, dispatch, lost>>

\* run.started, then the renewal thread starts.
Start(w, a) ==
    /\ InTx(w, "starting", a) /\ Fenced(w, a)
    /\ AppendEvent(RunOf(w), "run.started", Gen(w))
    /\ worker' = [worker EXCEPT ![w] = [worker[w] EXCEPT !.phase = "agent", !.since = 0,
                                                 !.renewing = TRUE, !.rsince = 0]]
    /\ UNCHANGED <<rows, outbox, redis, dispatch, lost>>

\* PermissionError outside the try: it escapes, the run stays as it is.
StartRefused(w, a) ==
    /\ InTx(w, "starting", a) /\ ~Fenced(w, a)
    /\ worker' = [worker EXCEPT ![w] = IdleWorker]
    /\ UNCHANGED <<rows, events, outbox, redis, dispatch, lost>>

\* Any transaction of run_agent: an event, a model turn, a tool call.
AgentStep(w, a) ==
    /\ InTx(w, "agent", a) /\ Fenced(w, a)
    /\ worker[w].steps < MaxSteps
    /\ AppendEvent(RunOf(w), "step", Gen(w))
    /\ worker' = [worker EXCEPT ![w] = [worker[w] EXCEPT !.since = 0, !.steps = worker[w].steps + 1]]
    /\ UNCHANGED <<rows, outbox, redis, dispatch, lost>>

\* The fence refused a write of run_agent: the exception is caught.
AgentStepRefused(w, a) ==
    /\ InTx(w, "agent", a) /\ ~Fenced(w, a)
    /\ worker' = [worker EXCEPT ![w] = [worker[w] EXCEPT !.phase = "failing", !.since = 0]]
    /\ UNCHANGED <<rows, events, outbox, redis, dispatch, lost>>

\* The model, the tool or the output raised without writing.
AgentRaises(w) ==
    /\ worker[w].phase = "agent"
    /\ worker' = [worker EXCEPT ![w] = [worker[w] EXCEPT !.phase = "failing"]]
    /\ UNCHANGED <<rows, events, outbox, redis, dispatch, lost>>

\* finish_run: the terminal event and the terminal status in one transaction.
\* outcome is "completed" from the agent, "failed" from the except branch.
FinishAs(w, a, phase, outcome, event) ==
    /\ InTx(w, phase, a) /\ Fenced(w, a)
    /\ AppendEvent(RunOf(w), event, Gen(w))
    /\ status' = [status EXCEPT ![RunOf(w)] = outcome]
    /\ owner' = [owner EXCEPT ![RunOf(w)] = NoWorker]
    /\ lease' = [lease EXCEPT ![RunOf(w)] = 0]
    /\ worker' = [worker EXCEPT ![w] = [worker[w] EXCEPT !.phase = "returning", !.since = 0]]
    /\ UNCHANGED <<attempt, outbox, redis, dispatch, lost>>

FinishCompleted(w, a) == FinishAs(w, a, "agent", "completed", "run.completed")
FinishFailed(w, a)    == FinishAs(w, a, "failing", "failed", "run.failed")

\* finish_run returned False: a stale generation leaves no trace.
FinishRefused(w, a) ==
    /\ \E phase \in {"agent", "failing"} : InTx(w, phase, a)
    /\ ~Fenced(w, a)
    /\ worker' = [worker EXCEPT ![w] = [worker[w] EXCEPT !.phase = "returning", !.since = 0]]
    /\ UNCHANGED <<rows, events, outbox, redis, dispatch, lost>>

\* finally: stop_renewal.set() and join; the work horse exits.
Return(w) ==
    /\ worker[w].phase = "returning"
    /\ worker' = [worker EXCEPT ![w] = IdleWorker]
    /\ UNCHANGED <<rows, events, outbox, redis, dispatch, lost>>

\* The renewal thread waits RenewEvery and then runs one transaction.  Once
\* stop_renewal is set no new one starts, but one that had started may commit.
RenewTx(w, a) ==
    /\ worker[w].renewing
    /\ a \in Ages /\ worker[w].rsince >= RenewEvery + a
    /\ worker[w].phase = "returning" => a >= worker[w].since
    /\ Unlocked(RunOf(w))

Renew(w, a) ==
    /\ RenewTx(w, a) /\ Fenced(w, a)
    /\ lease' = [lease EXCEPT ![RunOf(w)] = Deadline(RunOf(w), a)]
    /\ worker' = [worker EXCEPT ![w] = [worker[w] EXCEPT !.rsince = 0]]
    /\ UNCHANGED <<status, owner, attempt, events, outbox, redis, dispatch, lost>>

\* renew_lease returned False, or the thread died of a database error.
RenewStops(w) ==
    /\ worker[w].renewing
    /\ worker' = [worker EXCEPT ![w] = [worker[w] EXCEPT !.renewing = FALSE, !.rsince = 0]]
    /\ UNCHANGED <<rows, events, outbox, redis, dispatch, lost>>

\* The process is killed: its open transaction rolls back and a delivery it
\* had popped is gone.  Before the claim nothing in PostgreSQL remembers it.
WorkerCrash(w) ==
    /\ worker[w].phase # "idle"
    /\ lost' = IF worker[w].phase = "popped" THEN lost \cup {RunOf(w)} ELSE lost
    /\ worker' = [worker EXCEPT ![w] = IdleWorker]
    /\ UNCHANGED <<rows, events, outbox, redis, dispatch>>

-----------------------------------------------------------------------------
(* Sweeper: sweep_once, one transaction over every expired unlocked run.    *)

Spent_OffByOne(r) == attempt[r] > MaxAttempts
Spent(r) == attempt[r] >= MaxAttempts

\* The new OutboxJob of a requeued run.
Requeued_NoJob(jobs) == jobs
Requeued(jobs) == Append(jobs, "pending")

\* sweep_once: every expired run it can lock.  With more than 100 of them (LIMIT) the code
\* takes several sweeps for what is one here.
Sweep(a) ==
    LET expired == {r \in Runs : status[r] = "running" /\ LeaseSwept(r, a) /\ Unlocked(r)}
        spent   == {r \in expired : Spent(r)}
    IN
    /\ a \in Ages
    /\ expired # {}
    /\ status' = [r \in Runs |-> IF r \in spent THEN "failed"
                                 ELSE IF r \in expired THEN "queued" ELSE status[r]]
    /\ events' = [r \in Runs |->
                    IF r \in spent THEN Append(events[r], Ev("run.failed", attempt[r]))
                    ELSE IF r \in expired
                      THEN Append(events[r], Ev("run.requeued_by_sweeper", attempt[r]))
                    ELSE events[r]]
    /\ outbox' = [r \in Runs |-> IF r \in expired \ spent THEN Requeued(outbox[r])
                                 ELSE outbox[r]]
    /\ owner' = [r \in Runs |-> IF r \in expired THEN NoWorker ELSE owner[r]]
    /\ lease' = [r \in Runs |-> IF r \in expired THEN 0 ELSE lease[r]]
    /\ UNCHANGED <<attempt, redis, dispatch, worker, lost>>

-----------------------------------------------------------------------------
(* Time *)

Later(t, cap) == IF t < cap THEN t + 1 ELSE t

Tick ==
    /\ lease' = [r \in Runs |-> IF owner[r] # NoWorker /\ lease[r] > Floor
                                THEN lease[r] - 1 ELSE lease[r]]
    /\ worker' = [w \in Workers |->
         IF worker[w].phase = "idle" THEN worker[w]
         ELSE [worker[w] EXCEPT !.since = Later(@, TxDelay),
                                !.rsince = IF worker[w].renewing
                                           THEN Later(@, TxDelay + RenewEvery) ELSE @]]
    /\ UNCHANGED <<status, owner, attempt, events, outbox, redis, dispatch, lost>>

-----------------------------------------------------------------------------
Init ==
    /\ status = [r \in Runs |-> "absent"]
    /\ owner = [r \in Runs |-> NoWorker]
    /\ lease = [r \in Runs |-> 0]
    /\ attempt = [r \in Runs |-> 0]
    /\ events = [r \in Runs |-> <<>>]
    /\ outbox = [r \in Runs |-> <<>>]
    /\ queue = {} /\ known = {} /\ expiries = 0
    /\ batch = {} /\ published = NoJob /\ marked = {}
    /\ draft = [r \in Runs |-> <<>>]
    /\ worker = [w \in Workers |-> IdleWorker]
    /\ lost = {}

Dispatcher ==
    \/ DispatchSelect
    \/ \E j \in batch : DispatchPublish(j) \/ DispatchPostpone(j)
    \/ DispatchMark
    \/ DispatchCommit
    \/ DispatchCrash

MainThread(w, a) ==
    \/ Claim(w, a) \/ ClaimRefused(w, a)
    \/ Start(w, a) \/ StartRefused(w, a)
    \/ AgentStep(w, a) \/ AgentStepRefused(w, a)
    \/ FinishCompleted(w, a) \/ FinishFailed(w, a) \/ FinishRefused(w, a)

WorkerProcess(w) ==
    \/ \E j \in queue : Pop(w, j)
    \/ \E a \in Ages : MainThread(w, a) \/ Renew(w, a)
    \/ AgentRaises(w)
    \/ Return(w)
    \/ RenewStops(w)
    \/ WorkerCrash(w)

Next ==
    \/ \E r \in Runs : CreateRun(r)
    \/ Dispatcher
    \/ \E j \in known : KeyExpires(j)
    \/ \E w \in Workers : WorkerProcess(w)
    \/ \E a \in Ages : Sweep(a)
    \/ Tick

Spec == Init /\ [][Next]_vars

-----------------------------------------------------------------------------
(* Safety *)

\* The log of a run reads as one generation after another: nothing a zombie
\* worker writes lands after an event of the generation that replaced it.
GenerationsInOrder ==
    \A r \in Runs : \A i, j \in DOMAIN events[r] :
        i < j => events[r][i].gen <= events[r][j].gen

StartsOf(r, g) == {i \in DOMAIN events[r] : events[r][i] = Ev("run.started", g)}

\* Each generation starts at most once, and everything its worker writes comes
\* after its run.started.
StartedOncePerGeneration ==
    \A r \in Runs : \A i \in DOMAIN events[r] :
        /\ \A k \in StartsOf(r, events[r][i].gen) \ {i} :
              events[r][i].type # "run.started"
        /\ events[r][i].type \in {"step", "run.completed"} =>
              \E k \in StartsOf(r, events[r][i].gen) : k < i

Outcomes(r) == {i \in DOMAIN events[r] : events[r][i].type \in {"run.completed", "run.failed"}}

\* A run ends once: the log has one outcome event exactly when the row is
\* terminal, it is the outcome of the row, and no worker event follows it.
OneOutcome ==
    \A r \in Runs :
        /\ status[r] \notin Terminal => Outcomes(r) = {}
        /\ status[r] \in Terminal =>
             \E i \in Outcomes(r) :
                /\ Outcomes(r) = {i}
                /\ events[r][i].type = (IF status[r] = "completed" THEN "run.completed"
                                        ELSE "run.failed")
                /\ \A k \in DOMAIN events[r] : k > i => events[r][k].type = "run.enqueued"

\* The sweeper, not the workers, stops a run that keeps dying: a run is claimed
\* MaxAttempts times, plus once for every delivery RQ failed to recognise.
AttemptsBounded == \A r \in Runs : attempt[r] <= MaxAttempts + expiries

\* A queued run that lost no delivery is on its way to a worker: some outbox row
\* is still pending, or Redis or a worker that has not claimed yet holds it.
QueuedRunIsCarried ==
    \A r \in Runs : status[r] = "queued" /\ r \notin lost =>
        \/ \E j \in Pending \cup queue : j[1] = r
        \/ \E w \in Workers : worker[w].phase = "popped" /\ RunOf(w) = r

\* A lease is respected: as long as it has not run out in the present, whatever
\* old now() a transaction carries, only its owner ends it.
LeaseRespected ==
    [][\A r \in Runs :
        status[r] = "running" /\ lease[r] >= 0 /\ (owner'[r] # owner[r] \/ attempt'[r] # attempt[r])
          => \E w \in Workers : /\ w = owner[r] /\ Gen(w) = attempt[r]
                                 /\ worker[w].phase \in {"agent", "failing"}
                                 /\ worker'[w].phase = "returning"]_vars

-----------------------------------------------------------------------------
(* Fairness and liveness *)

\* Docker restarts every process (restart: unless-stopped) and their loops run
\* for ever, so a step that stays possible happens (weak fairness).  Redis is not
\* down for ever (strong fairness of each publish, which a failing enqueue_call
\* takes from the batch), and the dispatcher, though it may die any number of
\* times, does not die in every transaction.  Workers may die for ever; nothing
\* forces a renewal to come in time.
Fairness ==
    /\ WF_vars(Tick)
    /\ WF_vars(\E a \in Ages : Sweep(a))
    /\ WF_vars(DispatchSelect \/ DispatchMark \/ DispatchCommit)
    /\ \A j \in Runs \X (1..(MaxAttempts + MaxExpiries)) : SF_vars(DispatchPublish(j))
    /\ <>[][~DispatchCrash]_vars
    /\ \A w \in Workers :
         WF_vars((\E j \in queue : Pop(w, j)) \/ (\E a \in Ages : MainThread(w, a)) \/ Return(w))

FairSpec == Spec /\ Fairness

\* The whole machinery does what RunContract promises, as long as RQ recognises
\* every delivery it has seen (MaxExpiries = 0): among other things, every run the API
\* accepted ends, unless a delivery of it died with a worker that had popped it and not
\* yet claimed the run.
Contract == INSTANCE RunContract WITH status <- status, attempt <- attempt, lost <- lost
ImplementsContract == Contract!Spec

\* docs/harness-lab-plan.md:99: "kill 掉任何进程，run 不丢" (kill any process, no
\* run is lost).
RunSettles == \A r \in Runs : status[r] = "queued" ~> status[r] \in Terminal
=============================================================================
