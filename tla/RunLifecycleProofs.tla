------------------------- MODULE RunLifecycleProofs -------------------------
(***************************************************************************)
(* Machine-checked facts about RunLifecycle, for any number of runs and    *)
(* workers, any lease, grace and delay, and any number of redeliveries.    *)
(***************************************************************************)
EXTENDS RunLifecycle, FiniteSets, FiniteSetTheorems, TLAPS

\* A worker that is not idle holds a delivery; only such a worker renews.
JobHeld ==
    \A w \in Workers :
        /\ worker[w].phase # "idle" => worker[w].job \in Job
        /\ worker[w].renewing => worker[w].phase # "idle"

TypeInv == TypeOK /\ JobHeld

USE DEF Ages, Floor

\* What the proofs use of the assumptions on the constants.
LEMMA Constants ==
  /\ LeaseTime \in Nat \ {0} /\ Grace \in Nat /\ RenewEvery \in Nat /\ TxDelay \in Nat
  /\ MaxAttempts \in Nat \ {0} /\ MaxSteps \in Nat /\ MaxExpiries \in Nat
  /\ 0 \in 0..TxDelay /\ 0 \in 0..(TxDelay + RenewEvery)
  /\ 0 \in Floor..LeaseTime
  BY TimingAssumption, BoundsAssumption

\* An idle worker record is a worker record.
LEMMA IdleWorkerType == IdleWorker \in Worker
  BY Constants DEF IdleWorker, Worker, Phases

\* The actions of the dispatcher and of RQ keep the types.
LEMMA DispatchType ==
  ASSUME TypeInv,
         \/ \E r \in Runs : CreateRun(r)
         \/ Dispatcher
         \/ \E j \in known : KeyExpires(j)
  PROVE  TypeInv'
<1>0. /\ TypeOK /\ JobHeld
  BY DEF TypeInv
<1>1. ASSUME NEW r \in Runs, CreateRun(r) PROVE TypeInv'
  BY <1>0, <1>1, Constants
     DEF TypeInv, TypeOK, JobHeld, CreateRun, AppendEvent, Ev, Event, EventTypes, Status,
         JobStatus, redis, dispatch
<1>2. CASE DispatchSelect
  <2>1. Pending \subseteq Job
    BY <1>0 DEF Pending, Job, TypeOK
  <2> QED
    BY <1>0, <1>2, <2>1 DEF TypeInv, TypeOK, JobHeld, DispatchSelect, rows, redis
<1>3. ASSUME NEW j \in batch, DispatchPublish(j) PROVE TypeInv'
  BY <1>0, <1>3 DEF TypeInv, TypeOK, JobHeld, DispatchPublish, rows
<1>4. ASSUME NEW j \in batch, DispatchPostpone(j) PROVE TypeInv'
  BY <1>0, <1>4 DEF TypeInv, TypeOK, JobHeld, DispatchPostpone, rows, redis
<1>5. CASE DispatchMark
  <2>1. published \in Job /\ published[1] \in Runs
    BY <1>0, <1>5 DEF TypeOK, DispatchMark, Job
  <2> QED
    BY <1>0, <1>5, <2>1
       DEF TypeInv, TypeOK, JobHeld, DispatchMark, Ev, Event, EventTypes, rows, redis
<1>6. CASE DispatchCommit
  <2>1. outbox' \in [Runs -> Seq(JobStatus)]
    <3> SUFFICES ASSUME NEW r \in Runs PROVE outbox'[r] \in Seq(JobStatus)
      BY <1>6 DEF DispatchCommit
    <3>1. DOMAIN outbox[r] = 1..Len(outbox[r]) /\ Len(outbox[r]) \in Nat
      BY <1>0 DEF TypeOK
    <3>2. \A n \in 1..Len(outbox[r]) : outbox[r][n] \in JobStatus
      BY <1>0 DEF TypeOK
    <3>3. outbox'[r] \in [1..Len(outbox[r]) -> JobStatus]
      BY <1>6, <3>1, <3>2 DEF DispatchCommit, JobStatus
    <3> QED
      BY <3>1, <3>3
  <2>2. events' \in [Runs -> Seq(Event)]
    BY <1>0, <1>6 DEF TypeOK, DispatchCommit
  <2> QED
    BY <1>0, <1>6, <2>1, <2>2 DEF TypeInv, TypeOK, JobHeld, DispatchCommit, rows, redis
<1>7. CASE DispatchCrash
  BY <1>0, <1>7 DEF TypeInv, TypeOK, JobHeld, DispatchCrash, rows, redis
<1>8. ASSUME NEW j \in known, KeyExpires(j) PROVE TypeInv'
  BY <1>0, <1>8, Constants DEF TypeInv, TypeOK, JobHeld, KeyExpires, rows, dispatch
<1> QED
  BY <1>1, <1>2, <1>3, <1>4, <1>5, <1>6, <1>7, <1>8 DEF Dispatcher

\* So do the actions of a worker.
LEMMA WorkerType ==
  ASSUME TypeInv, NEW w \in Workers, WorkerProcess(w)
  PROVE  TypeInv'
<1>0. TypeOK /\ JobHeld /\ worker[w] \in Worker
  BY DEF TypeInv, TypeOK
<1>1. ASSUME worker[w].phase # "idle" PROVE worker[w].job \in Job /\ RunOf(w) \in Runs
  BY <1>0, <1>1 DEF JobHeld, RunOf, Job
<1>2. ASSUME NEW v \in Worker, worker' = [worker EXCEPT ![w] = v],
             v.phase # "idle" => v.job \in Job,
             v.renewing => v.phase # "idle"
      PROVE  worker' \in [Workers -> Worker] /\ JobHeld'
  BY <1>0, <1>2 DEF TypeOK, JobHeld
<1>3. ASSUME NEW type \in EventTypes, AppendEvent(RunOf(w), type, Gen(w)),
             worker[w].phase # "idle"
      PROVE  events' \in [Runs -> Seq(Event)]
  <2>1. Ev(type, Gen(w)) \in Event
    BY <1>0, <1>3 DEF Ev, Event, Gen, Worker
  <2> QED
    BY <1>0, <1>1, <1>3, <2>1 DEF TypeOK, AppendEvent
<1>4. ASSUME NEW j \in queue, Pop(w, j) PROVE TypeInv'
  <2>1. j \in Job
    BY <1>0 DEF TypeOK
  <2> DEFINE v == [IdleWorker EXCEPT !.phase = "popped", !.job = j]
  <2>2. /\ v \in Worker /\ v.job \in Job /\ ~v.renewing
    BY <2>1, IdleWorkerType DEF Worker, Phases, IdleWorker
  <2>3. worker' \in [Workers -> Worker] /\ JobHeld'
    BY <1>2, <1>4, <2>2 DEF Pop
  <2> QED
    BY <1>0, <1>4, <2>3 DEF TypeInv, TypeOK, Pop, rows, dispatch
\* Actions that only send the worker back to idle.
<1>5. ASSUME worker' = [worker EXCEPT ![w] = IdleWorker],
             UNCHANGED <<rows, events, outbox, redis, dispatch>>, lost' \subseteq Runs
      PROVE  TypeInv'
  <2>1. worker' \in [Workers -> Worker] /\ JobHeld'
    BY <1>2, <1>5, IdleWorkerType DEF IdleWorker
  <2> QED
    BY <1>0, <1>5, <2>1 DEF TypeInv, TypeOK, rows, redis, dispatch
<1>6. ASSUME NEW a \in Ages, ClaimRefused(w, a) \/ StartRefused(w, a) PROVE TypeInv'
  BY <1>0, <1>5, <1>6 DEF TypeOK, ClaimRefused, StartRefused
<1>7. CASE Return(w) \/ WorkerCrash(w)
  <2>1. lost' \subseteq Runs
    BY <1>0, <1>1, <1>7 DEF TypeOK, Return, WorkerCrash
  <2> QED
    BY <1>5, <1>7, <2>1 DEF Return, WorkerCrash
\* Actions that change nothing but the worker's record.
<1>8. ASSUME NEW v \in Worker, worker' = [worker EXCEPT ![w] = v],
             v.job = worker[w].job, v.phase # "idle", worker[w].phase # "idle",
             UNCHANGED <<rows, events, outbox, redis, dispatch, lost>>
      PROVE  TypeInv'
  <2>1. worker' \in [Workers -> Worker] /\ JobHeld'
    BY <1>1, <1>2, <1>8
  <2> QED
    BY <1>0, <1>8, <2>1 DEF TypeInv, TypeOK, rows, redis, dispatch
<1>9. ASSUME NEW a \in Ages, AgentStepRefused(w, a) \/ FinishRefused(w, a) PROVE TypeInv'
  <2>1. \A p \in {"failing", "returning"} :
          LET v == [worker[w] EXCEPT !.phase = p, !.since = 0] IN
            v \in Worker /\ v.job = worker[w].job /\ v.phase = p
    BY <1>0, Constants DEF Worker, Phases
  <2> QED
    BY <1>8, <1>9, <2>1 DEF AgentStepRefused, FinishRefused, InTx
<1>10. CASE AgentRaises(w)
  <2>1. LET v == [worker[w] EXCEPT !.phase = "failing"] IN
          v \in Worker /\ v.job = worker[w].job /\ v.phase = "failing"
    BY <1>0 DEF Worker, Phases
  <2> QED
    BY <1>8, <1>10, <2>1 DEF AgentRaises
<1>11. CASE RenewStops(w)
  <2>1. LET v == [worker[w] EXCEPT !.renewing = FALSE, !.rsince = 0] IN
          v \in Worker /\ v.job = worker[w].job /\ v.phase = worker[w].phase
    BY <1>0, Constants DEF Worker
  <2>2. worker[w].phase # "idle"
    BY <1>0, <1>11 DEF JobHeld, RenewStops
  <2> QED
    BY <1>8, <1>11, <2>1, <2>2 DEF RenewStops
<1>12. ASSUME NEW a \in Ages, Claim(w, a) PROVE TypeInv'
  <2>1. RunOf(w) \in Runs /\ worker[w].job \in Job
    BY <1>1, <1>12 DEF Claim, InTx
  <2> DEFINE v == [worker[w] EXCEPT !.phase = "starting", !.since = 0, !.gen = NextGen(RunOf(w))]
  <2>2. NextGen(RunOf(w)) \in Nat
    BY <1>0, <2>1 DEF NextGen, TypeOK
  <2>3. v \in Worker /\ v.job = worker[w].job /\ v.phase = "starting"
    BY <1>0, <2>2, Constants DEF Worker, Phases
  <2>4. worker' = [worker EXCEPT ![w] = v]
    BY <1>12 DEF Claim
  <2>5. worker' \in [Workers -> Worker] /\ JobHeld'
    BY <1>2, <2>1, <2>3, <2>4
  <2>6. Deadline(RunOf(w), a) \in Floor..LeaseTime
    BY Constants DEF Deadline
  <2> QED
    BY <1>0, <1>12, <2>1, <2>2, <2>5, <2>6
       DEF TypeInv, TypeOK, Claim, Status, redis, dispatch
<1>13. ASSUME NEW a \in Ages, Start(w, a) \/ AgentStep(w, a) PROVE TypeInv'
  <2>1. worker[w].phase # "idle"
    BY <1>13 DEF Start, AgentStep, InTx
  <2>2. events' \in [Runs -> Seq(Event)]
    BY <1>3, <1>13, <2>1 DEF Start, AgentStep, EventTypes
  <2>3. worker' \in [Workers -> Worker] /\ JobHeld'
    <3>1. CASE Start(w, a)
      <4> DEFINE v == [worker[w] EXCEPT !.phase = "agent", !.since = 0, !.renewing = TRUE, !.rsince = 0]
      <4>1. v \in Worker /\ v.job = worker[w].job /\ v.phase = "agent"
        BY <1>0, Constants DEF Worker, Phases
      <4>2. worker' = [worker EXCEPT ![w] = v]
        BY <3>1 DEF Start
      <4> QED
        BY <1>1, <1>2, <2>1, <4>1, <4>2
    <3>2. CASE AgentStep(w, a)
      <4> DEFINE v == [worker[w] EXCEPT !.since = 0, !.steps = @ + 1]
      <4>1. v \in Worker /\ v.job = worker[w].job /\ v.phase = worker[w].phase
        <5>1. worker[w].steps \in 0..MaxSteps /\ worker[w].steps < MaxSteps
          BY <1>0, <3>2 DEF Worker, AgentStep
        <5>2. worker[w].steps + 1 \in 0..MaxSteps
          BY <5>1, Constants
        <5> QED
          BY <1>0, <5>2, Constants DEF Worker
      <4>2. worker' = [worker EXCEPT ![w] = v]
        BY <3>2 DEF AgentStep
      <4> QED
        BY <1>1, <1>2, <2>1, <4>1, <4>2
    <3> QED
      BY <1>13, <3>1, <3>2
  <2> QED
    BY <1>0, <1>13, <2>2, <2>3 DEF TypeInv, TypeOK, Start, AgentStep, rows, redis, dispatch
<1>14. ASSUME NEW a \in Ages, FinishCompleted(w, a) \/ FinishFailed(w, a) PROVE TypeInv'
  <2>1. PICK phase \in {"agent", "failing"}, outcome \in {"completed", "failed"},
             event \in {"run.completed", "run.failed"} : FinishAs(w, a, phase, outcome, event)
    BY <1>14 DEF FinishCompleted, FinishFailed
  <2>2. worker[w].phase # "idle" /\ RunOf(w) \in Runs
    BY <1>1, <2>1 DEF FinishAs, InTx
  <2>3. events' \in [Runs -> Seq(Event)]
    BY <1>3, <2>1, <2>2 DEF FinishAs, EventTypes
  <2> DEFINE v == [worker[w] EXCEPT !.phase = "returning", !.since = 0]
  <2>4. v \in Worker /\ v.job = worker[w].job /\ v.phase = "returning"
    BY <1>0, Constants DEF Worker, Phases
  <2>5. worker' = [worker EXCEPT ![w] = v]
    BY <2>1 DEF FinishAs
  <2>6. worker' \in [Workers -> Worker] /\ JobHeld'
    BY <1>1, <1>2, <2>2, <2>4, <2>5
  <2> QED
    BY <1>0, <2>1, <2>2, <2>3, <2>6, Constants
       DEF TypeInv, TypeOK, FinishAs, Status, redis, dispatch
<1>15. ASSUME NEW a \in Ages, Renew(w, a) PROVE TypeInv'
  <2>1. worker[w].phase # "idle" /\ RunOf(w) \in Runs
    BY <1>0, <1>1, <1>15 DEF Renew, RenewTx, JobHeld
  <2> DEFINE v == [worker[w] EXCEPT !.rsince = 0]
  <2>2. v \in Worker /\ v.job = worker[w].job /\ v.phase = worker[w].phase
    BY <1>0, Constants DEF Worker
  <2>3. worker' = [worker EXCEPT ![w] = v]
    BY <1>15 DEF Renew
  <2>4. worker' \in [Workers -> Worker] /\ JobHeld'
    BY <1>1, <1>2, <2>1, <2>2, <2>3
  <2>5. Deadline(RunOf(w), a) \in Floor..LeaseTime
    BY Constants DEF Deadline
  <2> QED
    BY <1>0, <1>15, <2>1, <2>4, <2>5 DEF TypeInv, TypeOK, Renew, redis, dispatch
<1> QED
  BY <1>4, <1>6, <1>7, <1>9, <1>10, <1>11, <1>12, <1>13, <1>14, <1>15
     DEF WorkerProcess, MainThread

\* So do the sweeper and the passing of time.
LEMMA SweepTickType ==
  ASSUME TypeInv, (\E a \in Ages : Sweep(a)) \/ Tick
  PROVE  TypeInv'
<1>0. TypeOK /\ JobHeld
  BY DEF TypeInv
<1>1. ASSUME NEW a \in Ages, Sweep(a) PROVE TypeInv'
  <2>1. \A r \in Runs, type \in {"run.failed", "run.requeued_by_sweeper"} :
          Append(events[r], Ev(type, attempt[r])) \in Seq(Event)
    BY <1>0 DEF TypeOK, Ev, Event, EventTypes
  <2>2. events' \in [Runs -> Seq(Event)]
    BY <1>0, <1>1, <2>1 DEF Sweep, TypeOK
  <2>3. outbox' \in [Runs -> Seq(JobStatus)]
    BY <1>0, <1>1 DEF Sweep, TypeOK, Requeued, JobStatus
  <2> QED
    BY <1>0, <1>1, <2>2, <2>3, Constants
       DEF TypeInv, TypeOK, JobHeld, Sweep, Status, redis, dispatch
<1>2. CASE Tick
  <2>1. lease' \in [Runs -> Floor..LeaseTime]
    <3> SUFFICES ASSUME NEW r \in Runs PROVE lease'[r] \in Floor..LeaseTime
      BY <1>2 DEF Tick
    <3>1. lease[r] \in Floor..LeaseTime
      BY <1>0 DEF TypeOK
    <3>2. lease[r] > Floor => lease[r] - 1 \in Floor..LeaseTime
      BY <3>1, Constants
    <3> QED
      BY <1>2, <3>1, <3>2 DEF Tick
  <2>2. ASSUME NEW w \in Workers
        PROVE  /\ worker'[w] \in Worker
               /\ worker'[w].job = worker[w].job /\ worker'[w].phase = worker[w].phase
               /\ worker'[w].renewing = worker[w].renewing
    <3>1. worker[w] \in Worker
      BY <1>0 DEF TypeOK
    <3>2. Later(worker[w].since, TxDelay) \in 0..TxDelay
      BY <3>1, Constants DEF Later, Worker
    <3>3. Later(worker[w].rsince, TxDelay + RenewEvery) \in 0..(TxDelay + RenewEvery)
      BY <3>1, Constants DEF Later, Worker
    <3> QED
      BY <1>2, <3>1, <3>2, <3>3 DEF Tick, Worker
  <2>3. worker' \in [Workers -> Worker]
    BY <1>2, <2>2 DEF Tick
  <2> QED
    BY <1>0, <1>2, <2>1, <2>2, <2>3 DEF TypeInv, TypeOK, JobHeld, Tick, redis, dispatch
<1> QED
  BY <1>1, <1>2

LEMMA TypeInit == Init => TypeInv
  BY IdleWorkerType, Constants DEF Init, TypeInv, TypeOK, JobHeld, Status, IdleWorker

LEMMA TypeStep == TypeInv /\ [Next]_vars => TypeInv'
<1> SUFFICES ASSUME TypeInv, [Next]_vars PROVE TypeInv'
  OBVIOUS
<1>1. CASE UNCHANGED vars
  BY <1>1 DEF vars, TypeInv, TypeOK, JobHeld
<1>2. CASE Next
  BY <1>2, DispatchType, WorkerType, SweepTickType DEF Next
<1> QED
  BY <1>1, <1>2

\* Type correctness, for every value of the constants.
THEOREM TypeCorrect == Spec => []TypeOK
<1>1. TypeInv => TypeOK
  BY DEF TypeInv
<1> QED
  BY <1>1, TypeInit, TypeStep, PTL DEF Spec

-----------------------------------------------------------------------------
(* The log of a run: what a step adds to it carries the attempt of the row.  *)

\* What the dispatcher has appended and not committed is run.enqueued, with the
\* attempt the row had then; the row lock keeps that attempt current.
DraftInv ==
    \A r \in Runs : \A i \in DOMAIN draft[r] : draft[r][i] = Ev("run.enqueued", attempt[r])

AbsentInv == \A r \in Runs : status[r] = "absent" => attempt[r] = 0

\* The row lock: a claim never moves the attempt of a run with a draft.
LEMMA DraftStep ==
  ASSUME TypeInv, DraftInv, [Next]_vars
  PROVE  DraftInv'
<1>0. TypeOK /\ JobHeld
  BY DEF TypeInv
<1>2. ASSUME draft' = [r \in Runs |-> <<>>] PROVE DraftInv'
  BY <1>2 DEF DraftInv
<1>3. ASSUME UNCHANGED <<draft, attempt>> PROVE DraftInv'
  BY <1>3 DEF DraftInv
<1>4. CASE DispatchMark
  <2> DEFINE r == published[1]
  <2>1. r \in Runs
    BY <1>0, <1>4 DEF TypeOK, DispatchMark, Job
  <2>2. draft' = [draft EXCEPT ![r] = Append(draft[r], Ev("run.enqueued", attempt[r]))] /\ attempt' = attempt
    BY <1>4 DEF DispatchMark, rows
  <2>3. \A s \in Runs : draft[s] \in Seq(Event)
    BY <1>0 DEF TypeOK
  <2> QED
    BY <2>1, <2>2, <2>3 DEF DraftInv
<1>5. ASSUME NEW w \in Workers, NEW a \in Ages, Claim(w, a) PROVE DraftInv'
  <2>1. RunOf(w) \in Runs /\ draft[RunOf(w)] = <<>>
    BY <1>0, <1>5 DEF Claim, InTx, Unlocked, JobHeld, RunOf, Job
  <2>2. draft' = draft /\ attempt' = [attempt EXCEPT ![RunOf(w)] = NextGen(RunOf(w))]
    BY <1>5 DEF Claim, dispatch
  <2> QED
    BY <1>0, <2>1, <2>2 DEF DraftInv, TypeOK
<1>6. CASE DispatchCommit \/ DispatchCrash
  BY <1>2, <1>6 DEF DispatchCommit, DispatchCrash
<1>7. CASE \E r \in Runs : CreateRun(r)
  BY <1>3, <1>7 DEF CreateRun, dispatch
<1>8. CASE DispatchSelect \/ (\E j \in batch : DispatchPublish(j) \/ DispatchPostpone(j))
           \/ (\E j \in known : KeyExpires(j))
  BY <1>3, <1>8 DEF DispatchSelect, DispatchPublish, DispatchPostpone, KeyExpires, rows, dispatch
<1>9. ASSUME NEW w \in Workers, WorkerProcess(w), ~ \E a \in Ages : Claim(w, a) PROVE DraftInv'
  <2>1. UNCHANGED <<draft, attempt>>
    BY <1>9 DEF WorkerProcess, MainThread, Pop, ClaimRefused, Start, StartRefused, AgentStep,
                AgentStepRefused, FinishCompleted, FinishFailed, FinishAs, FinishRefused, Renew,
                AgentRaises, Return, RenewStops, WorkerCrash, rows, dispatch
  <2> QED
    BY <1>3, <2>1
<1>10. CASE (\E a \in Ages : Sweep(a)) \/ Tick
  BY <1>3, <1>10 DEF Sweep, Tick, dispatch
<1>11. CASE UNCHANGED vars
  BY <1>3, <1>11 DEF vars
<1> QED
  BY <1>4, <1>5, <1>6, <1>7, <1>8, <1>9, <1>10, <1>11 DEF Next, Dispatcher

\* A run without a row was never claimed.
LEMMA AbsentStep ==
  ASSUME TypeInv, AbsentInv, [Next]_vars
  PROVE  AbsentInv'
<1>0. TypeOK /\ JobHeld
  BY DEF TypeInv
<1>1. ASSUME NEW r \in Runs, CreateRun(r) PROVE AbsentInv'
  BY <1>0, <1>1 DEF AbsentInv, CreateRun, TypeOK
<1>2. ASSUME UNCHANGED <<status, attempt>> PROVE AbsentInv'
  BY <1>2 DEF AbsentInv
<1>3. CASE Dispatcher \/ (\E j \in known : KeyExpires(j)) \/ Tick \/ UNCHANGED vars
  BY <1>2, <1>3 DEF Dispatcher, DispatchSelect, DispatchPublish, DispatchPostpone, DispatchMark,
       DispatchCommit, DispatchCrash, KeyExpires, Tick, rows, vars
<1>4. ASSUME NEW w \in Workers, NEW a \in Ages, Claim(w, a) PROVE AbsentInv'
  <2>1. RunOf(w) \in Runs
    BY <1>0, <1>4 DEF Claim, InTx, JobHeld, RunOf, Job
  <2> QED
    BY <1>0, <1>4, <2>1 DEF AbsentInv, Claim, TypeOK
<1>5. ASSUME NEW w \in Workers, NEW a \in Ages, FinishCompleted(w, a) \/ FinishFailed(w, a)
      PROVE  AbsentInv'
  <2>1. RunOf(w) \in Runs
    BY <1>0, <1>5 DEF FinishCompleted, FinishFailed, FinishAs, InTx, JobHeld, RunOf, Job
  <2> QED
    BY <1>0, <1>5, <2>1 DEF AbsentInv, FinishCompleted, FinishFailed, FinishAs, TypeOK
<1>6. ASSUME NEW w \in Workers, WorkerProcess(w),
             ~ \E a \in Ages : Claim(w, a) \/ FinishCompleted(w, a) \/ FinishFailed(w, a)
      PROVE  AbsentInv'
  <2>1. UNCHANGED <<status, attempt>>
    BY <1>6 DEF WorkerProcess, MainThread, Pop, ClaimRefused, Start, StartRefused, AgentStep,
                AgentStepRefused, FinishRefused, Renew,
                AgentRaises, Return, RenewStops, WorkerCrash, rows
  <2> QED
    BY <1>2, <2>1
<1>7. ASSUME NEW a \in Ages, Sweep(a) PROVE AbsentInv'
  BY <1>0, <1>7 DEF AbsentInv, Sweep, TypeOK
<1> QED
  BY <1>1, <1>3, <1>4, <1>5, <1>6, <1>7 DEF Next

\* What a step may do to the log and the status of r: leave the log alone, and move the
\* run between statuses that are not final; add one event that carries the attempt of
\* the row, to a run that has not ended, with the status that goes with it; or add the
\* draft of the dispatcher and leave the row alone.
Open(s) == s \notin Terminal
Becomes(type) == CASE type = "run.completed" -> {"completed"}
                   [] type = "run.failed" -> {"failed"}
                   [] OTHER -> {"queued", "running"}
\* The events of a worker, and the action each is written by.
Wrote(r, type) ==
    /\ type = "run.started" => \E w \in Workers, a \in Ages : RunOf(w) = r /\ Start(w, a)
    /\ type = "step" => \E w \in Workers, a \in Ages : RunOf(w) = r /\ AgentStep(w, a)
    /\ type = "run.completed" => \E w \in Workers, a \in Ages : RunOf(w) = r /\ FinishCompleted(w, a)
Adds(r, type) ==
    /\ events'[r] = Append(events[r], Ev(type, attempt[r])) /\ Wrote(r, type)
    /\ attempt'[r] = attempt[r]
    /\ type # "run.enqueued" /\ Open(status[r]) /\ status'[r] \in Becomes(type)
Keeps(r) ==
    /\ events'[r] = events[r] /\ attempt'[r] \in {attempt[r], attempt[r] + 1}
    /\ status'[r] = status[r] \/ (Open(status[r]) /\ Open(status'[r]))
Drains(r) == events'[r] = events[r] \o draft[r] /\ attempt'[r] = attempt[r] /\ status'[r] = status[r]

LEMMA LogStep ==
  ASSUME TypeInv, AbsentInv, [Next]_vars, NEW r \in Runs
  PROVE  Keeps(r) \/ (\E type \in EventTypes : Adds(r, type)) \/ Drains(r)
<1>0. TypeOK /\ JobHeld
  BY DEF TypeInv
<1>1. ASSUME UNCHANGED <<events[r], attempt[r], status[r]>> PROVE Keeps(r)
  BY <1>1 DEF Keeps
<1>2. ASSUME NEW s \in Runs, CreateRun(s)
      PROVE  Keeps(r) \/ Adds(r, "run.created")
  BY <1>0, <1>2 DEF CreateRun, AppendEvent, TypeOK, AbsentInv, Adds, Wrote, Keeps, Open, Becomes, Terminal
<1>3. CASE DispatchCommit
  BY <1>3 DEF DispatchCommit, rows, Drains
<1>4. CASE DispatchSelect \/ (\E j \in batch : DispatchPublish(j) \/ DispatchPostpone(j))
           \/ DispatchMark \/ DispatchCrash \/ (\E j \in known : KeyExpires(j))
           \/ Tick \/ UNCHANGED vars
  <2>1. UNCHANGED <<events, attempt, status>>
    BY <1>4 DEF DispatchSelect, DispatchPublish, DispatchPostpone, DispatchMark, DispatchCrash,
         KeyExpires, Tick, rows, vars
  <2> QED
    BY <1>1, <2>1
<1>5. ASSUME NEW w \in Workers, NEW a \in Ages, Claim(w, a) PROVE Keeps(r)
  BY <1>0, <1>5 DEF Claim, Claimable, NextGen, TypeOK, Keeps, Open, Terminal
\* A fenced write: the row is the one the worker has claimed, and running.
<1>6. ASSUME NEW w \in Workers, NEW type \in EventTypes, AppendEvent(RunOf(w), type, Gen(w)),
             attempt' = attempt, attempt[RunOf(w)] = Gen(w), type # "run.enqueued", Wrote(RunOf(w), type),
             status[RunOf(w)] = "running", RunOf(w) \in Runs,
             \E new \in Becomes(type) : status' = [status EXCEPT ![RunOf(w)] = new]
      PROVE  Keeps(r) \/ Adds(r, type)
  BY <1>0, <1>6 DEF AppendEvent, Adds, Keeps, TypeOK, Open, Terminal
<1>7. ASSUME NEW w \in Workers, NEW a \in Ages,
             Start(w, a) \/ AgentStep(w, a) \/ FinishCompleted(w, a) \/ FinishFailed(w, a)
      PROVE  Keeps(r) \/ \E type \in EventTypes : Adds(r, type)
  <2>1. attempt' = attempt /\ attempt[RunOf(w)] = Gen(w) /\ status[RunOf(w)] = "running"
    BY <1>7 DEF Start, AgentStep, FinishCompleted, FinishFailed, FinishAs, Fenced, FenceHolds, rows
  <2>2. RunOf(w) \in Runs
    BY <1>0, <1>7 DEF Start, AgentStep, FinishCompleted, FinishFailed, FinishAs, InTx, JobHeld,
         RunOf, Job
  <2>3. status \in [Runs -> Status] /\ (status' = status => status' = [status EXCEPT ![RunOf(w)] = "running"])
    BY <1>0, <2>1, <2>2 DEF TypeOK
  <2>4. PICK type \in EventTypes \ {"run.enqueued"} :
             /\ AppendEvent(RunOf(w), type, Gen(w)) /\ Wrote(RunOf(w), type)
             /\ \E new \in Becomes(type) : status' = [status EXCEPT ![RunOf(w)] = new]
    <3>0. /\ Start(w, a) => Wrote(RunOf(w), "run.started")
          /\ AgentStep(w, a) => Wrote(RunOf(w), "step")
          /\ FinishCompleted(w, a) => Wrote(RunOf(w), "run.completed")
          /\ Wrote(RunOf(w), "run.failed")
      BY DEF Wrote
    <3>1. CASE Start(w, a)
      BY <2>3, <3>0, <3>1 DEF Start, rows, EventTypes, Becomes
    <3>2. CASE AgentStep(w, a)
      BY <2>3, <3>0, <3>2 DEF AgentStep, rows, EventTypes, Becomes
    <3>3. CASE FinishCompleted(w, a)
      BY <3>0, <3>3 DEF FinishCompleted, FinishAs, EventTypes, Becomes
    <3>4. CASE FinishFailed(w, a)
      BY <3>0, <3>4 DEF FinishFailed, FinishAs, EventTypes, Becomes
    <3> QED
      BY <1>7, <3>1, <3>2, <3>3, <3>4
  <2> QED
    BY <1>6, <2>1, <2>2, <2>4
<1>8. ASSUME NEW w \in Workers, WorkerProcess(w),
             ~ \E a \in Ages : \/ Claim(w, a) \/ Start(w, a) \/ AgentStep(w, a)
                              \/ FinishCompleted(w, a) \/ FinishFailed(w, a)
      PROVE  Keeps(r)
  <2>1. UNCHANGED <<events, attempt, status>>
    BY <1>8 DEF WorkerProcess, MainThread, Pop, ClaimRefused, StartRefused, AgentStepRefused,
         FinishRefused, Renew, AgentRaises, Return, RenewStops, WorkerCrash, rows
  <2> QED
    BY <1>1, <2>1
<1>9. ASSUME NEW a \in Ages, Sweep(a)
      PROVE  Keeps(r) \/ \E type \in EventTypes : Adds(r, type)
  <2>1. \/ UNCHANGED <<events[r], attempt[r], status[r]>>
        \/ Adds(r, "run.failed") \/ Adds(r, "run.requeued_by_sweeper")
    BY <1>9 DEF Sweep, Adds, Wrote, Open, Terminal, Becomes
  <2> QED
    BY <1>1, <2>1 DEF EventTypes
<1> QED
  BY <1>1, <1>2, <1>3, <1>4, <1>5, <1>7, <1>8, <1>9 DEF Next, Dispatcher, EventTypes

\* A log that is ordered and not newer than n stays so when events of generation n follow.
Ordered(s, n) ==
    /\ \A i \in DOMAIN s : s[i].gen <= n
    /\ \A i, j \in DOMAIN s : i < j => s[i].gen <= s[j].gen

LEMMA ConcatOrdered ==
  ASSUME NEW s \in Seq(Event), NEW d \in Seq(Event), NEW n \in Nat,
         Ordered(s, n), \A i \in DOMAIN d : d[i].gen = n
  PROVE  Ordered(s \o d, n)
<1>1. /\ DOMAIN s = 1..Len(s) /\ DOMAIN d = 1..Len(d) /\ Len(s) \in Nat /\ Len(d) \in Nat
      /\ DOMAIN (s \o d) = 1..(Len(s) + Len(d))
  OBVIOUS
<1>2. \A i \in 1..(Len(s) + Len(d)) :
         (s \o d)[i] = IF i <= Len(s) THEN s[i] ELSE d[i - Len(s)]
  OBVIOUS
<1>3. ASSUME NEW i \in 1..(Len(s) + Len(d)), i > Len(s) PROVE (s \o d)[i].gen = n
  <2>1. i - Len(s) \in DOMAIN d
    BY <1>1, <1>3
  <2> QED
    BY <1>1, <1>2, <1>3, <2>1
<1>4. ASSUME NEW i \in 1..(Len(s) + Len(d)), i <= Len(s) PROVE i \in DOMAIN s /\ (s \o d)[i] = s[i]
  BY <1>1, <1>2, <1>4
<1>5. ASSUME NEW i \in DOMAIN s PROVE s[i].gen \in Nat
  <2>1. s[i] \in Event
    BY <1>1, <1>5
  <2> QED
    BY <2>1 DEF Event
<1>6. ASSUME NEW i \in 1..(Len(s) + Len(d)) PROVE (s \o d)[i].gen <= n
  BY <1>1, <1>3, <1>4, <1>5 DEF Ordered
<1>7. ASSUME NEW i \in 1..(Len(s) + Len(d)), NEW j \in 1..(Len(s) + Len(d)), i < j
      PROVE  (s \o d)[i].gen <= (s \o d)[j].gen
  <2>1. CASE j > Len(s)
    BY <1>3, <1>6, <2>1
  <2>2. CASE j <= Len(s)
    <3>1. i \in DOMAIN s /\ j \in DOMAIN s
      BY <1>1, <1>7, <2>2
    <3> QED
      BY <1>1, <1>4, <1>7, <2>2, <3>1 DEF Ordered
  <2> QED
    BY <1>1, <2>1, <2>2
<1> QED
  BY <1>1, <1>6, <1>7 DEF Ordered

LEMMA AppendConcat ==
  ASSUME NEW s \in Seq(Event), NEW e \in Event
  PROVE  Append(s, e) = s \o <<e>> 
 OBVIOUS

\* A log that is ordered and not newer than n is not newer than n + 1 either.
LEMMA OrderedLater ==
  ASSUME NEW s \in Seq(Event), NEW n \in Nat, Ordered(s, n)
  PROVE  Ordered(s, n + 1)
<1>1. ASSUME NEW i \in DOMAIN s PROVE s[i].gen \in Nat
  <2>1. s[i] \in Event
    BY <1>1
  <2> QED
    BY <2>1 DEF Event
<1> QED
  BY <1>1 DEF Ordered

\* No event is newer than the row, and the log is ordered by generation.
LogInv ==
    /\ TypeInv /\ DraftInv /\ AbsentInv
    /\ \A r \in Runs : Ordered(events[r], attempt[r])

LEMMA LogInvStep == LogInv /\ [Next]_vars => LogInv'
<1> SUFFICES ASSUME LogInv, [Next]_vars PROVE LogInv'
  OBVIOUS
<1>0. TypeInv /\ DraftInv /\ AbsentInv /\ TypeOK
  BY DEF LogInv, TypeInv
<1>1. TypeInv' /\ DraftInv' /\ AbsentInv'
  BY <1>0, TypeStep, DraftStep, AbsentStep
<1>2. ASSUME NEW r \in Runs PROVE Ordered(events'[r], attempt'[r])
  <2>1. /\ events[r] \in Seq(Event) /\ draft[r] \in Seq(Event) /\ attempt[r] \in Nat
        /\ \A i \in DOMAIN draft[r] : draft[r][i].gen = attempt[r]
        /\ Ordered(events[r], attempt[r])
    BY <1>0 DEF TypeOK, DraftInv, LogInv, Ev
  <2>2. CASE Keeps(r)
    BY <2>1, <2>2, OrderedLater DEF Keeps
  <2>3. ASSUME NEW type \in EventTypes, Adds(r, type) PROVE Ordered(events'[r], attempt'[r])
    <3> DEFINE e == Ev(type, attempt[r])
    <3>1. e \in Event /\ e.gen = attempt[r]
      BY <2>1 DEF Ev, Event
    <3>2. <<e>> \in Seq(Event) /\ DOMAIN <<e>> = {1} /\ <<e>>[1] = e
      BY <3>1
    <3>3. Ordered(events[r] \o <<e>>, attempt[r])
      BY <2>1, <3>1, <3>2, ConcatOrdered
    <3>4. events'[r] = events[r] \o <<e>>
      BY <2>1, <2>3, <3>1, AppendConcat DEF Adds
    <3> QED
      BY <2>3, <3>3, <3>4 DEF Adds
  <2>4. CASE Drains(r)
    BY <2>1, <2>4, ConcatOrdered DEF Drains
  <2> QED
    BY <1>0, <2>2, <2>3, <2>4, LogStep
<1> QED
  BY <1>1, <1>2 DEF LogInv

LEMMA LogInit == Init => LogInv
<1> SUFFICES ASSUME Init PROVE LogInv
  OBVIOUS
<1>1. TypeInv
  BY TypeInit
<1> QED
  BY <1>1 DEF Init, LogInv, DraftInv, AbsentInv, Ordered

\* A zombie never writes into the log of a newer generation: whatever a worker
\* appends after losing its lease would break the order of the generations.
THEOREM GenerationsStayInOrder == Spec => []GenerationsInOrder
<1>1. LogInv => GenerationsInOrder
  BY DEF LogInv, GenerationsInOrder, Ordered
<1> QED
  BY <1>1, LogInit, LogInvStep, PTL DEF Spec

-----------------------------------------------------------------------------
(* How a log grows, and the one outcome of a run.                            *)

\* t is s with more events at its end, all of them in new.
Extends(t, s, new) ==
    /\ DOMAIN s \subseteq DOMAIN t /\ DOMAIN t \subseteq Nat
    /\ \A i \in DOMAIN s : t[i] = s[i]
    /\ \A i \in DOMAIN t \ DOMAIN s : t[i] \in new /\ \A k \in DOMAIN s : k < i

LEMMA ConcatExtends ==
  ASSUME NEW s \in Seq(Event), NEW d \in Seq(Event), NEW new, \A j \in DOMAIN d : d[j] \in new
  PROVE  Extends(s \o d, s, new)
<1>1. /\ DOMAIN s = 1..Len(s) /\ DOMAIN d = 1..Len(d) /\ Len(s) \in Nat /\ Len(d) \in Nat
      /\ DOMAIN (s \o d) = 1..(Len(s) + Len(d))
  OBVIOUS
<1>2. \A i \in 1..(Len(s) + Len(d)) : (s \o d)[i] = IF i <= Len(s) THEN s[i] ELSE d[i - Len(s)]
  OBVIOUS
<1>3. ASSUME NEW i \in DOMAIN (s \o d) \ DOMAIN s
      PROVE  (s \o d)[i] \in new /\ \A k \in DOMAIN s : k < i
  <2>1. i \in 1..(Len(s) + Len(d)) /\ i > Len(s) /\ i - Len(s) \in DOMAIN d
    BY <1>1, <1>3
  <2>2. (s \o d)[i] = d[i - Len(s)]
    BY <1>1, <1>2, <2>1
  <2> QED
    BY <1>1, <2>1, <2>2
<1>4. ASSUME NEW i \in DOMAIN s PROVE i \in DOMAIN (s \o d) /\ (s \o d)[i] = s[i]
  BY <1>1, <1>2, <1>4
<1>5. DOMAIN (s \o d) \subseteq Nat
  BY <1>1
<1> QED
  BY <1>3, <1>4, <1>5 DEF Extends

\* One more event: the log grows by one index.
LEMMA AppendExtends ==
  ASSUME NEW s \in Seq(Event), NEW e \in Event
  PROVE  /\ Extends(Append(s, e), s, {e})
         /\ \E n \in Nat : DOMAIN Append(s, e) = DOMAIN s \cup {n} /\ n \notin DOMAIN s
                           /\ Append(s, e)[n] = e
<1>1. /\ DOMAIN s = 1..Len(s) /\ Len(s) \in Nat
      /\ DOMAIN Append(s, e) = 1..(Len(s) + 1)
      /\ \A i \in 1..Len(s) : Append(s, e)[i] = s[i]
      /\ Append(s, e)[Len(s) + 1] = e
  OBVIOUS
<1>2. 1..(Len(s) + 1) = 1..Len(s) \cup {Len(s) + 1} /\ Len(s) + 1 \notin 1..Len(s) /\ Len(s) + 1 \in Nat
  BY <1>1
<1>3. \A i \in DOMAIN Append(s, e) \ DOMAIN s : i = Len(s) + 1
  BY <1>1, <1>2
<1>4. Extends(Append(s, e), s, {e})
  BY <1>1, <1>2, <1>3 DEF Extends
<1> QED
  BY <1>1, <1>2, <1>4

OutcomeEvents == {"run.completed", "run.failed"}

\* A log without an outcome for a run that goes on; for one that has ended the outcome
\* of the row, no other before it, and after it only the dispatcher's run.enqueued.
EndsWith(s, i, end) ==
    /\ s[i].type = (IF end = "completed" THEN "run.completed" ELSE "run.failed")
    /\ \A k \in DOMAIN s : /\ k < i => s[k].type \notin OutcomeEvents
                           /\ k > i => s[k].type = "run.enqueued"
EndInv ==
    \A r \in Runs :
        /\ Open(status[r]) => \A i \in DOMAIN events[r] : events[r][i].type \notin OutcomeEvents
        /\ status[r] \in Terminal => \E i \in DOMAIN events[r] : EndsWith(events[r], i, status[r])

LEMMA EndStep ==
  ASSUME LogInv, EndInv, [Next]_vars
  PROVE  EndInv'
<1>0. TypeInv /\ DraftInv /\ AbsentInv /\ TypeOK
  BY DEF LogInv, TypeInv
<1> SUFFICES ASSUME NEW r \in Runs
             PROVE  /\ Open(status'[r]) =>
                          \A i \in DOMAIN events'[r] : events'[r][i].type \notin OutcomeEvents
                    /\ status'[r] \in Terminal =>
                          \E i \in DOMAIN events'[r] : EndsWith(events'[r], i, status'[r])
  BY DEF EndInv
<1> DEFINE s == events[r]
           t == events'[r]
<1>1. /\ s \in Seq(Event) /\ draft[r] \in Seq(Event) /\ attempt[r] \in Nat /\ DOMAIN s \subseteq Nat
      /\ \A i \in DOMAIN draft[r] : draft[r][i] \in {Ev("run.enqueued", attempt[r])}
  BY <1>0 DEF TypeOK, DraftInv
<1>2. /\ Open(status[r]) => \A i \in DOMAIN s : s[i].type \notin OutcomeEvents
      /\ status[r] \in Terminal => \E i \in DOMAIN s : EndsWith(s, i, status[r])
  BY DEF EndInv
<1>3. CASE Keeps(r)
  BY <1>2, <1>3 DEF Keeps, Open
<1>4. CASE Drains(r)
  <2> DEFINE e == Ev("run.enqueued", attempt[r])
  <2>1. Extends(t, s, {e}) /\ e.type = "run.enqueued" /\ e.type \notin OutcomeEvents
    BY <1>1, <1>4, ConcatExtends DEF Drains, Ev, OutcomeEvents
  <2>2. CASE Open(status[r])
    BY <1>2, <1>4, <2>1, <2>2 DEF Drains, Extends, Open
  <2>3. ASSUME NEW i \in DOMAIN s, EndsWith(s, i, status[r]) PROVE EndsWith(t, i, status[r])
    <3>1. t[i] = s[i]
      BY <2>1 DEF Extends
    <3>2. ASSUME NEW k \in DOMAIN t
          PROVE  /\ k < i => t[k].type \notin OutcomeEvents
                 /\ k > i => t[k].type = "run.enqueued"
      BY <2>1, <2>3, <3>2 DEF Extends, EndsWith
    <3> QED
      BY <2>3, <3>1, <3>2 DEF EndsWith
  <2> QED
    BY <1>2, <1>4, <2>1, <2>2, <2>3 DEF Drains, Extends, Open
<1>5. ASSUME NEW type \in EventTypes, Adds(r, type)
      PROVE  /\ Open(status'[r]) => \A i \in DOMAIN t : t[i].type \notin OutcomeEvents
             /\ status'[r] \in Terminal => \E i \in DOMAIN t : EndsWith(t, i, status'[r])
  <2> DEFINE e == Ev(type, attempt[r])
  <2>1. e \in Event /\ e.type = type /\ t = Append(s, e)
    BY <1>1, <1>5 DEF Ev, Event, Adds
  <2>2. Extends(t, s, {e})
    BY <1>1, <2>1, AppendExtends
  <2>3. PICK n \in Nat : DOMAIN t = DOMAIN s \cup {n} /\ n \notin DOMAIN s /\ t[n] = e
    BY <1>1, <2>1, AppendExtends
  <2>4. \A i \in DOMAIN s : t[i] = s[i] /\ s[i].type \notin OutcomeEvents /\ i < n
    BY <1>2, <1>5, <2>2, <2>3 DEF Adds, Extends
  <2>5. CASE type \in OutcomeEvents
    <3>1. /\ status'[r] \in {"completed", "failed"}
          /\ type = (IF status'[r] = "completed" THEN "run.completed" ELSE "run.failed")
      BY <1>5, <2>5 DEF Adds, Becomes, OutcomeEvents
    <3>2. \A k \in DOMAIN t : (k = n \/ k < n) /\ (k < n => k \in DOMAIN s)
      BY <1>1, <2>3, <2>4
    <3>3. EndsWith(t, n, status'[r])
      BY <1>1, <2>1, <2>3, <2>4, <3>1, <3>2 DEF EndsWith
    <3> QED
      BY <2>3, <3>1, <3>3 DEF Open, Terminal
  <2>6. CASE type \notin OutcomeEvents
    <3>1. status'[r] \notin Terminal
      BY <1>5, <2>6 DEF Adds, Becomes, OutcomeEvents, Terminal
    <3> QED
      BY <2>1, <2>3, <2>4, <2>6, <3>1
  <2> QED
    BY <2>5, <2>6
<1> QED
  BY <1>0, <1>3, <1>4, <1>5, LogStep

\* A run ends once: whoever ends it, worker or sweeper, late or in time, the log has one
\* outcome, the row's, and no event of a worker after it.
THEOREM EndsOnce == Spec => []OneOutcome
<1>1. Init => LogInv /\ EndInv
  BY LogInit DEF Init, EndInv, Open, Terminal
<1>2. LogInv /\ EndInv /\ [Next]_vars => (LogInv /\ EndInv)'
  BY LogInvStep, EndStep
<1>3. LogInv /\ EndInv => OneOutcome
  <2> SUFFICES ASSUME LogInv, EndInv, NEW r \in Runs
               PROVE  /\ Open(status[r]) => Outcomes(r) = {}
                      /\ status[r] \in Terminal =>
                           \E i \in Outcomes(r) :
                              /\ Outcomes(r) = {i}
                              /\ events[r][i].type = (IF status[r] = "completed" THEN "run.completed"
                                                      ELSE "run.failed")
                              /\ \A k \in DOMAIN events[r] : k > i => events[r][k].type = "run.enqueued"
    BY DEF OneOutcome, Open
  <2>1. CASE Open(status[r])
    BY <2>1 DEF EndInv, Open, Outcomes, OutcomeEvents
  <2>2. ASSUME status[r] \in Terminal
        PROVE  \E i \in Outcomes(r) :
                 /\ Outcomes(r) = {i}
                 /\ events[r][i].type = (IF status[r] = "completed" THEN "run.completed"
                                         ELSE "run.failed")
                 /\ \A k \in DOMAIN events[r] : k > i => events[r][k].type = "run.enqueued"
    <3>1. PICK i \in DOMAIN events[r] : EndsWith(events[r], i, status[r])
      BY <2>2 DEF EndInv
    <3>2. DOMAIN events[r] \subseteq Nat
      BY DEF LogInv, TypeInv, TypeOK
    <3>3. i \in Outcomes(r)
      BY <3>1 DEF EndsWith, Outcomes
    <3>4. \A k \in Outcomes(r) : k = i
      BY <3>1, <3>2 DEF EndsWith, Outcomes, OutcomeEvents
    <3> QED
      BY <3>1, <3>3, <3>4 DEF EndsWith
  <2> QED
    BY <2>1, <2>2 DEF Open
<1> QED
  BY <1>1, <1>2, <1>3, PTL DEF Spec

-----------------------------------------------------------------------------
(* One worker per generation, and one start of it.                           *)

\* A worker that has claimed its run and not yet left it.
Claimed(w) == worker[w].phase \in {"starting", "agent", "failing", "returning"}

\* Generations are handed out by the attempt of the row, each to one worker.
GenInv ==
    /\ \A w \in Workers : Claimed(w) => Gen(w) \in 1..attempt[RunOf(w)]
    /\ \A u, w \in Workers :
          Claimed(u) /\ Claimed(w) /\ RunOf(u) = RunOf(w) /\ Gen(u) = Gen(w) => u = w

\* What a step that is no claim does to the claim of a worker: it keeps run and generation,
\* or gives them up; only Start gets from "starting" to "agent".
Stays(w) ==
    Claimed(w)' =>
        /\ Claimed(w) /\ RunOf(w)' = RunOf(w) /\ Gen(w)' = Gen(w)
        /\ worker'[w].phase = "starting" => worker[w].phase = "starting"
        /\ worker'[w].phase = "agent" => worker[w].phase = "agent" \/ \E a \in Ages : Start(w, a)

LEMMA ClaimsStay ==
  ASSUME TypeInv, [Next]_vars, ~ \E w \in Workers, a \in Ages : Claim(w, a),
         NEW u \in Workers
  PROVE  Stays(u) /\ attempt' = attempt
<1>0. TypeOK /\ JobHeld /\ worker \in [Workers -> Worker] /\ worker[u] \in Worker
  BY DEF TypeInv, TypeOK
<1>1. ASSUME worker' = worker PROVE Stays(u)
  BY <1>1 DEF Stays, Claimed, RunOf, Gen
<1>2. ASSUME NEW w \in Workers, WorkerProcess(w) PROVE Stays(u)
  <2>1. CASE u # w
    <3>1. worker'[u] = worker[u]
      BY <1>0, <1>2, <2>1
         DEF WorkerProcess, MainThread, Pop, Claim, ClaimRefused, Start, StartRefused, AgentStep,
             AgentStepRefused, FinishCompleted, FinishFailed, FinishAs, FinishRefused, Renew,
             AgentRaises, Return, RenewStops, WorkerCrash
    <3> QED
      BY <3>1 DEF Stays, Claimed, RunOf, Gen
  <2>2. CASE u = w
    <3>1. CASE \E j \in queue : Pop(w, j)
      BY <1>0, <2>2, <3>1 DEF Pop, Stays, Claimed, IdleWorker
    <3>2. CASE Return(w) \/ WorkerCrash(w) \/ \E a \in Ages : ClaimRefused(w, a) \/ StartRefused(w, a)
      BY <1>0, <2>2, <3>2 DEF Return, WorkerCrash, ClaimRefused, StartRefused, Stays, Claimed, IdleWorker
    <3>3. ASSUME NEW v \in Worker, worker' = [worker EXCEPT ![w] = v], v.job = worker[w].job,
                 v.gen = worker[w].gen,
                 \/ v.phase = worker[w].phase
                 \/ Claimed(w) /\ v.phase \in {"failing", "returning"}
                 \/ Claimed(w) /\ v.phase = "agent" /\ \E a \in Ages : Start(w, a)
          PROVE  Stays(u)
      BY <1>0, <2>2, <3>3 DEF Stays, Claimed, RunOf, Gen
    <3>4. CASE \E a \in Ages : Start(w, a)
      <4> DEFINE v == [worker[w] EXCEPT !.phase = "agent", !.since = 0, !.renewing = TRUE, !.rsince = 0]
      <4>1. v \in Worker /\ v.job = worker[w].job /\ v.gen = worker[w].gen /\ v.phase = "agent"
        BY <1>0, <2>2, Constants DEF Worker, Phases
      <4> QED
        BY <3>3, <3>4, <4>1 DEF Start, InTx, Claimed
    <3>5. CASE \E a \in Ages : AgentStep(w, a)
      <4> DEFINE v == [worker[w] EXCEPT !.since = 0, !.steps = worker[w].steps + 1]
      <4>1. worker[w].steps < MaxSteps /\ worker[w].steps \in 0..MaxSteps /\ worker[w] \in Worker
        BY <1>0, <2>2, <3>5 DEF AgentStep, Worker
      <4>3. worker[w].steps + 1 \in 0..MaxSteps
        BY <4>1, Constants
      <4>2. v \in Worker /\ v.job = worker[w].job /\ v.gen = worker[w].gen /\ v.phase = worker[w].phase
        BY <4>1, <4>3, Constants DEF Worker
      <4> QED
        BY <3>3, <3>5, <4>2 DEF AgentStep, InTx, Claimed
    <3>6. CASE \E a \in Ages : \/ AgentStepRefused(w, a) \/ FinishRefused(w, a)
                              \/ FinishCompleted(w, a) \/ FinishFailed(w, a)
      <4>1. PICK p \in {"failing", "returning"} :
              Claimed(w) /\ worker' = [worker EXCEPT ![w] = [worker[w] EXCEPT !.phase = p, !.since = 0]]
        BY <3>6 DEF AgentStepRefused, FinishRefused, FinishCompleted, FinishFailed, FinishAs, InTx, Claimed
      <4> DEFINE v == [worker[w] EXCEPT !.phase = p, !.since = 0]
      <4>2. v \in Worker /\ v.job = worker[w].job /\ v.gen = worker[w].gen /\ v.phase = p
        BY <1>0, <2>2, Constants DEF Worker, Phases
      <4> QED
        BY <3>3, <4>1, <4>2
    <3>7. CASE AgentRaises(w)
      <4> DEFINE v == [worker[w] EXCEPT !.phase = "failing"]
      <4>1. v \in Worker /\ v.job = worker[w].job /\ v.gen = worker[w].gen /\ v.phase = "failing"
        BY <1>0, <2>2 DEF Worker, Phases
      <4> QED
        BY <3>3, <3>7, <4>1 DEF AgentRaises, Claimed
    <3>8. CASE RenewStops(w) \/ \E a \in Ages : Renew(w, a)
      <4> DEFINE v1 == [worker[w] EXCEPT !.rsince = 0]
                 v2 == [worker[w] EXCEPT !.renewing = FALSE, !.rsince = 0]
      <4>1. \A v \in {v1, v2} : /\ v \in Worker /\ v.job = worker[w].job /\ v.gen = worker[w].gen
                                /\ v.phase = worker[w].phase
        BY <1>0, <2>2, Constants DEF Worker
      <4> QED
        BY <3>3, <3>8, <4>1 DEF RenewStops, Renew
    <3> QED
      BY <1>2, <2>2, <3>1, <3>2, <3>4, <3>5, <3>6, <3>7, <3>8 DEF WorkerProcess, MainThread
  <2> QED
    BY <2>1, <2>2
<1>3. ASSUME Tick PROVE Stays(u)
  <2>1. worker'[u].phase = worker[u].phase /\ worker'[u].job = worker[u].job /\ worker'[u].gen = worker[u].gen
    BY <1>0, <1>3 DEF Tick, Worker
  <2> QED
    BY <2>1 DEF Stays, Claimed, RunOf, Gen
<1>4. ASSUME (\E r \in Runs : CreateRun(r)) \/ Dispatcher \/ (\E j \in known : KeyExpires(j))
             \/ (\E a \in Ages : Sweep(a)) \/ UNCHANGED vars
      PROVE  Stays(u)
  <2>1. worker' = worker
    BY <1>4 DEF CreateRun, Dispatcher, DispatchSelect, DispatchPublish, DispatchPostpone,
         DispatchMark, DispatchCommit, DispatchCrash, KeyExpires, Sweep, vars
  <2> QED
    BY <1>1, <2>1
<1>5. Stays(u)
  BY <1>2, <1>3, <1>4 DEF Next
<1>6. attempt' = attempt
  <2>1. CASE \E w \in Workers : WorkerProcess(w)
    BY <2>1 DEF WorkerProcess, MainThread, Pop, ClaimRefused, Start, StartRefused, AgentStep,
             AgentStepRefused, FinishCompleted, FinishFailed, FinishAs, FinishRefused, Renew,
             AgentRaises, Return, RenewStops, WorkerCrash, rows
  <2>2. CASE ~ \E w \in Workers : WorkerProcess(w)
    BY <2>2 DEF Next, CreateRun, Dispatcher, DispatchSelect, DispatchPublish, DispatchPostpone,
         DispatchMark, DispatchCommit, DispatchCrash, KeyExpires, Sweep, Tick, rows, vars
  <2> QED
    BY <2>1, <2>2
<1> QED
  BY <1>5, <1>6

LEMMA GenStep ==
  ASSUME TypeInv, GenInv, [Next]_vars
  PROVE  GenInv'
<1>0. TypeOK /\ JobHeld /\ worker \in [Workers -> Worker]
  BY DEF TypeInv, TypeOK
<1>1. CASE ~ \E w \in Workers, a \in Ages : Claim(w, a)
  BY <1>1, ClaimsStay DEF GenInv, Stays
<1>2. ASSUME NEW w \in Workers, NEW a \in Ages, Claim(w, a) PROVE GenInv'
  <2> DEFINE r == RunOf(w)
  <2>1. r \in Runs /\ attempt[r] \in Nat /\ ~Claimed(w)
    BY <1>0, <1>2 DEF Claim, InTx, JobHeld, RunOf, Job, TypeOK, Claimed
  <2>2. attempt' = [attempt EXCEPT ![r] = attempt[r] + 1]
    BY <1>2 DEF Claim, NextGen
  <2>3. worker'[w].job = worker[w].job /\ worker'[w].gen = attempt[r] + 1
    BY <1>0, <1>2 DEF Claim, NextGen, Worker
  <2>4. \A u \in Workers \ {w} : worker'[u] = worker[u]
    BY <1>0, <1>2 DEF Claim
  <2>5. \A u \in Workers : RunOf(u)' = RunOf(u)
    BY <2>3, <2>4 DEF RunOf
  <2>6. \A u \in Workers \ {w} : (Claimed(u)' <=> Claimed(u)) /\ Gen(u)' = Gen(u)
    BY <2>4 DEF Claimed, Gen
  <2>7. Gen(w)' = attempt[r] + 1
    BY <2>3 DEF Gen
  <2>8. \A u \in Workers \ {w} : Claimed(u) =>
           /\ RunOf(u) \in Runs /\ Gen(u) \in 1..attempt[RunOf(u)] /\ attempt[RunOf(u)] \in Nat
    BY <1>0 DEF GenInv, Claimed, JobHeld, RunOf, Job, TypeOK
  <2>9. ASSUME NEW u \in Workers, Claimed(u)' PROVE Gen(u)' \in 1..attempt'[RunOf(u)']
    <3>1. CASE u = w
      BY <1>0, <2>1, <2>2, <2>5, <2>7, <3>1 DEF TypeOK
    <3>2. CASE u # w
      BY <1>0, <2>1, <2>2, <2>5, <2>6, <2>8, <2>9, <3>2 DEF TypeOK
    <3> QED
      BY <3>1, <3>2
  <2>10. ASSUME NEW u \in Workers, NEW v \in Workers, Claimed(u)', Claimed(v)',
                RunOf(u)' = RunOf(v)', Gen(u)' = Gen(v)'
         PROVE  u = v
    <3>1. \A x \in Workers \ {w} : Claimed(x)' /\ RunOf(x)' = r => Gen(x)' <= attempt[r]
      BY <2>1, <2>5, <2>6, <2>8
    <3>2. CASE u # w /\ v # w
      BY <2>5, <2>6, <2>10, <3>2 DEF GenInv
    <3>3. CASE u = w /\ v # w
      <4>1. Gen(v)' <= attempt[r] /\ Gen(v)' = attempt[r] + 1 /\ Gen(v)' \in Nat
        BY <2>1, <2>5, <2>7, <2>10, <3>1, <3>3
      <4> QED
        BY <2>1, <4>1
    <3>4. CASE u # w /\ v = w
      <4>1. Gen(u)' <= attempt[r] /\ Gen(u)' = attempt[r] + 1 /\ Gen(u)' \in Nat
        BY <2>1, <2>5, <2>7, <2>10, <3>1, <3>4
      <4> QED
        BY <2>1, <4>1
    <3> QED
      BY <3>2, <3>3, <3>4
  <2> QED
    BY <2>9, <2>10 DEF GenInv
<1> QED
  BY <1>1, <1>2

\* The starts in a log: at most one for a generation, and before the steps and the
\* completion of that generation.
HasStart(s, g) == \E k \in DOMAIN s : s[k] = Ev("run.started", g)
StartedOnce(s) ==
    /\ \A i, k \in DOMAIN s : s[i].type = "run.started" /\ s[k] = s[i] => i = k
    /\ \A i \in DOMAIN s : s[i].type \in {"step", "run.completed"} =>
          \E k \in DOMAIN s : k < i /\ s[k] = Ev("run.started", s[i].gen)

\* A worker that is about to start has not started, one that executes has.
StartInv ==
    /\ \A w \in Workers : worker[w].phase = "starting" => ~HasStart(events[RunOf(w)], Gen(w))
    /\ \A w \in Workers : worker[w].phase = "agent" => HasStart(events[RunOf(w)], Gen(w))
    /\ \A r \in Runs : StartedOnce(events[r])

\* Events of the API, the dispatcher, the sweeper and of failure say nothing of starts.
LEMMA QuietEvents ==
  ASSUME NEW s, NEW t, NEW new, Extends(t, s, new),
         \A e \in new : e.type \notin {"run.started", "step", "run.completed"}
  PROVE  /\ \A g : HasStart(t, g) <=> HasStart(s, g)
         /\ StartedOnce(s) => StartedOnce(t)
<1>1. /\ \A i \in DOMAIN s : i \in DOMAIN t /\ t[i] = s[i]
      /\ \A i \in DOMAIN t : i \in DOMAIN s \/ t[i].type \notin {"run.started", "step", "run.completed"}
  BY DEF Extends
<1>2. \A g : Ev("run.started", g).type = "run.started"
  BY DEF Ev
<1>3. ASSUME NEW g PROVE HasStart(t, g) <=> HasStart(s, g)
  BY <1>1, <1>2 DEF HasStart
<1>4. ASSUME StartedOnce(s) PROVE StartedOnce(t)
  <2>1. ASSUME NEW i \in DOMAIN t, NEW k \in DOMAIN t, t[i].type = "run.started", t[k] = t[i]
        PROVE  i = k
    BY <1>1, <1>4, <2>1 DEF StartedOnce
  <2>2. ASSUME NEW i \in DOMAIN t, t[i].type \in {"step", "run.completed"}
        PROVE  \E k \in DOMAIN t : k < i /\ t[k] = Ev("run.started", t[i].gen)
    <3>1. i \in DOMAIN s /\ t[i] = s[i]
      BY <1>1, <2>2
    <3>2. PICK k \in DOMAIN s : k < i /\ s[k] = Ev("run.started", s[i].gen)
      BY <1>4, <2>2, <3>1 DEF StartedOnce
    <3> QED
      BY <1>1, <3>1, <3>2
  <2> QED
    BY <2>1, <2>2 DEF StartedOnce
<1> QED
  BY <1>3, <1>4

\* The first start of a generation.
LEMMA StartEvent ==
  ASSUME NEW s \in Seq(Event), NEW g \in Nat, StartedOnce(s), ~HasStart(s, g)
  PROVE  LET t == Append(s, Ev("run.started", g)) IN
           /\ StartedOnce(t)
           /\ \A h : HasStart(t, h) <=> (HasStart(s, h) \/ h = g)
<1> DEFINE e == Ev("run.started", g)
           t == Append(s, e)
<1>1. e \in Event /\ e.type = "run.started" /\ e.gen = g /\ \A h : Ev("run.started", h) = e <=> h = g
  BY DEF Ev, Event, EventTypes
<1>2. PICK n \in Nat : DOMAIN t = DOMAIN s \cup {n} /\ n \notin DOMAIN s /\ t[n] = e
  BY <1>1, AppendExtends
<1>3. \A i \in DOMAIN s : t[i] = s[i] /\ i < n
  BY <1>1, <1>2, AppendExtends DEF Extends
<1>4. ASSUME NEW h PROVE HasStart(t, h) <=> (HasStart(s, h) \/ h = g)
  BY <1>1, <1>2, <1>3 DEF HasStart
<1>5. ASSUME NEW i \in DOMAIN t, NEW k \in DOMAIN t, t[i].type = "run.started", t[k] = t[i]
      PROVE  i = k
  BY <1>2, <1>3, <1>5 DEF StartedOnce, HasStart
<1>6. ASSUME NEW i \in DOMAIN t, t[i].type \in {"step", "run.completed"}
      PROVE  \E k \in DOMAIN t : k < i /\ t[k] = Ev("run.started", t[i].gen)
  <2>1. i \in DOMAIN s /\ t[i] = s[i]
    BY <1>1, <1>2, <1>3, <1>6
  <2>2. PICK k \in DOMAIN s : k < i /\ s[k] = Ev("run.started", s[i].gen)
    BY <1>6, <2>1 DEF StartedOnce
  <2> QED
    BY <1>2, <1>3, <2>1, <2>2
<1>7. StartedOnce(t)
  BY <1>5, <1>6 DEF StartedOnce
<1> QED
  BY <1>4, <1>7

\* A step or the completion of a generation that has started.
LEMMA WorkEvent ==
  ASSUME NEW s \in Seq(Event), NEW g \in Nat, StartedOnce(s), HasStart(s, g),
         NEW type \in {"step", "run.completed"}
  PROVE  LET t == Append(s, Ev(type, g)) IN
           /\ StartedOnce(t)
           /\ \A h : HasStart(t, h) <=> HasStart(s, h)
<1> DEFINE e == Ev(type, g)
           t == Append(s, e)
<1>1. e \in Event /\ e.type = type /\ e.gen = g /\ \A h : Ev("run.started", h) # e
  BY DEF Ev, Event, EventTypes
<1>2. PICK n \in Nat : DOMAIN t = DOMAIN s \cup {n} /\ n \notin DOMAIN s /\ t[n] = e
  BY <1>1, AppendExtends
<1>3. \A i \in DOMAIN s : t[i] = s[i] /\ i < n
  BY <1>1, <1>2, AppendExtends DEF Extends
<1>4. ASSUME NEW h PROVE HasStart(t, h) <=> HasStart(s, h)
  BY <1>1, <1>2, <1>3 DEF HasStart
<1>5. ASSUME NEW i \in DOMAIN t, NEW k \in DOMAIN t, t[i].type = "run.started", t[k] = t[i]
      PROVE  i = k
  <2>1. i # n /\ k # n
    BY <1>1, <1>2, <1>5
  <2> QED
    BY <1>2, <1>3, <1>5, <2>1 DEF StartedOnce
<1>6. ASSUME NEW i \in DOMAIN t, t[i].type \in {"step", "run.completed"}
      PROVE  \E k \in DOMAIN t : k < i /\ t[k] = Ev("run.started", t[i].gen)
  <2>1. CASE i = n
    BY <1>1, <1>2, <1>3, <2>1 DEF HasStart
  <2>2. CASE i \in DOMAIN s
    <3>1. PICK k \in DOMAIN s : k < i /\ s[k] = Ev("run.started", s[i].gen)
      BY <1>3, <1>6, <2>2 DEF StartedOnce
    <3> QED
      BY <1>2, <1>3, <2>2, <3>1
  <2> QED
    BY <1>2, <2>1, <2>2
<1>7. StartedOnce(t)
  BY <1>5, <1>6 DEF StartedOnce
<1> QED
  BY <1>4, <1>7

\* The log of r in a step that no worker's start writes into.
LEMMA OtherLogs ==
  ASSUME LogInv, StartInv, [Next]_vars, NEW r \in Runs,
         ~ \E w \in Workers, a \in Ages : RunOf(w) = r /\ Start(w, a)
  PROVE  /\ StartedOnce(events'[r])
         /\ \A g : HasStart(events'[r], g) <=> HasStart(events[r], g)
<1>0. /\ TypeInv /\ DraftInv /\ AbsentInv /\ events[r] \in Seq(Event) /\ draft[r] \in Seq(Event)
      /\ attempt[r] \in Nat /\ StartedOnce(events[r])
  BY DEF LogInv, TypeInv, TypeOK, StartInv
<1>1. CASE Keeps(r)
  BY <1>0, <1>1 DEF Keeps
<1>2. CASE Drains(r)
  <2> DEFINE e == Ev("run.enqueued", attempt[r])
  <2>1. Extends(events'[r], events[r], {e})
    BY <1>0, <1>2, ConcatExtends DEF Drains, DraftInv
  <2>2. e.type = "run.enqueued"
    BY DEF Ev
  <2> QED
    BY <1>0, <2>1, <2>2, QuietEvents
<1>3. ASSUME NEW type \in EventTypes, Adds(r, type)
      PROVE  /\ StartedOnce(events'[r])
             /\ \A g : HasStart(events'[r], g) <=> HasStart(events[r], g)
  <2>1. events'[r] = Append(events[r], Ev(type, attempt[r])) /\ type # "run.started"
    BY <1>3 DEF Adds, Wrote
  <2>2. CASE type \in {"step", "run.completed"}
    <3>1. PICK w \in Workers, a \in Ages : RunOf(w) = r /\ (AgentStep(w, a) \/ FinishCompleted(w, a))
      BY <1>3, <2>2 DEF Adds, Wrote
    <3>2. worker[w].phase = "agent" /\ Gen(w) = attempt[r]
      BY <3>1 DEF AgentStep, FinishCompleted, FinishAs, InTx, Fenced, FenceHolds
    <3>3. HasStart(events[r], attempt[r])
      BY <3>1, <3>2 DEF StartInv
    <3> QED
      BY <1>0, <2>1, <2>2, <3>3, WorkEvent
  <2>3. CASE type \notin {"step", "run.completed"}
    <3> DEFINE e == Ev(type, attempt[r])
    <3>1. e \in Event /\ e.type = type
      BY <1>0 DEF Ev, Event
    <3>2. Extends(events'[r], events[r], {e})
      BY <1>0, <2>1, <3>1, AppendExtends
    <3> QED
      BY <1>0, <2>1, <2>3, <3>1, <3>2, QuietEvents
  <2> QED
    BY <2>2, <2>3
<1> QED
  BY <1>0, <1>1, <1>2, <1>3, LogStep

LEMMA StartStep ==
  ASSUME LogInv, GenInv, StartInv, [Next]_vars
  PROVE  StartInv'
<1>0. TypeInv /\ TypeOK /\ JobHeld /\ worker \in [Workers -> Worker]
  BY DEF LogInv, TypeInv, TypeOK
<1>1. \A w \in Workers : Claimed(w) => RunOf(w) \in Runs
  BY <1>0 DEF Claimed, JobHeld, RunOf, Job
<1>2. CASE \E w \in Workers, a \in Ages : Claim(w, a)
  <2>1. PICK w \in Workers, a \in Ages : Claim(w, a)
    BY <1>2
  <2> DEFINE r == RunOf(w)
  <2>2. /\ events' = events /\ r \in Runs
        /\ worker'[w].phase = "starting" /\ worker'[w].job = worker[w].job
        /\ worker'[w].gen = attempt[r] + 1
        /\ \A u \in Workers \ {w} : worker'[u] = worker[u]
    BY <1>0, <2>1 DEF Claim, InTx, NextGen, JobHeld, RunOf, Job, Worker
  <2>3. ~HasStart(events[r], attempt[r] + 1)
    <3>1. \A k \in DOMAIN events[r] : events[r][k].gen <= attempt[r] /\ attempt[r] \in Nat
      BY <1>0, <2>2 DEF LogInv, Ordered, TypeOK
    <3> QED
      BY <3>1 DEF HasStart, Ev
  <2>4. RunOf(w)' = r /\ Gen(w)' = attempt[r] + 1
    BY <2>2 DEF RunOf, Gen
  <2>5. \A u \in Workers \ {w} : RunOf(u)' = RunOf(u) /\ Gen(u)' = Gen(u)
    BY <2>2 DEF RunOf, Gen
  <2>6. ASSUME NEW u \in Workers, worker'[u].phase = "starting"
        PROVE  ~HasStart(events'[RunOf(u)'], Gen(u)')
    BY <2>2, <2>3, <2>4, <2>5, <2>6 DEF StartInv
  <2>7. ASSUME NEW u \in Workers, worker'[u].phase = "agent"
        PROVE  HasStart(events'[RunOf(u)'], Gen(u)')
    BY <2>2, <2>5, <2>7 DEF StartInv
  <2> QED
    BY <2>2, <2>6, <2>7 DEF StartInv
<1>3. CASE ~ \E w \in Workers, a \in Ages : Claim(w, a)
  <2>1. \A u \in Workers : Stays(u)
    BY <1>0, <1>3, ClaimsStay
  \* Which starts there are after the step, in the log of r.
  <2>2. ASSUME NEW r \in Runs
        PROVE  /\ StartedOnce(events'[r])
               /\ \A g : HasStart(events'[r], g) <=>
                     \/ HasStart(events[r], g)
                     \/ \E w \in Workers, a \in Ages : Start(w, a) /\ RunOf(w) = r /\ Gen(w) = g
    <3>1. CASE ~ \E w \in Workers, a \in Ages : RunOf(w) = r /\ Start(w, a)
      BY <3>1, OtherLogs
    <3>2. CASE \E w \in Workers, a \in Ages : RunOf(w) = r /\ Start(w, a)
      <4>1. PICK w \in Workers, a \in Ages : RunOf(w) = r /\ Start(w, a)
        BY <3>2
      <4>2. /\ events'[r] = Append(events[r], Ev("run.started", Gen(w)))
            /\ ~HasStart(events[r], Gen(w)) /\ Gen(w) \in Nat
        BY <1>0, <4>1 DEF Start, InTx, AppendEvent, StartInv, TypeOK, Gen, Worker
      <4>3. /\ StartedOnce(events'[r])
            /\ \A g : HasStart(events'[r], g) <=> (HasStart(events[r], g) \/ g = Gen(w))
        BY <1>0, <4>2, StartEvent DEF TypeOK, StartInv
      <4>4. ASSUME NEW u \in Workers, NEW b \in Ages, Start(u, b), RunOf(u) = r PROVE Gen(u) = Gen(w)
        <5>1. Gen(u) = attempt[r] /\ Gen(w) = attempt[r]
          BY <4>1, <4>4 DEF Start, Fenced, FenceHolds
        <5> QED
          BY <5>1
      <4> QED
        BY <4>1, <4>3, <4>4
    <3> QED
      BY <3>1, <3>2
  <2>3. ASSUME NEW u \in Workers, worker'[u].phase = "starting"
        PROVE  ~HasStart(events'[RunOf(u)'], Gen(u)')
    <3>1. /\ Claimed(u) /\ worker[u].phase = "starting" /\ RunOf(u) \in Runs
          /\ RunOf(u)' = RunOf(u) /\ Gen(u)' = Gen(u)
      BY <1>1, <2>1, <2>3 DEF Stays, Claimed
    <3>2. ~HasStart(events[RunOf(u)], Gen(u))
      BY <3>1 DEF StartInv
    <3>3. ASSUME NEW w \in Workers, NEW a \in Ages, Start(w, a), RunOf(w) = RunOf(u), Gen(w) = Gen(u)
          PROVE  FALSE
      <4>1. Claimed(w) /\ worker'[w].phase = "agent"
        BY <1>0, <3>3 DEF Start, InTx, Claimed, Worker
      <4>2. w = u
        BY <3>1, <3>3, <4>1 DEF GenInv
      <4> QED
        BY <2>3, <4>1, <4>2
    <3> QED
      BY <2>2, <3>1, <3>2, <3>3
  <2>4. ASSUME NEW u \in Workers, worker'[u].phase = "agent"
        PROVE  HasStart(events'[RunOf(u)'], Gen(u)')
    <3>1. /\ RunOf(u) \in Runs /\ RunOf(u)' = RunOf(u) /\ Gen(u)' = Gen(u)
          /\ worker[u].phase = "agent" \/ \E a \in Ages : Start(u, a)
      BY <1>1, <2>1, <2>4 DEF Stays, Claimed
    <3> QED
      BY <2>2, <3>1 DEF StartInv
  <2> QED
    BY <2>2, <2>3, <2>4 DEF StartInv
<1> QED
  BY <1>2, <1>3

\* Each generation starts at most once, and whatever its worker writes comes after: a
\* delivery that Redis gives twice never makes two workers of one generation.
THEOREM StartsOnce == Spec => []StartedOncePerGeneration
<1>1. Init => LogInv /\ GenInv /\ StartInv
  <2> SUFFICES ASSUME Init PROVE GenInv /\ StartInv
    BY LogInit
  <2>1. \A w \in Workers : worker[w].phase = "idle"
    BY DEF Init, IdleWorker
  <2>2. \A r \in Runs : events[r] = <<>>
    BY DEF Init
  <2> QED
    BY <2>1, <2>2 DEF GenInv, Claimed, StartInv, StartedOnce
<1>2. LogInv /\ GenInv /\ StartInv /\ [Next]_vars => (LogInv /\ GenInv /\ StartInv)'
  BY LogInvStep, GenStep, StartStep DEF LogInv
<1>3. LogInv /\ StartInv => StartedOncePerGeneration
  <2> SUFFICES ASSUME LogInv, StartInv, NEW r \in Runs, NEW i \in DOMAIN events[r]
               PROVE  /\ \A k \in StartsOf(r, events[r][i].gen) \ {i} :
                            events[r][i].type # "run.started"
                      /\ events[r][i].type \in {"step", "run.completed"} =>
                            \E k \in StartsOf(r, events[r][i].gen) : k < i
    BY DEF StartedOncePerGeneration
  <2>1. StartedOnce(events[r]) /\ events[r][i] \in Event
    BY DEF StartInv, LogInv, TypeInv, TypeOK
  <2>2. events[r][i] = Ev(events[r][i].type, events[r][i].gen)
    BY <2>1 DEF Event, Ev
  <2>3. ASSUME NEW k \in StartsOf(r, events[r][i].gen) \ {i}, events[r][i].type = "run.started"
        PROVE  FALSE
    BY <2>1, <2>2, <2>3 DEF StartsOf, StartedOnce
  <2>4. events[r][i].type \in {"step", "run.completed"} =>
           \E k \in StartsOf(r, events[r][i].gen) : k < i
    BY <2>1 DEF StartsOf, StartedOnce
  <2> QED
    BY <2>3, <2>4
<1> QED
  BY <1>1, <1>2, <1>3, PTL DEF Spec

-----------------------------------------------------------------------------
(* A queued run is carried by its newest outbox job.                         *)

Newest(r) == <<r, Len(outbox[r])>>
Popped(j) == \E w \in Workers : worker[w].phase = "popped" /\ worker[w].job = j

\* Jobs the dispatcher or RQ has seen: each has an outbox row.
Seen == known \cup marked \cup {published}
SeenInv == \A j \in (Seen \cup batch) \ {NoJob} : j[2] \in 1..Len(outbox[j[1]])

FreeInv == \A r \in Runs : /\ status[r] # "running" => owner[r] = NoWorker
                           /\ status[r] = "absent" => outbox[r] = <<>>

\* The newest job of a queued run is waiting in Redis, or with a worker that has
\* yet to claim, or still pending in the outbox and never handed to RQ: were it
\* handed over, the deduplication would swallow the next publish.
Carried(r) ==
    \/ Newest(r) \in queue
    \/ Popped(Newest(r))
    \/ /\ Len(outbox[r]) > 0 /\ outbox[r][Len(outbox[r])] = "pending"
       /\ Newest(r) \notin Seen

CarrierInv ==
    /\ TypeInv /\ FreeInv /\ SeenInv
    /\ \A r \in Runs : status[r] = "queued" /\ r \notin lost => Carried(r)

LEMMA FreeStep ==
  ASSUME TypeInv, FreeInv, [Next]_vars
  PROVE  FreeInv'
<1>0. TypeOK /\ JobHeld
  BY DEF TypeInv
<1>1. ASSUME UNCHANGED <<status, owner>>, \A r \in Runs : outbox[r] = <<>> => outbox'[r] = <<>>
      PROVE  FreeInv'
  BY <1>1 DEF FreeInv
<1>2. ASSUME NEW r \in Runs, CreateRun(r) PROVE FreeInv'
  BY <1>0, <1>2 DEF FreeInv, CreateRun, TypeOK
<1>3. CASE DispatchCommit
  BY <1>0, <1>1, <1>3 DEF DispatchCommit, TypeOK, rows
<1>4. CASE DispatchSelect \/ (\E j \in batch : DispatchPublish(j) \/ DispatchPostpone(j))
           \/ DispatchMark \/ DispatchCrash \/ (\E j \in known : KeyExpires(j))
           \/ Tick \/ UNCHANGED vars
  <2>1. UNCHANGED <<status, owner, outbox>>
    BY <1>4 DEF DispatchSelect, DispatchPublish, DispatchPostpone, DispatchMark, DispatchCrash,
         KeyExpires, Tick, rows, vars
  <2> QED
    BY <1>1, <2>1
<1>5. ASSUME NEW w \in Workers, NEW a \in Ages,
             Claim(w, a) \/ FinishCompleted(w, a) \/ FinishFailed(w, a)
      PROVE  FreeInv'
  <2>1. RunOf(w) \in Runs
    BY <1>0, <1>5 DEF Claim, FinishCompleted, FinishFailed, FinishAs, InTx, JobHeld, RunOf, Job
  <2>2. status[RunOf(w)] # "absent"
    BY <1>5 DEF Claim, Claimable, FinishCompleted, FinishFailed, FinishAs, Fenced, FenceHolds
  <2>3. outbox' = outbox
    BY <1>5 DEF Claim, FinishCompleted, FinishFailed, FinishAs
  <2>4. \/ /\ status' = [status EXCEPT ![RunOf(w)] = "running"]
           /\ owner' = [owner EXCEPT ![RunOf(w)] = w]
        \/ \E outcome \in {"completed", "failed"} :
             /\ status' = [status EXCEPT ![RunOf(w)] = outcome]
             /\ owner' = [owner EXCEPT ![RunOf(w)] = NoWorker]
    BY <1>5 DEF Claim, FinishCompleted, FinishFailed, FinishAs
  <2> QED
    BY <1>0, <2>1, <2>2, <2>3, <2>4 DEF FreeInv, TypeOK
<1>6. ASSUME NEW w \in Workers, WorkerProcess(w),
             ~ \E a \in Ages : Claim(w, a) \/ FinishCompleted(w, a) \/ FinishFailed(w, a)
      PROVE  FreeInv'
  <2>1. UNCHANGED <<status, owner, outbox>>
    BY <1>6 DEF WorkerProcess, MainThread, Pop, ClaimRefused, Start, StartRefused, AgentStep,
                AgentStepRefused, FinishRefused, Renew,
                AgentRaises, Return, RenewStops, WorkerCrash, rows
  <2> QED
    BY <1>1, <2>1
<1>7. ASSUME NEW a \in Ages, Sweep(a) PROVE FreeInv'
  BY <1>0, <1>7 DEF FreeInv, Sweep, TypeOK
<1> QED
  BY <1>2, <1>3, <1>4, <1>5, <1>6, <1>7 DEF Next, Dispatcher
\* The commit of the dispatcher changes the status of jobs, not their number,
\* and no job it has not marked.
LEMMA CommitOutbox ==
  ASSUME TypeInv, DispatchCommit, NEW r \in Runs
  PROVE  /\ Len(outbox'[r]) = Len(outbox[r])
         /\ \A n \in 1..Len(outbox[r]) : <<r, n>> \notin marked => outbox'[r][n] = outbox[r][n]
<1>1. outbox[r] \in Seq(JobStatus) /\ DOMAIN outbox[r] = 1..Len(outbox[r]) /\ Len(outbox[r]) \in Nat
  BY DEF TypeInv, TypeOK
<1>2. outbox'[r] = [n \in 1..Len(outbox[r]) |-> IF <<r, n>> \in marked THEN "dispatched" ELSE outbox[r][n]]
  BY <1>1 DEF DispatchCommit
<1>3. outbox'[r] \in Seq(JobStatus)
  <2>1. TypeInv'
    BY TypeStep DEF Next, Dispatcher
  <2> QED
    BY <2>1 DEF TypeInv, TypeOK
<1>4. 1..Len(outbox'[r]) = 1..Len(outbox[r]) /\ Len(outbox'[r]) \in Nat
  BY <1>2, <1>3
<1>5. Len(outbox'[r]) = Len(outbox[r])
  BY <1>1, <1>4
<1> QED
  BY <1>2, <1>5

LEMMA SeenStep ==
  ASSUME TypeInv, FreeInv, SeenInv, [Next]_vars
  PROVE  SeenInv'
<1>0. TypeOK /\ JobHeld
  BY DEF TypeInv
<1>1. \A j \in (Seen \cup batch) \ {NoJob} : j \in Job /\ j[1] \in Runs
  BY <1>0 DEF TypeOK, Seen, Job
<1>2. \A r \in Runs : outbox[r] \in Seq(JobStatus) /\ Len(outbox[r]) \in Nat
  BY <1>0 DEF TypeOK
<1>3. ASSUME (Seen \cup batch)' \subseteq Seen \cup batch \cup {NoJob},
             \A r \in Runs : /\ Len(outbox'[r]) \in {Len(outbox[r]), Len(outbox[r]) + 1}
      PROVE  SeenInv'
  <2> SUFFICES ASSUME NEW j \in (Seen \cup batch)' \ {NoJob} PROVE j[2] \in 1..Len(outbox'[j[1]])
    BY DEF SeenInv
  <2>1. j[1] \in Runs /\ j[2] \in 1..Len(outbox[j[1]])
    BY <1>1, <1>3 DEF SeenInv
  <2> QED
    BY <1>2, <1>3, <2>1
<1>4. ASSUME NEW r \in Runs, CreateRun(r) PROVE SeenInv'
  BY <1>2, <1>3, <1>4, <1>0 DEF CreateRun, Seen, redis, dispatch, TypeOK
<1>5. CASE DispatchSelect
  <2>1. \A j \in Pending : j[2] \in 1..Len(outbox[j[1]])
    BY <1>2 DEF Pending
  <2> QED
    BY <1>5, <2>1 DEF SeenInv, DispatchSelect, Seen, redis
<1>6. CASE \E j \in batch : DispatchPublish(j) \/ DispatchPostpone(j)
  <2>1. UNCHANGED outbox /\ (Seen \cup batch)' \subseteq Seen \cup batch \cup {NoJob}
    BY <1>6 DEF DispatchPublish, DispatchPostpone, Seen, redis
  <2> QED
    BY <1>3, <2>1
<1>7. CASE DispatchMark \/ DispatchCrash \/ (\E j \in known : KeyExpires(j)) \/ Tick \/ UNCHANGED vars
  <2>1. UNCHANGED outbox /\ (Seen \cup batch)' \subseteq Seen \cup batch \cup {NoJob}
    BY <1>7 DEF DispatchMark, DispatchCrash, KeyExpires, Tick, Seen, redis, dispatch, vars
  <2> QED
    BY <1>3, <2>1
<1>8. CASE DispatchCommit
  <2>1. (Seen \cup batch)' \subseteq Seen \cup batch
    BY <1>8 DEF DispatchCommit, Seen, redis
  <2> QED
    BY <1>3, <1>8, <2>1, CommitOutbox
<1>9. ASSUME NEW w \in Workers, WorkerProcess(w) PROVE SeenInv'
  <2>1. UNCHANGED <<outbox, known, dispatch>>
    BY <1>9 DEF WorkerProcess, MainThread, Pop, Claim, ClaimRefused, Start, StartRefused, AgentStep,
                AgentStepRefused, FinishCompleted, FinishFailed, FinishAs, FinishRefused, Renew,
                AgentRaises, Return, RenewStops, WorkerCrash, redis
  <2> QED
    BY <1>3, <2>1 DEF Seen, dispatch
<1>10. ASSUME NEW a \in Ages, Sweep(a) PROVE SeenInv'
  <2>1. \A r \in Runs : Len(outbox'[r]) \in {Len(outbox[r]), Len(outbox[r]) + 1}
    BY <1>2, <1>10 DEF Sweep, Requeued, JobStatus
  <2>2. (Seen \cup batch)' = Seen \cup batch
    BY <1>10 DEF Sweep, Seen, redis, dispatch
  <2> QED
    BY <1>3, <2>1, <2>2
<1> QED
  BY <1>4, <1>5, <1>6, <1>7, <1>8, <1>9, <1>10 DEF Next, Dispatcher

LEMMA CarrierStep == CarrierInv /\ [Next]_vars => CarrierInv'
<1> SUFFICES ASSUME CarrierInv, [Next]_vars PROVE CarrierInv'
  OBVIOUS
<1>0. TypeOK /\ JobHeld /\ FreeInv /\ SeenInv /\ TypeInv
  BY DEF CarrierInv, TypeInv
<1>a. TypeInv' /\ FreeInv' /\ SeenInv'
  BY <1>0, TypeStep, FreeStep, SeenStep
<1> SUFFICES ASSUME NEW r \in Runs, status'[r] = "queued", r \notin lost' PROVE Carried(r)'
  BY <1>a DEF CarrierInv
<1>b. /\ outbox[r] \in Seq(JobStatus) /\ Len(outbox[r]) \in Nat /\ Newest(r) \in Job
      /\ Newest(r) # NoJob /\ Newest(r)[1] = r
  BY <1>0, NullsAssumption DEF TypeOK, Newest, Job
<1>c. ASSUME status[r] = "queued", r \notin lost PROVE Carried(r)
  BY <1>c DEF CarrierInv
\* Steps that keep the run queued, its jobs, and what holds the newest of them.
<1>1. ASSUME status[r] = "queued", r \notin lost, outbox'[r] = outbox[r],
             Newest(r) \in queue => Newest(r) \in queue' \/ Popped(Newest(r))',
             Popped(Newest(r)) => Popped(Newest(r))',
             Newest(r) \in Seen' => Newest(r) \in Seen
      PROVE  Carried(r)'
  <2>1. Newest(r)' = Newest(r)
    BY <1>1 DEF Newest
  <2> QED
    BY <1>1, <1>c, <2>1 DEF Carried
<1>2. ASSUME NEW s \in Runs, CreateRun(s) PROVE Carried(r)'
  <2>1. CASE s = r
    <3>1. outbox[r] = <<>>
      BY <1>0, <1>2, <2>1 DEF FreeInv, CreateRun
    <3>2. outbox'[r] = Append(outbox[r], "pending")
      BY <1>0, <1>2, <2>1 DEF CreateRun, TypeOK
    <3>3. Len(outbox'[r]) = 1 /\ outbox'[r][1] = "pending" /\ Len(outbox[r]) = 0
      BY <1>b, <3>1, <3>2 DEF JobStatus
    <3>4. Newest(r)' = <<r, 1>> /\ <<r, 1>> # NoJob
      BY <3>3, NullsAssumption DEF Newest
    <3>5. <<r, 1>> \notin Seen
      BY <1>0, <3>3, <3>4 DEF SeenInv
    <3>6. Seen' = Seen
      BY <1>2 DEF CreateRun, Seen, redis, dispatch
    <3> QED
      BY <3>3, <3>4, <3>5, <3>6 DEF Carried
  <2>2. CASE s # r
    <3>1. status[r] = "queued" /\ outbox'[r] = outbox[r] /\ UNCHANGED <<lost, queue, worker, Seen>>
      BY <1>0, <1>2, <2>2 DEF CreateRun, TypeOK, Seen, redis, dispatch
    <3> QED
      BY <1>1, <3>1 DEF Popped, Newest
  <2> QED
    BY <2>1, <2>2
<1>3. CASE DispatchSelect \/ (\E j \in batch : DispatchPostpone(j)) \/ DispatchMark \/ DispatchCrash
           \/ (\E j \in known : KeyExpires(j)) \/ UNCHANGED vars
  <2>1. UNCHANGED <<status, outbox, lost, queue, worker>> /\ Seen' \subseteq Seen \cup {NoJob}
    BY <1>3 DEF DispatchSelect, DispatchPostpone, DispatchMark, DispatchCrash, KeyExpires, Seen,
         rows, redis, dispatch, vars
  <2> QED
    BY <1>1, <1>b, <2>1 DEF Popped, Newest
<1>4. ASSUME NEW j \in batch, DispatchPublish(j) PROVE Carried(r)'
  <2>1. /\ UNCHANGED <<status, outbox, lost, worker>>
        /\ queue \subseteq queue' /\ Seen' \subseteq Seen \cup {j}
    BY <1>4 DEF DispatchPublish, Seen, rows
  <2>2. Newest(r)' = Newest(r) /\ (Popped(Newest(r)))' = Popped(Newest(r))
    BY <2>1 DEF Newest, Popped
  <2>3. CASE j # Newest(r)
    BY <1>1, <2>1, <2>2, <2>3
  <2>4. CASE j = Newest(r) /\ j \in known
    <3>1. Newest(r) \in queue \/ Popped(Newest(r))
      BY <1>c, <2>1, <2>4 DEF Carried, Seen
    <3> QED
      BY <2>1, <2>2, <3>1 DEF Carried
  <2>5. CASE j = Newest(r) /\ j \notin known
    <3>1. Newest(r)' \in queue'
      BY <1>4, <2>2, <2>5 DEF DispatchPublish
    <3> QED
      BY <3>1 DEF Carried
  <2> QED
    BY <2>3, <2>4, <2>5
<1>5. CASE DispatchCommit
  <2>1. UNCHANGED <<status, lost, queue, worker>> /\ Seen' \subseteq Seen
    BY <1>5 DEF DispatchCommit, Seen, rows, redis
  <2>2. /\ Newest(r)' = Newest(r) /\ (Popped(Newest(r)))' = Popped(Newest(r))
        /\ Len(outbox'[r]) = Len(outbox[r])
    BY <1>0, <1>5, <2>1, CommitOutbox DEF Newest, Popped
  <2>3. CASE Newest(r) \in queue \/ Popped(Newest(r))
    BY <2>1, <2>2, <2>3 DEF Carried
  <2>4. CASE ~(Newest(r) \in queue \/ Popped(Newest(r)))
    <3>1. Len(outbox[r]) > 0 /\ outbox[r][Len(outbox[r])] = "pending" /\ Newest(r) \notin Seen
      BY <1>c, <2>1, <2>4 DEF Carried
    <3>2. Newest(r) \notin marked
      BY <3>1 DEF Seen
    <3>3. outbox'[r][Len(outbox[r])] = "pending"
      BY <1>0, <1>5, <1>b, <3>1, <3>2, CommitOutbox DEF Newest
    <3> QED
      BY <2>1, <2>2, <3>1, <3>3 DEF Carried
  <2> QED
    BY <2>3, <2>4
<1>6. ASSUME NEW w \in Workers, NEW j \in queue, Pop(w, j) PROVE Carried(r)'
  <2>1. UNCHANGED <<status, outbox, lost, Seen>>
    BY <1>6 DEF Pop, rows, Seen, dispatch
  <2>2. worker'[w].phase = "popped" /\ worker'[w].job = j
    BY <1>0, <1>6 DEF Pop, TypeOK, IdleWorker
  <2>3. \A v \in Workers : worker[v].phase = "popped" => worker'[v] = worker[v]
    BY <1>0, <1>6 DEF Pop, TypeOK
  <2>4. Popped(j)' /\ (Popped(Newest(r)) => (Popped(Newest(r)))')
    BY <2>1, <2>2, <2>3 DEF Popped, Newest
  <2>5. Newest(r) \in queue => Newest(r) \in queue' \/ Newest(r) = j
    BY <1>6 DEF Pop
  <2>6. Newest(r)' = Newest(r)
    BY <2>1 DEF Newest
  <2> QED
    BY <1>c, <2>1, <2>4, <2>5, <2>6 DEF Carried
\* Steps of a worker that holds no unclaimed delivery of r.
<1>7. ASSUME NEW w \in Workers, NEW v, worker' = [worker EXCEPT ![w] = v],
             worker[w].phase = "popped" => RunOf(w) # r,
             status[r] = "queued", UNCHANGED <<outbox, redis, dispatch>>, lost \subseteq lost'
      PROVE  Carried(r)'
  <2>1. Popped(Newest(r)) => (Popped(Newest(r)))'
    <3> SUFFICES ASSUME NEW u \in Workers, worker[u].phase = "popped", worker[u].job = Newest(r)
                 PROVE  worker'[u] = worker[u] /\ Newest(r)' = Newest(r)
      BY DEF Popped
    <3>1. u # w
      BY <1>7, <1>b DEF RunOf
    <3> QED
      BY <1>0, <1>7, <3>1 DEF TypeOK, Newest
  <2>2. Seen' = Seen /\ queue' = queue /\ r \notin lost
    BY <1>7 DEF Seen, redis, dispatch
  <2> QED
    BY <1>1, <1>7, <2>1, <2>2
<1>8. ASSUME NEW w \in Workers, NEW a \in Ages, Claim(w, a) PROVE Carried(r)'
  <2>1. RunOf(w) # r /\ status[r] = "queued"
    BY <1>0, <1>8 DEF Claim, TypeOK
  <2> QED
    BY <1>7, <1>8, <2>1 DEF Claim
<1>9. ASSUME NEW w \in Workers, NEW a \in Ages, ClaimRefused(w, a) PROVE Carried(r)'
  <2>1. status[r] = "queued"
    BY <1>9 DEF ClaimRefused, rows
  <2>2. RunOf(w) # r
    BY <1>0, <1>9, <2>1 DEF FreeInv, ClaimRefused, Claimable
  <2> QED
    BY <1>7, <1>9, <2>1, <2>2 DEF ClaimRefused
<1>10. ASSUME NEW w \in Workers, NEW a \in Ages, FinishCompleted(w, a) \/ FinishFailed(w, a)
       PROVE  Carried(r)'
  <2>1. PICK phase \in {"agent", "failing"}, outcome \in {"completed", "failed"},
             event \in {"run.completed", "run.failed"} : FinishAs(w, a, phase, outcome, event)
    BY <1>10 DEF FinishCompleted, FinishFailed
  <2>2. status[r] = "queued" /\ worker[w].phase # "popped"
    BY <1>0, <2>1 DEF FinishAs, InTx, TypeOK
  <2> QED
    BY <1>7, <2>1, <2>2 DEF FinishAs
<1>11. ASSUME NEW w \in Workers, NEW a \in Ages,
              Start(w, a) \/ StartRefused(w, a) \/ AgentStep(w, a) \/ AgentStepRefused(w, a)
              \/ FinishRefused(w, a) \/ Renew(w, a) \/ AgentRaises(w) \/ Return(w) \/ RenewStops(w)
       PROVE  Carried(r)'
  <2>1. status' = status /\ UNCHANGED <<outbox, redis, dispatch, lost>>
    BY <1>11 DEF Start, StartRefused, AgentStep, AgentStepRefused, FinishRefused, Renew,
         AgentRaises, Return, RenewStops, rows
  <2>2. PICK v : worker' = [worker EXCEPT ![w] = v]
    BY <1>11 DEF Start, StartRefused, AgentStep, AgentStepRefused, FinishRefused, Renew,
         AgentRaises, Return, RenewStops
  <2>3. CASE worker[w].phase # "popped"
    BY <1>7, <2>1, <2>2, <2>3
  <2>4. CASE worker[w].phase = "popped"
    <3>1. Renew(w, a) \/ RenewStops(w)
      BY <1>11, <2>4 DEF Start, StartRefused, AgentStep, AgentStepRefused, FinishRefused, InTx,
           AgentRaises, Return
    <3>2. \A u \in Workers : worker'[u].phase = worker[u].phase /\ worker'[u].job = worker[u].job
      <4>1. worker \in [Workers -> Worker] /\ worker[w] \in Worker
        BY <1>0 DEF TypeOK
      <4>2. /\ [worker[w] EXCEPT !.rsince = 0].phase = worker[w].phase
            /\ [worker[w] EXCEPT !.rsince = 0].job = worker[w].job
            /\ [worker[w] EXCEPT !.renewing = FALSE, !.rsince = 0].phase = worker[w].phase
            /\ [worker[w] EXCEPT !.renewing = FALSE, !.rsince = 0].job = worker[w].job
        BY <4>1 DEF Worker
      <4> QED
        BY <3>1, <4>1, <4>2 DEF Renew, RenewStops
    <3> QED
      BY <1>1, <2>1, <3>2 DEF Popped, Newest, Seen, redis, dispatch
  <2> QED
    BY <2>3, <2>4
<1>12. ASSUME NEW w \in Workers, WorkerCrash(w) PROVE Carried(r)'
  <2>1. worker[w].phase = "popped" => RunOf(w) # r
    BY <1>12 DEF WorkerCrash
  <2>2. status[r] = "queued" /\ lost \subseteq lost'
    BY <1>12 DEF WorkerCrash, rows
  <2> QED
    BY <1>7, <1>12, <2>1, <2>2 DEF WorkerCrash
<1>13. ASSUME NEW a \in Ages, Sweep(a) PROVE Carried(r)'
  <2>1. UNCHANGED <<queue, Seen, worker, lost>>
    BY <1>13 DEF Sweep, Seen, redis, dispatch
  <2>2. \/ status[r] = "queued" /\ outbox'[r] = outbox[r]
        \/ outbox'[r] = Append(outbox[r], "pending")
    BY <1>0, <1>13 DEF Sweep, Requeued, TypeOK
  <2>3. CASE status[r] = "queued" /\ outbox'[r] = outbox[r]
    BY <1>1, <2>1, <2>3 DEF Popped, Newest
  <2>4. CASE outbox'[r] = Append(outbox[r], "pending")
    <3>1. Len(outbox'[r]) = Len(outbox[r]) + 1 /\ outbox'[r][Len(outbox[r]) + 1] = "pending"
      BY <1>b, <2>4 DEF JobStatus
    <3>2. Newest(r)' = <<r, Len(outbox[r]) + 1>> /\ Newest(r)' # NoJob
      BY <1>b, <3>1, NullsAssumption DEF Newest
    <3>3. Newest(r)' \notin Seen
      BY <1>0, <1>b, <3>2 DEF SeenInv
    <3> QED
      BY <1>b, <2>1, <3>1, <3>2, <3>3 DEF Carried
  <2> QED
    BY <2>2, <2>3, <2>4
<1>14. CASE Tick
  <2>1. UNCHANGED <<status, outbox, lost, queue, Seen>>
    BY <1>14 DEF Tick, Seen, redis, dispatch
  <2>2. \A u \in Workers : worker'[u].phase = worker[u].phase /\ worker'[u].job = worker[u].job
    BY <1>0, <1>14 DEF Tick, TypeOK, Worker
  <2> QED
    BY <1>1, <2>1, <2>2 DEF Popped, Newest
<1> QED
  BY <1>2, <1>3, <1>4, <1>5, <1>6, <1>8, <1>9, <1>10, <1>11, <1>12, <1>13, <1>14,
     Constants DEF Next, Dispatcher, WorkerProcess, MainThread

\* No run is forgotten: a queued run that lost no delivery to a dying worker is
\* still pending in the outbox, in Redis or with a worker about to claim it.
THEOREM NoRunForgotten == Spec => []QueuedRunIsCarried
<1>1. Init => CarrierInv
  <2> SUFFICES ASSUME Init PROVE CarrierInv
    OBVIOUS
  <2>1. TypeInv
    BY TypeInit
  <2> QED
    BY <2>1 DEF Init, CarrierInv, FreeInv, SeenInv, Seen
<1>2. CarrierInv => QueuedRunIsCarried
  <2> SUFFICES ASSUME CarrierInv, NEW r \in Runs, status[r] = "queued", r \notin lost
               PROVE  \/ \E j \in Pending \cup queue : j[1] = r
                      \/ \E w \in Workers : worker[w].phase = "popped" /\ RunOf(w) = r
    BY DEF QueuedRunIsCarried
  <2>1. Carried(r) /\ outbox[r] \in Seq(JobStatus)
    BY DEF CarrierInv, TypeInv, TypeOK
  <2>2. CASE Newest(r) \in queue
    BY <2>2 DEF Newest
  <2>3. CASE Popped(Newest(r))
    BY <2>3 DEF Newest, Popped, RunOf
  <2>4. CASE Len(outbox[r]) > 0 /\ outbox[r][Len(outbox[r])] = "pending"
    <3>1. Len(outbox[r]) \in DOMAIN outbox[r]
      BY <2>1, <2>4
    <3>2. Newest(r) \in Pending
      BY <2>4, <3>1 DEF Pending, Newest
    <3> QED
      BY <3>2 DEF Newest
  <2> QED
    BY <2>1, <2>2, <2>3, <2>4 DEF Carried
<1> QED
  BY <1>1, <1>2, CarrierStep, PTL DEF Spec
-----------------------------------------------------------------------------
(* How often a run can be claimed: its deliveries.                           *)

\* A delivery in Redis, and one a worker has popped, has a key there, and is in one place.
DeliveryInv ==
    /\ queue \subseteq known
    /\ \A w \in Workers : worker[w].phase # "idle" => worker[w].job \in known
    /\ \A w \in Workers : worker[w].phase = "popped" => worker[w].job \notin queue
    /\ \A u, w \in Workers : /\ worker[u].phase = "popped" /\ worker[w].phase = "popped"
                             /\ worker[u].job = worker[w].job
                             => u = w

\* What a step that is no pop does to the delivery of a worker.
JobStays(w) ==
    worker'[w].phase # "idle" =>
        /\ worker[w].phase # "idle" /\ worker'[w].job = worker[w].job
        /\ worker'[w].phase = "popped" => worker[w].phase = "popped"

LEMMA JobsStay ==
  ASSUME TypeInv, [Next]_vars, NEW u \in Workers, ~ \E j \in queue : Pop(u, j)
  PROVE  JobStays(u)
<1>0. TypeOK /\ JobHeld /\ worker \in [Workers -> Worker] /\ worker[u] \in Worker
  BY DEF TypeInv, TypeOK
<1>1. ASSUME worker'[u] = worker[u] PROVE JobStays(u)
  BY <1>1 DEF JobStays
<1>2. ASSUME worker'[u] = IdleWorker PROVE JobStays(u)
  BY <1>2 DEF JobStays, IdleWorker
<1>3. ASSUME worker'[u].job = worker[u].job, worker[u].phase # "idle",
             worker'[u].phase # "popped" \/ worker[u].phase = "popped"
      PROVE  JobStays(u)
  BY <1>3 DEF JobStays
<1>4. ASSUME NEW w \in Workers, w # u, WorkerProcess(w) PROVE JobStays(u)
  <2>1. worker'[u] = worker[u]
    BY <1>0, <1>4
       DEF WorkerProcess, MainThread, Pop, Claim, ClaimRefused, Start, StartRefused, AgentStep,
           AgentStepRefused, FinishCompleted, FinishFailed, FinishAs, FinishRefused, Renew,
           AgentRaises, Return, RenewStops, WorkerCrash
  <2> QED
    BY <1>1, <2>1
<1>5. CASE Return(u) \/ WorkerCrash(u) \/ \E a \in Ages : ClaimRefused(u, a) \/ StartRefused(u, a)
  <2>1. worker'[u] = IdleWorker
    BY <1>0, <1>5 DEF Return, WorkerCrash, ClaimRefused, StartRefused
  <2> QED
    BY <1>2, <2>1
<1>6. CASE \E a \in Ages : Claim(u, a) \/ Start(u, a) \/ AgentStep(u, a) \/ AgentStepRefused(u, a)
                          \/ FinishCompleted(u, a) \/ FinishFailed(u, a) \/ FinishRefused(u, a)
  <2>1. worker[u].phase # "idle"
    BY <1>6 DEF Claim, Start, AgentStep, AgentStepRefused, FinishCompleted, FinishFailed, FinishAs,
         FinishRefused, InTx
  <2>2. CASE \E a \in Ages : Claim(u, a) \/ Start(u, a)
    BY <1>0, <1>3, <2>1, <2>2 DEF Claim, Start, Worker
  <2>3. CASE \E a \in Ages : AgentStep(u, a) \/ AgentStepRefused(u, a) \/ FinishRefused(u, a)
    <3>1. worker'[u].job = worker[u].job /\ worker[u].phase # "popped" /\ worker'[u].phase # "popped"
      BY <1>0, <2>3 DEF AgentStep, AgentStepRefused, FinishRefused, InTx, Worker
    <3> QED
      BY <1>3, <2>1, <3>1
  <2>4. CASE \E a \in Ages : FinishCompleted(u, a) \/ FinishFailed(u, a)
    BY <1>0, <1>3, <2>1, <2>4 DEF FinishCompleted, FinishFailed, FinishAs, Worker
  <2> QED
    BY <1>6, <2>2, <2>3, <2>4
<1>7. CASE AgentRaises(u) \/ RenewStops(u) \/ \E a \in Ages : Renew(u, a)
  <2>1. worker[u].phase # "idle"
    BY <1>0, <1>7 DEF AgentRaises, RenewStops, Renew, RenewTx, JobHeld
  <2>2. worker'[u].job = worker[u].job /\ (worker'[u].phase # "popped" \/ worker[u].phase = "popped")
    BY <1>0, <1>7 DEF AgentRaises, RenewStops, Renew, Worker
  <2> QED
    BY <1>3, <2>1, <2>2
<1>8. CASE Tick
  BY <1>0, <1>8 DEF Tick, Worker, JobStays
<1>9. CASE (\E r \in Runs : CreateRun(r)) \/ Dispatcher \/ (\E j \in known : KeyExpires(j))
           \/ (\E a \in Ages : Sweep(a)) \/ UNCHANGED vars
  <2>1. worker' = worker
    BY <1>9 DEF CreateRun, Dispatcher, DispatchSelect, DispatchPublish, DispatchPostpone,
         DispatchMark, DispatchCommit, DispatchCrash, KeyExpires, Sweep, vars
  <2> QED
    BY <1>1, <2>1
<1> QED
  BY <1>4, <1>5, <1>6, <1>7, <1>8, <1>9 DEF Next, WorkerProcess, MainThread

\* What is in Redis changes by a publish, a pop and the expiry of a key only.
LEMMA RedisStep ==
  ASSUME [Next]_vars
  PROVE  \/ \E j \in batch : DispatchPublish(j)
         \/ \E j \in known : KeyExpires(j)
         \/ \E w \in Workers : \E j \in queue : Pop(w, j)
         \/ UNCHANGED redis
<1>1. ASSUME NEW w \in Workers, WorkerProcess(w) PROVE UNCHANGED redis \/ \E j \in queue : Pop(w, j)
  BY <1>1 DEF WorkerProcess, MainThread, Claim, ClaimRefused, Start, StartRefused, AgentStep,
       AgentStepRefused, FinishCompleted, FinishFailed, FinishAs, FinishRefused, Renew,
       AgentRaises, Return, RenewStops, WorkerCrash
<1>2. CASE (\E r \in Runs : CreateRun(r)) \/ (\E a \in Ages : Sweep(a)) \/ Tick \/ UNCHANGED vars
  BY <1>2 DEF CreateRun, Sweep, Tick, vars, redis
<1>3. CASE Dispatcher
  BY <1>3 DEF Dispatcher, DispatchSelect, DispatchPostpone, DispatchMark, DispatchCommit,
       DispatchCrash
<1> QED
  BY <1>1, <1>2, <1>3 DEF Next

LEMMA DeliveryStep ==
  ASSUME TypeInv, DeliveryInv, [Next]_vars
  PROVE  DeliveryInv'
<1>0. TypeOK /\ JobHeld
  BY DEF TypeInv
<1>1. ASSUME NEW j \in batch, DispatchPublish(j) PROVE DeliveryInv'
  BY <1>1 DEF DispatchPublish, DeliveryInv
<1>2. ASSUME NEW j \in known, KeyExpires(j) PROVE DeliveryInv'
  BY <1>0, <1>2 DEF KeyExpires, DeliveryInv, Held
<1>3. ASSUME NEW w \in Workers, NEW j \in queue, Pop(w, j) PROVE DeliveryInv'
  <2>1. worker'[w].phase = "popped" /\ worker'[w].job = j
    BY <1>0, <1>3 DEF Pop, TypeOK, IdleWorker
  <2>2. \A u \in Workers \ {w} : worker'[u] = worker[u]
    BY <1>0, <1>3 DEF Pop, TypeOK
  <2>3. queue' = queue \ {j} /\ known' = known
    BY <1>3 DEF Pop
  <2>4. \A u \in Workers \ {w} : worker'[u].phase = "popped" => worker'[u].job # j
    BY <2>2 DEF DeliveryInv
  <2> QED
    BY <2>1, <2>2, <2>3, <2>4 DEF DeliveryInv
<1>4. ASSUME UNCHANGED redis PROVE DeliveryInv'
  <2>1. \A u \in Workers : JobStays(u)
    <3>1. ASSUME NEW u \in Workers, NEW j \in queue, Pop(u, j) PROVE FALSE
      BY <1>4, <3>1 DEF Pop, redis
    <3> QED
      BY <3>1, JobsStay
  <2>2. queue' = queue /\ known' = known
    BY <1>4 DEF redis
  <2> QED
    BY <2>1, <2>2 DEF DeliveryInv, JobStays
<1> QED
  BY <1>1, <1>2, <1>3, <1>4, RedisStep

\* The deliveries of r that can still lead to a claim.
Unspent(r) ==
    {n \in 1..Len(outbox[r]) : <<r, n>> \notin known \/ <<r, n>> \in queue \/ Popped(<<r, n>>)}

\* While a run is running every delivery it has had is spent, but for the ones RQ forgot;
\* a queued run has one more, and an attempt left for it.
CountInv ==
    \A r \in Runs :
        LET left == Cardinality(Unspent(r)) IN
        /\ status[r] = "queued" => left <= expiries + 1 /\ attempt[r] < MaxAttempts
        /\ status[r] = "running" => left <= expiries /\ attempt[r] + left <= MaxAttempts + expiries
        /\ status[r] \in Terminal => left <= expiries /\ attempt[r] <= MaxAttempts + expiries

LEMMA UnspentFinite ==
  ASSUME TypeOK, NEW r \in Runs
  PROVE  IsFiniteSet(Unspent(r)) /\ Cardinality(Unspent(r)) \in Nat
<1>1. Len(outbox[r]) \in Int
  BY DEF TypeOK
<1>2. IsFiniteSet(1..Len(outbox[r])) /\ Unspent(r) \subseteq 1..Len(outbox[r])
  BY <1>1, FS_Interval DEF Unspent
<1> QED
  BY <1>2, FS_Subset, FS_CardinalityType

\* Fewer elements, or one more, or one less.
LEMMA SubsetCount ==
  ASSUME NEW S, NEW T, IsFiniteSet(S), T \subseteq S
  PROVE  IsFiniteSet(T) /\ Cardinality(T) <= Cardinality(S)
BY FS_Subset

LEMMA OneMore ==
  ASSUME NEW S, NEW T, NEW x, IsFiniteSet(S), T \subseteq S \cup {x}
  PROVE  Cardinality(T) <= Cardinality(S) + 1
<1>1. IsFiniteSet(S \cup {x}) /\ Cardinality(S \cup {x}) \in {Cardinality(S), Cardinality(S) + 1}
  BY FS_AddElement
<1>2. IsFiniteSet(T) /\ Cardinality(T) <= Cardinality(S \cup {x})
  BY <1>1, SubsetCount
<1>3. Cardinality(S) \in Nat /\ Cardinality(T) \in Nat
  BY <1>2, FS_CardinalityType
<1> QED
  BY <1>1, <1>2, <1>3

LEMMA OneLess ==
  ASSUME NEW S, NEW T, NEW x \in S, IsFiniteSet(S), T \subseteq S \ {x}
  PROVE  Cardinality(T) + 1 <= Cardinality(S)
<1>1. IsFiniteSet(S \ {x}) /\ Cardinality(S \ {x}) = Cardinality(S) - 1
  BY FS_RemoveElement
<1>2. IsFiniteSet(T) /\ Cardinality(T) <= Cardinality(S \ {x})
  BY <1>1, SubsetCount
<1>3. Cardinality(S) \in Nat /\ Cardinality(T) \in Nat
  BY <1>2, FS_CardinalityType
<1> QED
  BY <1>1, <1>2, <1>3

\* As long as Redis stands still, no delivery becomes popped.
LEMMA PoppedStays ==
  ASSUME TypeInv, [Next]_vars, UNCHANGED redis, NEW j
  PROVE  Popped(j)' => Popped(j)
<1>1. \A u \in Workers : JobStays(u)
  <2>1. ASSUME NEW u \in Workers, NEW i \in queue, Pop(u, i) PROVE FALSE
    BY <2>1 DEF Pop, redis
  <2> QED
    BY <2>1, JobsStay
<1> QED
  BY <1>1 DEF Popped, JobStays

LEMMA UnspentStays ==
  ASSUME TypeInv, [Next]_vars, UNCHANGED redis, NEW r \in Runs, Len(outbox'[r]) = Len(outbox[r])
  PROVE  Unspent(r)' \subseteq Unspent(r)
BY PoppedStays DEF Unspent, redis

LEMMA CountStep ==
  ASSUME TypeInv, FreeInv, SeenInv, AbsentInv, DeliveryInv, CountInv, [Next]_vars
  PROVE  CountInv'
<1>0. TypeOK /\ JobHeld /\ TypeInv' /\ TypeOK'
  BY TypeStep DEF TypeInv
<1> SUFFICES ASSUME NEW r \in Runs
             PROVE  /\ status'[r] = "queued" =>
                          Cardinality(Unspent(r)') <= expiries' + 1 /\ attempt'[r] < MaxAttempts
                    /\ status'[r] = "running" =>
                          /\ Cardinality(Unspent(r)') <= expiries'
                          /\ attempt'[r] + Cardinality(Unspent(r)') <= MaxAttempts + expiries'
                    /\ status'[r] \in Terminal =>
                          Cardinality(Unspent(r)') <= expiries' /\ attempt'[r] <= MaxAttempts + expiries'
  BY DEF CountInv
<1> DEFINE left == Cardinality(Unspent(r))
           leftAfter == Cardinality(Unspent(r)')
           Goal == /\ status'[r] = "queued" => leftAfter <= expiries' + 1 /\ attempt'[r] < MaxAttempts
                   /\ status'[r] = "running" =>
                         leftAfter <= expiries' /\ attempt'[r] + leftAfter <= MaxAttempts + expiries'
                   /\ status'[r] \in Terminal =>
                         leftAfter <= expiries' /\ attempt'[r] <= MaxAttempts + expiries'
<1>1. /\ IsFiniteSet(Unspent(r)) /\ left \in Nat
      /\ IsFiniteSet(Unspent(r)') /\ leftAfter \in Nat
      /\ attempt[r] \in Nat /\ attempt'[r] \in Nat /\ expiries \in Nat /\ expiries' \in Nat
      /\ MaxAttempts \in Nat \ {0} /\ status[r] \in Status /\ status'[r] \in Status
  <2>1. IsFiniteSet(Unspent(r)) /\ left \in Nat
    BY <1>0, UnspentFinite
  <2>2. IsFiniteSet(Unspent(r)') /\ leftAfter \in Nat
    <3>1. Len(outbox'[r]) \in Int
      BY <1>0 DEF TypeOK
    <3>2. IsFiniteSet(1..Len(outbox'[r])) /\ Unspent(r)' \subseteq 1..Len(outbox'[r])
      BY <3>1, FS_Interval DEF Unspent
    <3> QED
      BY <3>2, FS_Subset, FS_CardinalityType
  <2>3. /\ attempt[r] \in Nat /\ attempt'[r] \in Nat /\ expiries \in Nat /\ expiries' \in Nat
        /\ status[r] \in Status /\ status'[r] \in Status
    BY <1>0, Constants DEF TypeOK
  <2> QED
    BY <2>1, <2>2, <2>3, Constants
<1>2. /\ status[r] = "queued" => left <= expiries + 1 /\ attempt[r] < MaxAttempts
      /\ status[r] = "running" => left <= expiries /\ attempt[r] + left <= MaxAttempts + expiries
      /\ status[r] \in Terminal => left <= expiries /\ attempt[r] <= MaxAttempts + expiries
  BY DEF CountInv
\* A step that does nothing to r but spend a delivery.
<1>3. ASSUME Unspent(r)' \subseteq Unspent(r), status'[r] = status[r], attempt'[r] = attempt[r],
             expiries' = expiries
      PROVE  Goal
  <2>1. leftAfter <= left
    BY <1>1, <1>3, SubsetCount
  <2> QED
    BY <1>1, <1>2, <1>3, <2>1
<1>4. ASSUME UNCHANGED <<redis, outbox, status, attempt>> PROVE Goal
  <2>1. Unspent(r)' \subseteq Unspent(r)
    BY <1>0, <1>4, UnspentStays
  <2> QED
    BY <1>3, <1>4, <2>1 DEF redis
<1>5. ASSUME NEW s \in Runs, CreateRun(s) PROVE Goal
  <2>1. UNCHANGED redis /\ expiries' = expiries /\ attempt' = attempt
    BY <1>5 DEF CreateRun, redis
  <2>2. CASE s = r
    <3>1. outbox[r] = <<>> /\ attempt[r] = 0 /\ status'[r] = "queued"
      BY <1>0, <1>5, <2>2 DEF FreeInv, AbsentInv, CreateRun, TypeOK
    <3>2. outbox'[r] = Append(<<>>, "pending")
      BY <1>0, <1>5, <2>2, <3>1 DEF CreateRun, TypeOK
    <3>3. Len(outbox'[r]) = 1
      BY <3>2
    <3>4. Unspent(r)' \subseteq {} \cup {1}
      BY <3>3 DEF Unspent
    <3>5. leftAfter <= 1
      BY <3>4, OneMore, FS_EmptySet
    <3> QED
      BY <1>1, <2>1, <3>1, <3>5 DEF Terminal
  <2>3. CASE s # r
    <3>1. outbox'[r] = outbox[r] /\ status'[r] = status[r]
      BY <1>0, <1>5, <2>3 DEF CreateRun, TypeOK
    <3>2. Unspent(r)' \subseteq Unspent(r)
      BY <1>0, <2>1, <3>1, UnspentStays
    <3> QED
      BY <1>3, <2>1, <3>1, <3>2
  <2> QED
    BY <2>2, <2>3
<1>6. ASSUME NEW j \in batch, DispatchPublish(j) PROVE Goal
  <2>1. UNCHANGED <<outbox, status, attempt, expiries, worker>>
    BY <1>6 DEF DispatchPublish, rows
  <2>2. known \subseteq known' /\ queue' \subseteq queue \cup ({j} \ known)
    BY <1>6 DEF DispatchPublish
  <2>3. Unspent(r)' \subseteq Unspent(r)
    BY <2>1, <2>2 DEF Unspent, Popped
  <2> QED
    BY <1>3, <2>1, <2>3
<1>7. ASSUME NEW j \in known, KeyExpires(j) PROVE Goal
  <2>1. /\ UNCHANGED <<outbox, status, attempt, queue, worker>>
        /\ known' = known \ {j} /\ expiries' = expiries + 1 /\ j \in Job
    BY <1>0, <1>7 DEF KeyExpires, rows, TypeOK
  <2>2. Unspent(r)' \subseteq Unspent(r) \cup {j[2]}
    BY <2>1 DEF Unspent, Popped
  <2>3. leftAfter <= left + 1
    BY <1>1, <2>2, OneMore
  <2> QED
    BY <1>1, <1>2, <2>1, <2>3
<1>8. ASSUME NEW w \in Workers, NEW j \in queue, Pop(w, j) PROVE Goal
  <2>1. UNCHANGED <<outbox, status, attempt, known, expiries>> /\ queue' \subseteq queue
    BY <1>8 DEF Pop, rows
  <2>2. \A i : Popped(i)' => Popped(i) \/ i = j
    BY <1>0, <1>8 DEF Pop, Popped, TypeOK, IdleWorker
  <2>3. Unspent(r)' \subseteq Unspent(r)
    BY <1>8, <2>1, <2>2 DEF Unspent
  <2> QED
    BY <1>3, <2>1, <2>3
<1>9. CASE DispatchCommit
  <2>1. Len(outbox'[r]) = Len(outbox[r])
    BY <1>9, CommitOutbox
  <2>2. UNCHANGED <<redis, status, attempt>>
    BY <1>9 DEF DispatchCommit, rows
  <2>3. Unspent(r)' \subseteq Unspent(r)
    BY <1>0, <2>1, <2>2, UnspentStays
  <2> QED
    BY <1>3, <2>2, <2>3 DEF redis
<1>10. ASSUME NEW w \in Workers, NEW a \in Ages, Claim(w, a) PROVE Goal
  <2>1. UNCHANGED <<redis, outbox>> /\ worker[w].phase = "popped" /\ worker[w].job \in Job /\ RunOf(w) \in Runs
    BY <1>0, <1>10 DEF Claim, InTx, JobHeld, RunOf, Job
  <2>2. Unspent(r)' \subseteq Unspent(r)
    BY <1>0, <2>1, UnspentStays
  <2>3. CASE RunOf(w) = r
    <3>0. PICK n \in Nat : worker[w].job = <<r, n>>
      BY <2>1, <2>3 DEF Job, RunOf
    <3>1. worker[w].job = <<r, n>> /\ <<r, n>> \in known /\ <<r, n>> \notin queue /\ <<r, n>> # NoJob
      BY <2>1, <3>0, NullsAssumption DEF DeliveryInv
    <3>2. n \in 1..Len(outbox[r])
      BY <3>1 DEF SeenInv, Seen
    <3>3. n \in Unspent(r)
      BY <2>1, <3>1, <3>2 DEF Unspent, Popped
    <3>4. \A u \in Workers \ {w} : worker'[u] = worker[u]
      BY <1>0, <1>10 DEF Claim, TypeOK
    <3>5. worker'[w].phase = "starting"
      BY <1>0, <1>10 DEF Claim, TypeOK, Worker
    <3>a. \A u \in Workers \ {w} : worker[u].phase = "popped" => worker[u].job # <<r, n>>
      BY <2>1, <3>1 DEF DeliveryInv
    <3>6. ~Popped(<<r, n>>)'
      BY <3>4, <3>5, <3>a DEF Popped
    <3>7. Unspent(r)' \subseteq Unspent(r) \ {n}
      BY <2>1, <2>2, <3>1, <3>6 DEF Unspent, redis
    <3>8. leftAfter + 1 <= left
      BY <1>1, <3>3, <3>7, OneLess
    <3>9. /\ status[r] \in {"queued", "running"} /\ status'[r] = "running"
          /\ attempt'[r] = attempt[r] + 1 /\ expiries' = expiries
      BY <1>0, <1>10, <2>3 DEF Claim, Claimable, NextGen, TypeOK, redis
    <3> QED
      BY <1>1, <1>2, <3>8, <3>9 DEF Terminal
  <2>4. CASE RunOf(w) # r
    <3>1. status'[r] = status[r] /\ attempt'[r] = attempt[r] /\ expiries' = expiries
      BY <1>0, <1>10, <2>1, <2>4 DEF Claim, TypeOK, redis
    <3> QED
      BY <1>3, <2>2, <3>1
  <2> QED
    BY <2>3, <2>4
<1>11. ASSUME NEW w \in Workers, NEW a \in Ages, FinishCompleted(w, a) \/ FinishFailed(w, a)
       PROVE  Goal
  <2>1. UNCHANGED <<redis, outbox, attempt>> /\ status[RunOf(w)] = "running" /\ RunOf(w) \in Runs
    BY <1>0, <1>11 DEF FinishCompleted, FinishFailed, FinishAs, Fenced, FenceHolds, InTx, JobHeld,
         RunOf, Job
  <2>2. \/ status'[r] = status[r]
        \/ status[r] = "running" /\ status'[r] \in Terminal
    BY <1>0, <1>11, <2>1 DEF FinishCompleted, FinishFailed, FinishAs, TypeOK, Terminal
  <2>3. Unspent(r)' \subseteq Unspent(r)
    BY <1>0, <2>1, UnspentStays
  <2>4. leftAfter <= left /\ expiries' = expiries /\ attempt'[r] = attempt[r]
    BY <1>1, <2>1, <2>3, SubsetCount DEF redis
  <2> QED
    BY <1>1, <1>2, <2>2, <2>4 DEF Terminal
<1>12. ASSUME NEW a \in Ages, Sweep(a) PROVE Goal
  <2>1. UNCHANGED <<redis, attempt>> /\ expiries' = expiries
    BY <1>12 DEF Sweep, redis
  <2>2. \/ status'[r] = status[r] /\ outbox'[r] = outbox[r]
        \/ status[r] = "running" /\ status'[r] = "failed" /\ outbox'[r] = outbox[r]
        \/ /\ status[r] = "running" /\ status'[r] = "queued" /\ ~(attempt[r] >= MaxAttempts)
           /\ outbox'[r] = Append(outbox[r], "pending")
    BY <1>12 DEF Sweep, Spent, Requeued
  <2>3. CASE status'[r] = status[r] /\ outbox'[r] = outbox[r]
    <3>1. Unspent(r)' \subseteq Unspent(r)
      BY <1>0, <2>1, <2>3, UnspentStays
    <3> QED
      BY <1>3, <2>1, <2>3, <3>1
  <2>4. CASE status[r] = "running" /\ status'[r] = "failed" /\ outbox'[r] = outbox[r]
    <3>1. Unspent(r)' \subseteq Unspent(r)
      BY <1>0, <2>1, <2>4, UnspentStays
    <3>2. leftAfter <= left
      BY <1>1, <3>1, SubsetCount
    <3> QED
      BY <1>1, <1>2, <2>1, <2>4, <3>2
  <2>5. CASE /\ status[r] = "running" /\ status'[r] = "queued" /\ ~(attempt[r] >= MaxAttempts)
             /\ outbox'[r] = Append(outbox[r], "pending")
    <3>1. Len(outbox'[r]) = Len(outbox[r]) + 1 /\ Len(outbox[r]) \in Nat
      BY <1>0, <2>5 DEF TypeOK, JobStatus
    <3>2. 1..(Len(outbox[r]) + 1) \subseteq 1..Len(outbox[r]) \cup {Len(outbox[r]) + 1}
      BY <3>1
    <3>3. \A j : Popped(j)' => Popped(j)
      BY <1>0, <2>1, PoppedStays
    <3>4. Unspent(r)' \subseteq Unspent(r) \cup {Len(outbox[r]) + 1}
      BY <2>1, <3>1, <3>2, <3>3 DEF Unspent, redis
    <3>5. leftAfter <= left + 1
      BY <1>1, <3>4, OneMore
    <3> QED
      BY <1>1, <1>2, <2>1, <2>5, <3>5 DEF Terminal
  <2> QED
    BY <2>2, <2>3, <2>4, <2>5
<1>13. ASSUME NEW w \in Workers, WorkerProcess(w), ~ \E j \in queue : Pop(w, j),
              ~ \E a \in Ages : Claim(w, a) \/ FinishCompleted(w, a) \/ FinishFailed(w, a)
       PROVE  Goal
  <2>1. UNCHANGED <<redis, outbox, status, attempt>>
    BY <1>13 DEF WorkerProcess, MainThread, ClaimRefused, Start, StartRefused, AgentStep,
         AgentStepRefused, FinishRefused, Renew, AgentRaises, Return, RenewStops, WorkerCrash,
         rows, redis
  <2> QED
    BY <1>4, <2>1
<1>14. CASE DispatchSelect \/ (\E j \in batch : DispatchPostpone(j)) \/ DispatchMark \/ DispatchCrash
            \/ Tick \/ UNCHANGED vars
  <2>1. UNCHANGED <<redis, outbox, status, attempt>>
    BY <1>14 DEF DispatchSelect, DispatchPostpone, DispatchMark, DispatchCrash, Tick, vars, rows, redis
  <2> QED
    BY <1>4, <2>1
<1> QED
  BY <1>5, <1>6, <1>7, <1>8, <1>9, <1>10, <1>11, <1>12, <1>13, <1>14 DEF Next, Dispatcher

DeliveriesInv ==
    TypeInv /\ FreeInv /\ SeenInv /\ AbsentInv /\ DeliveryInv /\ CountInv

LEMMA DeliveriesInit == Init => DeliveriesInv
<1> SUFFICES ASSUME Init PROVE DeliveriesInv
  OBVIOUS
<1>1. TypeInv
  BY TypeInit
<1>2. FreeInv /\ SeenInv /\ AbsentInv /\ DeliveryInv
  BY DEF Init, FreeInv, SeenInv, Seen, AbsentInv, DeliveryInv, IdleWorker
<1>3. CountInv
  BY DEF Init, CountInv, Terminal
<1> QED
  BY <1>1, <1>2, <1>3 DEF DeliveriesInv

LEMMA DeliveriesStep == DeliveriesInv /\ [Next]_vars => DeliveriesInv'
BY TypeStep, FreeStep, SeenStep, AbsentStep, DeliveryStep, CountStep DEF DeliveriesInv

\* A run is claimed MaxAttempts times, plus once for every key that RQ forgot: whatever
\* crashes, late commits and repeated publishes there are.
THEOREM AttemptsAreBounded == Spec => []AttemptsBounded
<1>1. DeliveriesInv => AttemptsBounded
  <2> SUFFICES ASSUME DeliveriesInv, NEW r \in Runs PROVE attempt[r] <= MaxAttempts + expiries
    BY DEF AttemptsBounded
  <2>1. /\ attempt[r] \in Nat /\ expiries \in Nat /\ status[r] \in Status /\ MaxAttempts \in Nat
        /\ Cardinality(Unspent(r)) \in Nat
    BY UnspentFinite, Constants DEF DeliveriesInv, TypeInv, TypeOK
  <2>2. status[r] = "absent" => attempt[r] = 0
    BY DEF DeliveriesInv, AbsentInv
  <2>3. /\ status[r] = "queued" => attempt[r] < MaxAttempts
        /\ status[r] = "running" => attempt[r] + Cardinality(Unspent(r)) <= MaxAttempts + expiries
        /\ status[r] \in Terminal => attempt[r] <= MaxAttempts + expiries
    BY DEF DeliveriesInv, CountInv
  <2> QED
    BY <2>1, <2>2, <2>3 DEF Status, Terminal
<1> QED
  BY <1>1, DeliveriesInit, DeliveriesStep, PTL DEF Spec
-----------------------------------------------------------------------------
(* Who may end a lease.                                                      *)

\* A running run has an owner.
OwnedInv == \A r \in Runs : status[r] = "running" => owner[r] \in Workers

LEMMA OwnedStep ==
  ASSUME TypeInv, OwnedInv, [Next]_vars
  PROVE  OwnedInv'
<1>0. TypeOK /\ JobHeld
  BY DEF TypeInv
<1>1. ASSUME UNCHANGED <<status, owner>> PROVE OwnedInv'
  BY <1>1 DEF OwnedInv
<1>2. ASSUME NEW r \in Runs, CreateRun(r) PROVE OwnedInv'
  BY <1>0, <1>2 DEF CreateRun, OwnedInv, TypeOK
<1>3. ASSUME NEW w \in Workers, NEW a \in Ages, Claim(w, a) PROVE OwnedInv'
  BY <1>0, <1>3 DEF Claim, OwnedInv, TypeOK
<1>4. ASSUME NEW w \in Workers, NEW a \in Ages, FinishCompleted(w, a) \/ FinishFailed(w, a)
      PROVE  OwnedInv'
  <2>1. \A r \in Runs \ {RunOf(w)} : status'[r] = status[r] /\ owner'[r] = owner[r]
    BY <1>0, <1>4 DEF FinishCompleted, FinishFailed, FinishAs, TypeOK
  <2>2. RunOf(w) \in Runs => status'[RunOf(w)] # "running"
    BY <1>0, <1>4 DEF FinishCompleted, FinishFailed, FinishAs, TypeOK
  <2> QED
    BY <2>1, <2>2 DEF OwnedInv
<1>5. ASSUME NEW a \in Ages, Sweep(a) PROVE OwnedInv'
  <2>1. \A r \in Runs : status'[r] = "running" => status[r] = "running" /\ owner'[r] = owner[r]
    BY <1>0, <1>5 DEF Sweep, TypeOK
  <2> QED
    BY <2>1 DEF OwnedInv
<1>6. ASSUME NEW w \in Workers, WorkerProcess(w),
             ~ \E a \in Ages : Claim(w, a) \/ FinishCompleted(w, a) \/ FinishFailed(w, a)
      PROVE  OwnedInv'
  <2>1. UNCHANGED <<status, owner>>
    BY <1>6 DEF WorkerProcess, MainThread, Pop, ClaimRefused, Start, StartRefused, AgentStep,
         AgentStepRefused, FinishRefused, Renew, AgentRaises, Return, RenewStops, WorkerCrash, rows
  <2> QED
    BY <1>1, <2>1
<1>7. CASE Dispatcher \/ (\E j \in known : KeyExpires(j)) \/ Tick \/ UNCHANGED vars
  <2>1. UNCHANGED <<status, owner>>
    BY <1>7 DEF Dispatcher, DispatchSelect, DispatchPublish, DispatchPostpone, DispatchMark,
         DispatchCommit, DispatchCrash, KeyExpires, Tick, vars, rows
  <2> QED
    BY <1>1, <2>1
<1> QED
  BY <1>2, <1>3, <1>4, <1>5, <1>6, <1>7 DEF Next

\* One step, one run: a lease that has not run out ends by its owner's finish only.
EndedByOwner(r) ==
    status[r] = "running" /\ lease[r] >= 0 /\ (owner'[r] # owner[r] \/ attempt'[r] # attempt[r])
      => \E w \in Workers : /\ w = owner[r] /\ Gen(w) = attempt[r]
                             /\ worker[w].phase \in {"agent", "failing"}
                             /\ worker'[w].phase = "returning"

LEMMA LeaseStep ==
  ASSUME TypeInv, OwnedInv, [Next]_vars, NEW r \in Runs
  PROVE  EndedByOwner(r)
<1>0. TypeOK /\ JobHeld /\ lease[r] \in Int /\ Grace \in Nat
  BY Constants DEF TypeInv, TypeOK
<1>1. ASSUME owner'[r] = owner[r], attempt'[r] = attempt[r] PROVE EndedByOwner(r)
  BY <1>1 DEF EndedByOwner
<1>2. ASSUME ~(status[r] = "running" /\ lease[r] >= 0) PROVE EndedByOwner(r)
  BY <1>2 DEF EndedByOwner
<1>3. ASSUME NEW w \in Workers, NEW a \in Ages, Claim(w, a) PROVE EndedByOwner(r)
  <2>1. CASE RunOf(w) = r
    <3>1. Claimable(r, a) /\ a \in Nat
      BY <1>3, <2>1, Constants DEF Claim
    <3>2. status[r] = "running" => owner[r] # NoWorker
      BY NullsAssumption DEF OwnedInv
    <3>3. ~(status[r] = "running" /\ lease[r] >= 0)
      BY <1>0, <3>1, <3>2 DEF Claimable, LeaseExpired
    <3> QED
      BY <1>2, <3>3
  <2>2. CASE RunOf(w) # r
    BY <1>0, <1>1, <1>3, <2>2 DEF Claim, TypeOK
  <2> QED
    BY <2>1, <2>2
<1>4. ASSUME NEW w \in Workers, NEW a \in Ages, FinishCompleted(w, a) \/ FinishFailed(w, a)
      PROVE  EndedByOwner(r)
  <2>1. /\ attempt' = attempt /\ owner' = [owner EXCEPT ![RunOf(w)] = NoWorker]
        /\ owner[RunOf(w)] = w /\ attempt[RunOf(w)] = Gen(w)
        /\ worker[w].phase \in {"agent", "failing"}
    BY <1>4 DEF FinishCompleted, FinishFailed, FinishAs, Fenced, FenceHolds, InTx
  <2>2. worker'[w].phase = "returning"
    <3>1. worker' = [worker EXCEPT ![w] = [worker[w] EXCEPT !.phase = "returning", !.since = 0]]
      BY <1>4 DEF FinishCompleted, FinishFailed, FinishAs
    <3>2. worker \in [Workers -> Worker] /\ worker[w] \in Worker
      BY <1>0 DEF TypeOK
    <3> QED
      BY <3>1, <3>2 DEF Worker
  <2>3. CASE RunOf(w) = r
    BY <2>1, <2>2, <2>3 DEF EndedByOwner
  <2>4. CASE RunOf(w) # r
    BY <1>0, <1>1, <2>1, <2>4 DEF TypeOK
  <2> QED
    BY <2>3, <2>4
<1>5. ASSUME NEW a \in Ages, Sweep(a) PROVE EndedByOwner(r)
  <2>1. attempt' = attempt /\ a \in Nat
    BY <1>5, Constants DEF Sweep
  <2>2. CASE LeaseSwept(r, a)
    <3>1. ~(lease[r] >= 0)
      BY <1>0, <2>1, <2>2 DEF LeaseSwept
    <3> QED
      BY <1>2, <3>1
  <2>3. CASE ~LeaseSwept(r, a)
    <3>1. owner'[r] = owner[r]
      BY <1>5, <2>3 DEF Sweep
    <3> QED
      BY <1>1, <2>1, <3>1
  <2> QED
    BY <2>2, <2>3
<1>6. ASSUME NEW w \in Workers, WorkerProcess(w),
             ~ \E a \in Ages : Claim(w, a) \/ FinishCompleted(w, a) \/ FinishFailed(w, a)
      PROVE  EndedByOwner(r)
  <2>1. UNCHANGED <<owner, attempt>>
    BY <1>6 DEF WorkerProcess, MainThread, Pop, ClaimRefused, Start, StartRefused, AgentStep,
         AgentStepRefused, FinishRefused, Renew, AgentRaises, Return, RenewStops, WorkerCrash, rows
  <2> QED
    BY <1>1, <2>1
<1>7. CASE (\E s \in Runs : CreateRun(s)) \/ Dispatcher \/ (\E j \in known : KeyExpires(j)) \/ Tick
           \/ UNCHANGED vars
  <2>1. UNCHANGED <<owner, attempt>>
    BY <1>7 DEF CreateRun, Dispatcher, DispatchSelect, DispatchPublish, DispatchPostpone,
         DispatchMark, DispatchCommit, DispatchCrash, KeyExpires, Tick, vars, rows
  <2> QED
    BY <1>1, <2>1
<1> QED
  BY <1>3, <1>4, <1>5, <1>6, <1>7 DEF Next

\* Whatever old now() a transaction carries, a claim, a finish or a sweep that ends a
\* lease which has not run out in the present is the finish of its owner.
THEOREM LeasesAreRespected == Spec => LeaseRespected
<1>1. Init => TypeInv /\ OwnedInv
  <2> SUFFICES ASSUME Init PROVE TypeInv /\ OwnedInv
    OBVIOUS
  <2> QED
    BY TypeInit DEF Init, OwnedInv
<1>2. TypeInv /\ OwnedInv /\ [Next]_vars => (TypeInv /\ OwnedInv)'
  BY TypeStep, OwnedStep
<1>3. TypeInv /\ OwnedInv /\ [Next]_vars
        => [\A r \in Runs :
              status[r] = "running" /\ lease[r] >= 0
                  /\ (owner'[r] # owner[r] \/ attempt'[r] # attempt[r])
                => \E w \in Workers : /\ w = owner[r] /\ Gen(w) = attempt[r]
                                       /\ worker[w].phase \in {"agent", "failing"}
                                       /\ worker'[w].phase = "returning"]_vars
  BY LeaseStep DEF EndedByOwner
<1> QED
  BY <1>1, <1>2, <1>3, PTL DEF Spec, LeaseRespected
-----------------------------------------------------------------------------
(* The contract of a run, step by step.                                      *)

\* A delivery that a worker has popped and not acted on is one its run can still be claimed with.
LEMMA PoppedIsUnspent ==
  ASSUME TypeInv, SeenInv, DeliveryInv, NEW w \in Workers, worker[w].phase = "popped"
  PROVE  /\ RunOf(w) \in Runs /\ Cardinality(Unspent(RunOf(w))) >= 1
         /\ outbox[RunOf(w)] # <<>>
<1>1. worker[w].job \in Job
  BY DEF TypeInv, JobHeld
<1>2. PICK r \in Runs, n \in Nat : worker[w].job = <<r, n>>
  BY <1>1 DEF Job
<1>3. RunOf(w) = r /\ <<r, n>> \in known /\ <<r, n>> # NoJob
  BY <1>2, NullsAssumption DEF RunOf, DeliveryInv
<1>4. n \in 1..Len(outbox[r])
  BY <1>3 DEF SeenInv, Seen
<1>5. n \in Unspent(r)
  BY <1>2, <1>4 DEF Unspent, Popped
<1>6. IsFiniteSet(Unspent(r)) /\ Cardinality(Unspent(r)) \in Nat
  BY UnspentFinite DEF TypeInv
<1>7. Cardinality({}) + 1 <= Cardinality(Unspent(r))
  <2>1. Cardinality(Unspent(r) \ {n}) = Cardinality(Unspent(r)) - 1 /\ IsFiniteSet(Unspent(r) \ {n})
    BY <1>5, <1>6, FS_RemoveElement
  <2>2. Cardinality(Unspent(r) \ {n}) \in Nat
    BY <2>1, FS_CardinalityType
  <2> QED
    BY <1>6, <2>1, <2>2, FS_EmptySet
<1>8. outbox[r] # <<>>
  BY <1>4
<1> QED
  BY <1>3, <1>6, <1>7, <1>8, FS_EmptySet

LEMMA ContractStep ==
  ASSUME MaxExpiries = 0, DeliveriesInv, [Next]_vars
  PROVE  [Contract!Next]_(Contract!vars)
<1>0. TypeInv /\ TypeOK /\ JobHeld /\ FreeInv /\ SeenInv /\ DeliveryInv /\ CountInv
  BY DEF DeliveriesInv, TypeInv
<1>1. expiries = 0
  BY <1>0 DEF TypeOK
<1>2. ASSUME UNCHANGED <<status, attempt, lost>> PROVE [Contract!Next]_(Contract!vars)
  BY <1>2 DEF Contract!vars
\* No delivery is left for a run that is running or over.
<1>3. ASSUME NEW w \in Workers, worker[w].phase = "popped"
      PROVE  /\ RunOf(w) \in Runs /\ status[RunOf(w)] = "queued"
             /\ attempt[RunOf(w)] < MaxAttempts
  <2>1. RunOf(w) \in Runs /\ Cardinality(Unspent(RunOf(w))) >= 1 /\ outbox[RunOf(w)] # <<>>
    BY <1>0, <1>3, PoppedIsUnspent
  <2>2. Cardinality(Unspent(RunOf(w))) \in Nat
    BY <1>0, <2>1, UnspentFinite
  <2>3. status[RunOf(w)] \in Status /\ status[RunOf(w)] # "absent"
    BY <1>0, <2>1 DEF TypeOK, FreeInv
  <2>4. status[RunOf(w)] \notin {"running"} \cup Terminal
    BY <1>0, <1>1, <2>1, <2>2 DEF CountInv
  <2> QED
    BY <1>0, <2>1, <2>3, <2>4 DEF CountInv, Status, Terminal
<1>4. ASSUME NEW r \in Runs, CreateRun(r) PROVE Contract!Next
  <2>1. Contract!Submit(r)
    BY <1>4 DEF CreateRun, Contract!Submit
  <2> QED
    BY <2>1 DEF Contract!Next
<1>5. ASSUME NEW w \in Workers, NEW a \in Ages, Claim(w, a) PROVE Contract!Next
  <2>1. Contract!Execute(RunOf(w))
    BY <1>3, <1>5 DEF Claim, InTx, NextGen, Contract!Execute
  <2> QED
    BY <1>3, <1>5, <2>1 DEF Contract!Next, Claim, InTx
<1>6. ASSUME NEW w \in Workers, NEW a \in Ages, FinishCompleted(w, a) \/ FinishFailed(w, a)
      PROVE  Contract!Next
  <2>1. RunOf(w) \in Runs
    BY <1>0, <1>6 DEF FinishCompleted, FinishFailed, FinishAs, InTx, JobHeld, RunOf, Job
  <2>2. \E outcome \in {"completed", "failed"} : Contract!End(RunOf(w), outcome)
    BY <1>6 DEF FinishCompleted, FinishFailed, FinishAs, Fenced, FenceHolds, Contract!End
  <2> QED
    BY <2>1, <2>2 DEF Contract!Next, Contract!Leave
<1>7. ASSUME NEW a \in Ages, Sweep(a) PROVE Contract!Next
  <2> DEFINE expired == {r \in Runs : status[r] = "running" /\ LeaseSwept(r, a) /\ Unlocked(r)}
  <2>1. PICK r \in Runs : r \in expired
    BY <1>7 DEF Sweep
  <2>2. \A s \in Runs : Spent(s) <=> ~(attempt[s] < MaxAttempts)
    BY <1>0, Constants DEF Spent, TypeOK
  <2>3. Contract!GiveUp(expired)
    BY <1>7, <2>2 DEF Sweep, Contract!GiveUp
  <2>4. expired \in SUBSET Runs
    OBVIOUS
  <2> QED
    BY <2>1, <2>3, <2>4 DEF Contract!Next, Contract!Leave
<1>8. ASSUME NEW w \in Workers, WorkerCrash(w) PROVE [Contract!Next]_(Contract!vars)
  <2>1. CASE worker[w].phase = "popped"
    <3>1. Contract!Lose(RunOf(w))
      BY <1>3, <1>8, <2>1 DEF WorkerCrash, rows, Contract!Lose
    <3> QED
      BY <1>3, <2>1, <3>1 DEF Contract!Next
  <2>2. CASE worker[w].phase # "popped"
    BY <1>2, <1>8, <2>2 DEF WorkerCrash, rows
  <2> QED
    BY <2>1, <2>2
<1>9. ASSUME NEW w \in Workers, WorkerProcess(w), ~WorkerCrash(w),
             ~ \E a \in Ages : Claim(w, a) \/ FinishCompleted(w, a) \/ FinishFailed(w, a)
      PROVE  [Contract!Next]_(Contract!vars)
  <2>1. UNCHANGED <<status, attempt, lost>>
    BY <1>9 DEF WorkerProcess, MainThread, Pop, ClaimRefused, Start, StartRefused, AgentStep,
         AgentStepRefused, FinishRefused, Renew, AgentRaises, Return, RenewStops, rows
  <2> QED
    BY <1>2, <2>1
<1>10. CASE Dispatcher \/ (\E j \in known : KeyExpires(j)) \/ Tick \/ UNCHANGED vars
  <2>1. UNCHANGED <<status, attempt, lost>>
    BY <1>10 DEF Dispatcher, DispatchSelect, DispatchPublish, DispatchPostpone, DispatchMark,
         DispatchCommit, DispatchCrash, KeyExpires, Tick, vars, rows
  <2> QED
    BY <1>2, <2>1
<1> QED
  BY <1>4, <1>5, <1>6, <1>7, <1>8, <1>9, <1>10 DEF Next

\* As long as RQ recognises every delivery it has seen, each step of the machinery is one the
\* contract allows, or one it does not see: no run is executed without an attempt left, none
\* is claimed while another generation runs it, and none leaves an outcome.  (That it is
\* executed in the end, the rest of the contract, is liveness and TLC's part.)
THEOREM ContractIsKept ==
  ASSUME MaxExpiries = 0
  PROVE  Spec => Contract!Init /\ [][Contract!Next]_(Contract!vars)
<1>1. Init => Contract!Init
  BY DEF Init, Contract!Init
<1>2. DeliveriesInv /\ [Next]_vars => [Contract!Next]_(Contract!vars)
  BY ContractStep
<1> QED
  BY <1>1, <1>2, DeliveriesInit, DeliveriesStep, PTL DEF Spec
=============================================================================
