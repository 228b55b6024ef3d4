------------------------------ MODULE ChaosGate ------------------------------
(***************************************************************************)
(* The M3 gate: a verifier injects faults into the running system and says *)
(* in gate_m3.json whether it withstood them.  A script moves the services *)
(* to a database and a Redis of the gate's own and launches the verifier;  *)
(* its trap moves them back.  The verifier kills the worker of a run that  *)
(* has used a tool (EXP-1), has the dispatcher die between publishing and  *)
(* committing (EXP-2), stops Redis while it submits runs (EXP-3), has the  *)
(* proxy inject 429s and timeouts (EXP-4), compares one worker with four   *)
(* (EXP-5) and follows event streams (EXP-6).  It sees the system through  *)
(* separate reads of PostgreSQL, Redis, Docker and the API, while the      *)
(* system goes on.                                                         *)
(*                                                                         *)
(* What a run does is in RunLifecycle and BudgetTools: here claiming and   *)
(* starting are one step, a worker that lives renews its lease, and a run  *)
(* writes at most once.  Of a deadline the model keeps that it may pass;   *)
(* where two of them are set against each other, see Watched and RowLate.  *)
(***************************************************************************)
EXTENDS Naturals, FiniteSets

CONSTANTS
    Trials,       \* EXPERIMENT_SIZES["worker_crashes"]
    Candidates,   \* the runs EXP-1 may spend on them, 15
    Outage,       \* EXPERIMENT_SIZES["redis_outage_runs"]
    Batch,        \* runs of an arm of EXP-4 and EXP-5, and of EXP-6
    MaxAttempts,  \* settings.max_attempts
    MaxFaults     \* bound: faults the verifier did not order

ASSUME SizesAssumption ==
    /\ {Trials, Candidates, Outage, Batch, MaxAttempts} \subseteq Nat \ {0}
    /\ Trials <= Candidates /\ MaxFaults \in Nat

\* The stages of M3Verifier.run: an experiment, or an arm of one.
Stages == {"crash", "dispatch", "outage", "normal", "429", "timeout", "one", "four", "sse"}
Rank(s) == CASE s = "crash" -> 1 [] s = "dispatch" -> 2 [] s = "outage" -> 3
             [] s = "normal" -> 4 [] s = "429" -> 5 [] s = "timeout" -> 6
             [] s = "one" -> 7 [] s = "four" -> 8 [] s = "sse" -> 9 [] s = "end" -> 10
NextStage(s) == CHOOSE t \in Stages \cup {"end"} : Rank(t) = Rank(s) + 1

\* The last stage of each of EXP-1 to EXP-6.
Experiments == {"crash", "dispatch", "outage", "timeout", "four", "sse"}

Count(s) == CASE s = "crash" -> Candidates [] s = "dispatch" -> 1
              [] s = "outage" -> Outage [] OTHER -> Batch
Runs == UNION {{s} \X (1..Count(s)) : s \in Stages}

VARIABLES
    plane,       \* the database each service is on
    redis,       \* is Redis up
    fleet,       \* the workers: how many, and whether they pause after a write
    dispatcher,  \* the dispatcher's container, its crash switch and its restart policy
    marker,      \* dispatcher-after-publish.once exists
    proxy,       \* the chaos proxy: stopped, clean, or injecting 429s or timeouts
    run,         \* rows and deliveries of the verifier's runs
    script,      \* where run_verify_m3_home5090.sh is
    v,           \* the verifier
    report,      \* what is in the artifact directory
    stray,       \* a verifier has outlived its script
    faults

services == <<plane, redis, fleet, dispatcher, marker, proxy>>
gate == <<script, v, report, stray>>
vars == <<services, run, gate, faults>>

-----------------------------------------------------------------------------
(* The system *)

Services == {"api", "dispatcher", "worker", "sweeper"}
Moved(moved, db) == [s \in Services |-> IF s \in moved THEN db ELSE plane[s]]
On(service, k) == plane[service] = run[k].home

\* docker compose up --force-recreate: a container with the switches given, and what
\* the old one was doing is gone: the dispatcher's open transaction, the work horses.
Fresh(crash) == [up |-> TRUE, crash |-> crash, restart |-> TRUE]
RolledBack(f) == [k \in Runs |-> IF f[k].row = "published" THEN [f[k] EXCEPT !.row = "pending"] ELSE f[k]]
Dead(f) == [k \in Runs |-> [f[k] EXCEPT !.live = FALSE, !.paused = FALSE]]

Live == {k \in Runs : run[k].live}
Ended(k) == run[k].status \in {"completed", "failed"}

\* POST /runs: the run and its outbox row, in the database the API is on; dark, if
\* Redis was down.
Absent == [home |-> "none", status |-> "absent", gen |-> 0, live |-> FALSE, paused |-> FALSE,
           tool |-> FALSE, audits |-> 0, retried |-> FALSE, row |-> "none", known |-> FALSE,
           waiting |-> FALSE, dark |-> FALSE, orphan |-> FALSE]
Posted == [Absent EXCEPT !.home = plane["api"], !.status = "queued", !.row = "pending",
                         !.dark = ~redis]

\* dispatch_batch publishes a row; a delivery Redis knows is not put in the queue
\* again.  crash_after_publish_once then dies, once per marker: an orphan's publisher
\* has died.
Publish(k) ==
    LET sent == [run[k] EXCEPT !.waiting = @ \/ ~run[k].known, !.known = TRUE]
        dies == dispatcher.crash /\ ~marker
    IN
    /\ dispatcher.up /\ redis /\ run[k].row = "pending" /\ On("dispatcher", k)
    /\ run' = IF dies THEN RolledBack([run EXCEPT ![k] = [sent EXCEPT !.orphan = TRUE]])
                      ELSE [run EXCEPT ![k] = [sent EXCEPT !.row = "published"]]
    /\ dispatcher' = IF dies THEN [dispatcher EXCEPT !.up = FALSE] ELSE dispatcher
    /\ marker' = (marker \/ dies)
    /\ UNCHANGED <<plane, redis, fleet, proxy, gate, faults>>

\* job.status = "dispatched" and run.enqueued, for the batch.  That the event locks its
\* run until here is left out: what waits for it may as well have come before.
Commit ==
    /\ \E k \in Runs : run[k].row = "published"
    /\ run' = [k \in Runs |-> IF run[k].row = "published"
                              THEN [run[k] EXCEPT !.row = "dispatched"] ELSE run[k]]
    /\ UNCHANGED <<services, gate, faults>>

\* restart: unless-stopped
DispatcherRestarts ==
    /\ ~dispatcher.up /\ dispatcher.restart
    /\ dispatcher' = [dispatcher EXCEPT !.up = TRUE]
    /\ UNCHANGED <<plane, redis, fleet, marker, proxy, run, gate, faults>>

\* A worker pops a delivery and claims the run; a run that is not queued is refused.
Claim(k) ==
    /\ redis /\ run[k].waiting /\ On("worker", k) /\ Cardinality(Live) < fleet.size
    /\ run' = [run EXCEPT ![k] =
          IF run[k].status = "queued"
          THEN [@ EXCEPT !.waiting = FALSE, !.status = "running", !.gen = run[k].gen + 1, !.live = TRUE]
          ELSE [@ EXCEPT !.waiting = FALSE]]
    /\ UNCHANGED <<services, gate, faults>>

\* run_agent: only the prompts of EXP-1 ask for a write, and a model may use another
\* tool, once or more, before it does.  After a write the first generation sleeps if its
\* worker was started with the pause.
UseTool(k) ==
    /\ run[k].live /\ ~run[k].paused /\ k[1] = "crash"
    /\ \E writes \in BOOLEAN :
         run' = [run EXCEPT ![k] = [@ EXCEPT !.tool = TRUE,
                    !.audits = IF writes THEN 1 ELSE run[k].audits,
                    !.paused = writes /\ fleet.pause /\ run[k].gen = 1]]
    /\ UNCHANGED <<services, gate, faults>>

\* The pause of 120 seconds outlasts the 90 for which the verifier watches the run.
Watched(k) == v.pc \in {"watch", "kill"} /\ k = <<v.stage, v.n>>
Resume(k) ==
    /\ run[k].paused /\ ~Watched(k)
    /\ run' = [run EXCEPT ![k].paused = FALSE]
    /\ UNCHANGED <<services, gate, faults>>

\* A model call of an arm with faults: FaultSchedule.decide says 429 or timeout, and the
\* client tries again.
MeetFault(k) ==
    /\ run[k].live /\ plane["worker"] = "m3" /\ proxy \in {"429", "timeout"}
    /\ ~run[k].retried /\ run' = [run EXCEPT ![k].retried = TRUE]
    /\ UNCHANGED <<services, gate, faults>>

\* Only EXP-1 asks how a run ended.
Outcomes(k) == IF k[1] = "crash" THEN {"completed", "failed"} ELSE {"completed"}
End(k) ==
    /\ run[k].live /\ ~run[k].paused
    /\ \E outcome \in Outcomes(k) :
         run' = [run EXCEPT ![k].status = outcome, ![k].live = FALSE]
    /\ UNCHANGED <<services, gate, faults>>

\* The sweeper requeues a run whose worker is dead, with a row of its own, or buries it.
Sweep(k) ==
    /\ run[k].status = "running" /\ ~run[k].live /\ On("sweeper", k)
    /\ run' = [run EXCEPT ![k] =
          IF run[k].gen < MaxAttempts
          THEN [@ EXCEPT !.status = "queued", !.row = "pending", !.known = FALSE]
          ELSE [@ EXCEPT !.status = "failed"]]
    /\ UNCHANGED <<services, gate, faults>>

\* A work horse, or the dispatcher, dies by itself, of its memory limit for instance.
HorseDies(k) ==
    /\ run[k].live /\ faults < MaxFaults /\ faults' = faults + 1
    /\ run' = [run EXCEPT ![k].live = FALSE, ![k].paused = FALSE]
    /\ UNCHANGED <<services, gate>>

DispatcherDies ==
    /\ dispatcher.up /\ faults < MaxFaults /\ faults' = faults + 1
    /\ dispatcher' = [dispatcher EXCEPT !.up = FALSE] /\ run' = RolledBack(run)
    /\ UNCHANGED <<plane, redis, fleet, marker, proxy, gate>>

System ==
    \/ Commit \/ DispatcherRestarts \/ DispatcherDies
    \/ \E k \in Runs : \/ Publish(k) \/ Claim(k) \/ UseTool(k) \/ Resume(k)
                       \/ MeetFault(k) \/ End(k) \/ Sweep(k) \/ HorseDies(k)

-----------------------------------------------------------------------------
(* The verifier: verify_m3.py *)

At(pc) == v.pc = pc
To(pc) == v' = [v EXCEPT !.pc = pc]
InM3(k) == run[k].home = "m3"
Own == {<<v.stage, i>> : i \in 1..v.n}
Row(k) == IF InM3(k) THEN run[k].row ELSE "none"
PendingOutbox == {k \in Runs : Row(k) \in {"pending", "published"}}

NoVerifier == [pc |-> "off", stage |-> "crash", n |-> 0, trials |-> {}, passed |-> {},
               seen |-> {}, exited |-> FALSE, pending |-> FALSE, why |-> "none"]

\* Whatever raises ends the verifier, with a failure.json.
Fail(why) == /\ v' = [NoVerifier EXCEPT !.why = why, !.exited = v.exited]
             /\ report' = report \cup {"failure"}
Require(condition, pc) ==
    IF condition THEN To(pc) /\ UNCHANGED report ELSE Fail("none")

\* scale_workers, configure_dispatcher: a container of the verifier's own environment
\* in the place of whichever there is.
ScaleWorkers(size, pause) ==
    /\ fleet' = [size |-> size, pause |-> pause] /\ run' = Dead(run)
    /\ plane' = Moved({"worker"}, "m3")
    /\ UNCHANGED <<redis, dispatcher, marker, proxy>>

\* M3Verifier.run: its own database is empty and the ordinary one has no run of a gate.
Untouched == \A k \in Runs : run[k].home = "none"
Begin ==
    /\ At("begin") /\ Require(Untouched, "quiet")
    /\ UNCHANGED <<services, run, script, stray, faults>>

\* ensure_quiescent, before each stage and at the end: three reads, the first and the
\* last of PostgreSQL, the second of Redis.
NoActiveRun_Assumed == TRUE
NoActiveRun == \A k \in Runs : InM3(k) => Ended(k)
Quiet ==
    /\ \/ At("quiet") /\ Require(NoActiveRun, "queue")
       \/ At("queue") /\ Require(redis /\ \A k \in Runs : InM3(k) => ~run[k].waiting, "outbox")
       \/ At("outbox") /\ Require(PendingOutbox = {},
                                  IF v.stage = "end" THEN "leaked" ELSE "setup")
    /\ UNCHANGED <<services, run, script, stray, faults>>

\* The switches of a stage: EXP-2 arms the dispatcher's crash, takes away the marker of
\* an earlier one and the restart policy, EXP-3 stops Redis, EXP-4 sets fault rates.
\* The containers replaced were idle, and their database is the verifier's.  What EXP-4
\* resets at its end, the proxy, the next stage resets here.
Setup ==
    LET s == v.stage IN
    /\ At("setup") /\ To(IF s = "crash" THEN "candidate" ELSE "post")
    /\ run' = IF s \in {"crash", "dispatch"} THEN run ELSE Dead(run)
    /\ fleet' = IF s \in {"crash", "dispatch"} THEN fleet
                ELSE [size |-> IF s \in {"four", "sse"} THEN 4 ELSE 1, pause |-> FALSE]
    /\ plane' = Moved(CASE s = "crash" -> {} [] s = "dispatch" -> {"dispatcher"}
                        [] s = "outage" -> {"worker", "dispatcher"} [] OTHER -> {"worker"}, "m3")
    /\ proxy' = CASE s = "dispatch" -> proxy [] s \in {"429", "timeout"} -> s [] OTHER -> "clean"
    /\ dispatcher' = CASE s = "dispatch" -> [Fresh(TRUE) EXCEPT !.restart = FALSE]
                       [] s = "outage" -> Fresh(FALSE) [] OTHER -> dispatcher
    /\ marker' = (marker /\ s # "dispatch")
    /\ redis' = (redis /\ s # "outage")
    /\ UNCHANGED <<script, report, stray, faults>>

\* create_run and create_batch post to the API, wherever it is by now.
AfterPost(s) == CASE s = "crash" -> "watch" [] s = "dispatch" -> "await_crash"
                  [] s = "outage" -> "observe" [] s = "sse" -> "stream" [] OTHER -> "wait"
Post ==
    LET k == <<v.stage, v.n + 1>> IN
    /\ At("post") /\ run' = [run EXCEPT ![k] = Posted]
    /\ v' = [v EXCEPT !.n = @ + 1,
                      !.pc = IF v.stage = "crash" \/ k[2] = Count(v.stage)
                             THEN AfterPost(v.stage) ELSE "post"]
    /\ UNCHANGED <<services, script, report, stray, faults>>

\* wait_runs asks the API; a run it does not know, or one late, ends the verifier, and so
\* does one that run_records does not find in the verifier's database.
Awaited == IF v.stage = "crash" THEN {<<"crash", v.n>>} ELSE Own
AfterWait(s) == CASE s = "crash" -> "record" [] s = "dispatch" -> "row" [] OTHER -> "judge"
Wait ==
    /\ At("wait")
    /\ IF \A k \in Awaited : Ended(k) /\ On("api", k) /\ (InM3(k) \/ v.stage \in {"outage", "sse"})
       THEN To(AfterWait(v.stage)) /\ UNCHANGED report
       ELSE Fail("none")
    /\ UNCHANGED <<services, run, script, stray, faults>>

\* EXP-1.  A candidate gets a worker that pauses after a write ...
MoreCandidates_OneTooMany == Cardinality(v.trials) < Trials /\ v.n <= Candidates
MoreCandidates == Cardinality(v.trials) < Trials /\ v.n < Candidates
Candidate ==
    /\ At("candidate")
    /\ IF MoreCandidates
       THEN ScaleWorkers(1, TRUE) /\ To("post")
       ELSE UNCHANGED <<services, run>> /\ To("judge")
    /\ UNCHANGED <<script, report, stray, faults>>

\* ... is watched until a tool of its has succeeded or, which is no failure, until it
\* has ended or 90 seconds have passed without one ...
Watch ==
    LET k == <<"crash", v.n>> IN
    /\ At("watch")
    /\ \/ InM3(k) /\ run[k].tool /\ To("kill")
       \/ To("candidate")
    /\ UNCHANGED <<services, run, script, report, stray, faults>>

\* ... and then its worker killed, by the id of the container ...
Kill ==
    /\ At("kill") /\ Require(plane["worker"] = "m3", "rescale")
    /\ IF plane["worker"] = "m3"
       THEN run' = Dead(run) /\ fleet' = [fleet EXCEPT !.size = 0]
       ELSE UNCHANGED <<run, fleet>>
    /\ UNCHANGED <<plane, redis, dispatcher, marker, proxy, script, stray, faults>>

Rescale ==
    /\ At("rescale") /\ ScaleWorkers(1, FALSE) /\ To("wait")
    /\ UNCHANGED <<script, report, stray, faults>>

\* ... and when the run has ended it is a trial.
Record ==
    /\ At("record") /\ v' = [v EXCEPT !.trials = @ \cup {v.n}, !.pc = "candidate"]
    /\ UNCHANGED <<services, run, script, report, stray, faults>>

\* EXP-2.  The dispatcher dies, or 30 seconds pass; a container that is gone cannot be
\* inspected ...
AwaitCrash ==
    /\ At("await_crash")
    /\ IF plane["dispatcher"] = "m3"
       THEN /\ \E exited \in {FALSE, marker /\ ~dispatcher.up} :
                 v' = [v EXCEPT !.exited = exited, !.pc = "crash_row"]
            /\ UNCHANGED report
       ELSE Fail("none")
    /\ UNCHANGED <<services, run, script, stray, faults>>

\* ... the row is read, a dispatcher without the switch started ...
ReadRow ==
    /\ At("crash_row")
    /\ v' = [v EXCEPT !.pending = Own \subseteq PendingOutbox, !.pc = "repair"]
    /\ UNCHANGED <<services, run, script, report, stray, faults>>

Repair ==
    /\ At("repair") /\ To("wait")
    /\ dispatcher' = Fresh(FALSE) /\ run' = RolledBack(run)
    /\ plane' = Moved({"dispatcher"}, "m3")
    /\ UNCHANGED <<redis, fleet, marker, proxy, script, report, stray, faults>>

\* ... and, the run ended, the row read again until it is dispatched.  A dispatcher that
\* is there does that within 10 seconds: it polls every second.
RowLate_AtOnce(k) == Row(k) # "dispatched"
RowLate(k) ==
    Row(k) # "dispatched" /\ ~(dispatcher.up /\ redis /\ InM3(k) /\ On("dispatcher", k))
AwaitRow ==
    LET k == <<"dispatch", 1>> IN
    /\ At("row")
    /\ IF RowLate(k) THEN Fail("dispatch")
                     ELSE Row(k) = "dispatched" /\ To("judge") /\ UNCHANGED report
    /\ UNCHANGED <<services, run, script, stray, faults>>

\* EXP-3.  With Redis down: all its runs queued, and nothing else pending ...
Observe ==
    /\ At("observe")
    /\ v' = [v EXCEPT !.pc = "start_redis",
                      !.pending = /\ \A k \in Own : InM3(k) /\ run[k].status = "queued"
                                  /\ Cardinality(PendingOutbox) = Outage]
    /\ UNCHANGED <<services, run, script, report, stray, faults>>

\* ... Redis again, and its append-only file, then a new dispatcher and four workers.
StartRedis ==
    /\ At("start_redis") /\ To("resume") /\ redis' = TRUE
    /\ UNCHANGED <<plane, fleet, dispatcher, marker, proxy, run, script, report, stray, faults>>

Resupply ==
    /\ dispatcher' = Fresh(FALSE) /\ fleet' = [size |-> 4, pause |-> FALSE]
    /\ plane' = Moved({"dispatcher", "worker"}, "m3") /\ run' = Dead(RolledBack(run))
ResumeServices ==
    /\ At("resume") /\ To("wait") /\ Resupply
    /\ UNCHANGED <<redis, marker, proxy, script, report, stray, faults>>

\* EXP-6.  A stream has ended, and with it what the client has received ...
Stream ==
    /\ At("stream")
    /\ \/ /\ \A k \in Own : Ended(k) /\ On("api", k)
          /\ v' = [v EXCEPT !.seen = {k \in Own : Row(k) = "dispatched"}, !.pc = "compare"]
          /\ UNCHANGED report
       \/ (\E k \in Own : ~On("api", k)) /\ Fail("none")
    /\ UNCHANGED <<services, run, script, stray, faults>>

\* ... which is compared with the events the run has by then; its run.enqueued may have
\* been committed in between.
Compare ==
    /\ At("compare")
    /\ Require(/\ \A k \in Own : InM3(k)
               /\ v.seen = {k \in Own : Row(k) = "dispatched"}, "wait")
    /\ UNCHANGED <<services, run, script, stray, faults>>

\* What an experiment has shown: validate_worker_crashes, the conditions of EXP-2 and
\* EXP-3, validate_provider_degradation.  A trial of EXP-1 is as good as its evidence.
GoodTrial(i) == run[<<"crash", i>>].audits = 1 /\ run[<<"crash", i>>].gen >= 2
DispatcherDied_Unseen == v.pending
DispatcherDied == v.exited /\ v.pending
Meets(s) ==
    CASE s = "crash" -> /\ Cardinality(v.trials) = Trials /\ \A i \in v.trials : GoodTrial(i)
                        /\ Cardinality({i \in v.trials : run[<<"crash", i>>].status = "completed"})
                              >= Trials - 1
      [] s = "dispatch" -> DispatcherDied /\ run[<<"dispatch", 1>>].gen = 1
      [] s = "outage" -> v.pending /\ PendingOutbox = {}
      [] s \in {"429", "timeout"} -> \E k \in Own : run[k].retried
      [] OTHER -> TRUE

\* The arm with 429s is judged with the arm with timeouts.  Latencies, rates, alerts and
\* the time a recovery took may be what fails; EXP-2 measures nothing.
Judge ==
    LET s == v.stage
        passed == IF Meets(s) THEN v.passed \cup {s} ELSE v.passed
        good == (s = "429" \/ Meets(s)) /\ (s = "timeout" => "429" \in v.passed)
    IN
    /\ At("judge")
    /\ \/ /\ good
          /\ v' = [v EXCEPT !.stage = NextStage(s), !.n = 0, !.passed = passed, !.seen = {},
                            !.exited = FALSE, !.pending = FALSE,
                            !.pc = IF s = "sse" THEN "reset" ELSE "quiet"]
          /\ UNCHANGED report
       \/ s = "dispatch" /\ ~good /\ Fail("dispatch")
       \/ s # "dispatch" /\ Fail("none")
    /\ UNCHANGED <<services, run, script, stray, faults>>

\* The end of M3Verifier.run: everything as before, quiet, and no run leaked.
Reset ==
    /\ At("reset") /\ To("quiet") /\ proxy' = "clean"
    /\ fleet' = [size |-> 1, pause |-> FALSE] /\ dispatcher' = Fresh(FALSE)
    /\ run' = Dead(RolledBack(run)) /\ plane' = Moved({"worker", "dispatcher"}, "m3")
    /\ UNCHANGED <<redis, marker, script, report, stray, faults>>

Leaked ==
    /\ At("leaked") /\ Require(\A k \in Runs : run[k].home # "normal", "write")
    /\ UNCHANGED <<services, run, script, stray, faults>>

WriteGate ==
    /\ At("write")
    /\ IF Experiments \subseteq v.passed
       THEN v' = NoVerifier /\ report' = report \cup {"gate"}
       ELSE Fail("none")
    /\ UNCHANGED <<services, run, script, stray, faults>>

Verifier ==
    \/ Begin \/ Quiet \/ Setup \/ Post \/ Wait \/ Candidate \/ Watch \/ Kill \/ Rescale \/ Record
    \/ AwaitCrash \/ ReadRow \/ Repair \/ AwaitRow \/ Observe \/ StartRedis \/ ResumeServices
    \/ Stream \/ Compare \/ Judge \/ Reset \/ Leaked \/ WriteGate

\* A request or a command fails.  The submissions of EXP-3 are in a try: its finally
\* starts Redis and the services.
VerifierFails ==
    /\ ~At("off") /\ faults < MaxFaults /\ faults' = faults + 1 /\ Fail("none")
    /\ IF v.stage = "outage" /\ v.pc \in {"post", "observe"}
       THEN redis' = TRUE /\ Resupply /\ UNCHANGED <<marker, proxy>>
       ELSE UNCHANGED <<services, run>>
    /\ UNCHANGED <<script, stray>>

\* The verifier's container is killed: no finally, no report.
VerifierKilled ==
    /\ ~At("off") /\ faults < MaxFaults /\ faults' = faults + 1
    /\ v' = NoVerifier
    /\ UNCHANGED <<services, run, script, report, stray>>

-----------------------------------------------------------------------------
(* The script: run_verify_m3_home5090.sh.  No lock keeps two of them apart; the   *)
(* operator starts one when the verifier of the last has ended.                   *)

InScript(pc) == script = pc
Goto(pc) == script' = pc

Start ==
    /\ script \in {"idle", "cut"} /\ At("off") /\ Goto("prepare")
    /\ UNCHANGED <<services, run, v, report, stray, faults>>

\* The marker of an earlier gate is root's: it goes before the run.  The Redis database
\* of the gate is emptied, the migrations and tests are run.
Prepare ==
    /\ InScript("prepare")
    /\ IF redis
       THEN /\ marker' = FALSE /\ Goto("up")
            /\ run' = [k \in Runs |-> IF InM3(k) THEN [run[k] EXCEPT !.waiting = FALSE, !.known = FALSE]
                                      ELSE run[k]]
       ELSE Goto("restore") /\ UNCHANGED <<marker, run>>
    /\ UNCHANGED <<plane, redis, fleet, dispatcher, proxy, v, report, stray, faults>>

MoveAll(db) ==
    /\ plane' = Moved(Services, db)
    /\ fleet' = [size |-> 1, pause |-> FALSE] /\ dispatcher' = Fresh(FALSE)
    /\ run' = Dead(RolledBack(run))

Up ==
    /\ InScript("up") /\ MoveAll("m3") /\ proxy' = "clean" /\ Goto("launch")
    /\ UNCHANGED <<redis, marker, v, report, stray, faults>>

Launch ==
    /\ InScript("launch") /\ Goto("driving") /\ v' = [NoVerifier EXCEPT !.pc = "begin"]
    /\ UNCHANGED <<services, run, report, stray, faults>>

VerifierEnded ==
    /\ InScript("driving") /\ At("off") /\ Goto("restore")
    /\ UNCHANGED <<services, run, v, report, stray, faults>>

\* A command of the script fails, or a hang-up or an interrupt ends it before the verifier.
ScriptFails ==
    /\ script \in {"prepare", "up", "launch"} /\ faults < MaxFaults /\ faults' = faults + 1
    /\ Goto("restore")
    /\ UNCHANGED <<services, run, v, report, stray>>

\* A hang-up or an interrupt of the script alone: bash runs the trap, and the verifier,
\* in a container of its own, is not told.
Signal ==
    /\ InScript("driving") /\ faults < MaxFaults /\ faults' = faults + 1
    /\ Goto("restore") /\ stray' = (stray \/ ~At("off"))
    /\ UNCHANGED <<services, run, v, report>>

\* The shell is killed: no trap, and the verifier, if there is one, is not told.  A restart
\* of the host is this and the deaths of verifier, dispatcher and work horses.
CutOff ==
    /\ script \notin {"idle", "cut"} /\ faults < MaxFaults /\ faults' = faults + 1
    /\ Goto("cut") /\ stray' = (stray \/ ~At("off"))
    /\ UNCHANGED <<services, run, v, report>>

\* restore_normal_runtime: its commands follow one another at once.
RedisAfter_AsItIs == redis
RedisAfter == TRUE
Restore ==
    /\ InScript("restore") /\ Goto("idle")
    /\ redis' = RedisAfter /\ MoveAll("normal") /\ proxy' = "off"
    /\ UNCHANGED <<marker, v, report, stray, faults>>

Script ==
    \/ Start \/ Prepare \/ Up \/ Launch \/ VerifierEnded \/ ScriptFails \/ Signal
    \/ CutOff \/ Restore

-----------------------------------------------------------------------------
Init ==
    /\ plane = [s \in Services |-> "normal"] /\ redis = TRUE
    /\ fleet = [size |-> 1, pause |-> FALSE] /\ dispatcher = Fresh(FALSE)
    /\ marker \in BOOLEAN /\ proxy = "off"
    /\ run = [k \in Runs |-> Absent]
    /\ script = "idle" /\ v = NoVerifier /\ report = {} /\ stray = FALSE /\ faults = 0

Next == System \/ Verifier \/ VerifierFails \/ VerifierKilled \/ Script
Spec == Init /\ [][Next]_vars

-----------------------------------------------------------------------------
(* Properties *)

Databases == {"normal", "m3"}
VerifierPcs == {"off", "begin", "quiet", "queue", "outbox", "setup", "post", "wait", "candidate",
                "watch", "kill", "rescale", "record", "await_crash", "crash_row", "repair", "row",
                "observe", "start_redis", "resume", "stream", "compare", "judge", "reset",
                "leaked", "write"}
ScriptPcs == {"idle", "prepare", "up", "launch", "driving", "restore", "cut"}

\* The types of the state; EXP-1 spends no more than its candidates and counts no more
\* than its trials, and no run has more attempts than it may.
TypeOK ==
    /\ plane \in [Services -> Databases]
    /\ redis \in BOOLEAN /\ marker \in BOOLEAN /\ stray \in BOOLEAN
    /\ fleet \in [size: {0, 1, 4}, pause: BOOLEAN]
    /\ dispatcher \in [up: BOOLEAN, crash: BOOLEAN, restart: BOOLEAN]
    /\ proxy \in {"off", "clean", "429", "timeout"}
    /\ DOMAIN run = Runs
    /\ \A k \in Runs : run[k] \in
          [home: {"none"} \cup Databases, status: {"absent", "queued", "running", "completed", "failed"},
           gen: 0..MaxAttempts, live: BOOLEAN, paused: BOOLEAN, tool: BOOLEAN, audits: 0..1,
           retried: BOOLEAN, row: {"none", "pending", "published", "dispatched"},
           known: BOOLEAN, waiting: BOOLEAN, dark: BOOLEAN, orphan: BOOLEAN]
    /\ script \in ScriptPcs
    /\ v \in [pc: VerifierPcs, stage: Stages \cup {"end"}, n: 0..Candidates + Outage + Batch,
              trials: SUBSET (1..Candidates), passed: SUBSET Stages, seen: SUBSET Runs,
              exited: BOOLEAN, pending: BOOLEAN, why: {"none", "dispatch"}]
    /\ Cardinality(v.trials) <= Trials
    /\ v.stage # "end" => v.n <= Count(v.stage)
    /\ report \subseteq {"failure", "gate"} /\ faults \in 0..MaxFaults

\* An experiment that passes has seen its fault happen and the system recover: of the
\* runs of EXP-1 enough were taken over by a second worker, with one write each; the run
\* of EXP-2 was published by a dispatcher that died of it, and started once; those of
\* EXP-3 were submitted in the dark; those of EXP-4 were retried in both arms.  When the
\* gate is written all six have passed, and every run has ended, in the gate's own
\* database.
Passed == IF "gate" \in report THEN Experiments \cup {"429"} ELSE v.passed
PassIsEarned ==
    /\ "crash" \in Passed =>
          Cardinality({i \in 1..Candidates : GoodTrial(i) /\ Ended(<<"crash", i>>)}) >= Trials
    /\ "dispatch" \in Passed => run[<<"dispatch", 1>>].orphan /\ run[<<"dispatch", 1>>].gen = 1
    /\ "outage" \in Passed => \A i \in 1..Outage : run[<<"outage", i>>].dark
    /\ \A s \in Passed \cap {"429", "timeout"} : \E i \in 1..Batch : run[<<s, i>>].retried
    /\ "gate" \in report => /\ \A k \in Runs : run[k].home # "normal"
                            /\ \A k \in Runs : k[1] # "crash" => InM3(k) /\ Ended(k)

\* Once a stage has found the system quiet, nothing happens any more to a run of an
\* earlier one: no fault meant for one experiment strikes the evidence of another.
Underway == v.pc \notin {"off", "begin", "quiet", "queue", "outbox", "reset"}
ExperimentsIsolated ==
    [][Underway /\ ~stray => \A k \in Runs : Rank(k[1]) < Rank(v.stage) => run'[k] = run[k]]_vars

\* EXP-2 condemns only a dispatcher that did something wrong: if nothing else broke and
\* the gate failed there, the dispatcher had not died when it should.
DispatcherTrialFair == v.why = "dispatch" /\ faults = 0 => ~v.exited

\* Without a verifier that outlives its script no run of a gate gets into the ordinary
\* database, and after every script the ordinary runtime is what it was: Redis up, every
\* service on the ordinary database, no pause, no crash switch, no proxy.  Not after one
\* that was killed before its trap had run ("cut"): then it is so after the next.
NormalUntouched ==
    ~stray =>
        /\ \A k \in Runs : run[k].home # "normal"
        /\ script = "idle" => /\ redis /\ \A s \in Services : plane[s] = "normal"
                              /\ fleet = [size |-> 1, pause |-> FALSE]
                              /\ ~dispatcher.crash /\ dispatcher.restart /\ proxy = "off"
=============================================================================
