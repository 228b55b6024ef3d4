-------------------------------- MODULE Gate --------------------------------
(***************************************************************************)
(* The M4 gate: what has to happen, in which order and on which services,  *)
(* before gate_m4.json may say PASS.  An operator starts the gate script   *)
(* for a gate id, first as "new", and once a person has reviewed a sample  *)
(* of the trajectories as "resume".  The script moves the one set of       *)
(* services (API, dispatcher, worker, sweeper) from the ordinary database  *)
(* to one of the gate's own, and launches a driver in a container of its   *)
(* own; the driver moves the services on to further databases.  On exit    *)
(* the script's trap moves them back.                                      *)
(*                                                                         *)
(* A signal that ends the script does not reach the driver, which goes on  *)
(* while the trap, and later another script, move the services under it.   *)
(* No lock keeps scripts apart: the operator starts one after the other.   *)
(*                                                                         *)
(* What a run does is the subject of RunLifecycle and Cohort.  Here a run  *)
(* is queued in the database the API was on when it was submitted, and     *)
(* ends if the services are, or come back, on that database.               *)
(***************************************************************************)
EXTENDS Naturals

CONSTANTS
    Gates,       \* gate ids
    Nobody,      \* nobody: a proxy that does not run, a file that does not exist
    Normal,      \* the ordinary database
    Cases,       \* number of cases in the cohort
    Items,       \* number of items in the dataset
    MaxFaults    \* bound: steps that fail for reasons outside the model, signals to
                 \* scripts and restarts of the host

Modes == {"new", "resume"}
Drivers == Gates \X Modes
OwnDatabases == Gates \X {"generation", "test", "live1", "live2"}
Databases == {Normal} \cup OwnDatabases

\* An idempotency key names its run: gate, what the run is for, number.
Purposes == {"cohort", "control", "capture_off", "live1", "live2"}
Count(purpose) == CASE purpose = "cohort" -> Cases
                    [] purpose \in {"live1", "live2"} -> Items
                    [] OTHER -> 1
Keys == UNION {Gates \X {purpose} \X (1..Count(purpose)) : purpose \in Purposes}
KeysFor(g, purposes) == {key \in Keys : key[1] = g /\ key[2] \in purposes}
Home(key) == <<key[1], CASE key[2] \in {"cohort", "control"} -> "generation"
                         [] key[2] = "capture_off" -> "test"
                         [] OTHER -> key[2]>>

ASSUME NamesAssumption == Nobody \notin Gates \cup Drivers /\ Normal \notin OwnDatabases
ASSUME BoundsAssumption == {Cases, Items} \subseteq Nat \ {0} /\ MaxFaults \in Nat

VARIABLES
    plane,     \* the database the services are on
    worker,    \* is the worker's container up
    proxy,     \* the driver whose control token the chaos proxy has, or Nobody
    queued,    \* queued[db]: the runs in db that have not ended
    ended,     \* ended[db]: the runs in db that have
    leftover,  \* the replay databases of Redis that hold keys of finished runs
    script,    \* the gate script
    driver,    \* driver[d]: the driver process of a gate and mode
    files,     \* files[g]: what is in the artifact directory
    review,    \* review[g]: human_review.json
    state,     \* state[g]: the status in gate_state.json
    criteria,  \* criteria[g]: the criteria in gate_m4.json, none without the file
    rows,      \* the gate whose dataset_v1.jsonl is in eval/, or Nobody
    manifest,  \* the gate whose dataset_v1.manifest.json is there, or Nobody
    stray,     \* a driver outlived its script, or a script was cut off in its trap
    faults

services == <<plane, worker, proxy>>
database == <<queued, ended, leftover>>
artifacts == <<files, review, state, criteria, rows, manifest>>
bounds == <<stray, faults>>
vars == <<services, database, script, driver, artifacts, bounds>>

-----------------------------------------------------------------------------
(* Services and databases *)

\* docker compose up --force-recreate api dispatcher worker sweeper
Recreate_WorkerAsItWas(db) == plane' = db /\ UNCHANGED worker
Recreate(db) == plane' = db /\ worker' = TRUE

\* The dispatcher, a worker and if need be the sweeper bring a run to its end.
Execute(key) ==
    /\ worker /\ key \in queued[plane]
    /\ queued' = [queued EXCEPT ![plane] = @ \ {key}]
    /\ ended' = [ended EXCEPT ![plane] = @ \cup {key}]
    /\ UNCHANGED <<services, leftover, script, driver, artifacts, bounds>>

\* RQ's keys of finished jobs expire.
RedisForgets ==
    /\ leftover # {} /\ leftover' = {}
    /\ UNCHANGED <<services, queued, ended, script, driver, artifacts, bounds>>

\* aggregate_gate
Verdict(g) ==
    LET statuses == {criteria[g][name] : name \in DOMAIN criteria[g]}
    IN  CASE "FAIL" \in statuses -> "FAIL"
          [] "FAIL" \notin statuses /\ "PENDING" \in statuses -> "PENDING"
          [] statuses = {"PASS"} -> "PASS"
          [] OTHER -> "none"

-----------------------------------------------------------------------------
(* The driver: python -m scripts.verify_m4 *)

Live(d) == driver[d].pc # "off"
At(d, pc) == driver[d].pc = pc
Key(d) == <<d[1], driver[d].purpose, driver[d].n>>
NormalRuns == <<queued[Normal], ended[Normal]>>

NoDriver == [pc |-> "off", rc |-> "none", purpose |-> "cohort", n |-> 1,
             seen |-> <<{}, {}>>, clean |-> FALSE]
Off(d, rc) == driver' = [driver EXCEPT ![d] = [NoDriver EXCEPT !.rc = rc]]
Goto(d, pc) == driver' = [driver EXCEPT ![d].pc = pc]
ToRun(d, pc, purpose, n) ==
    driver' = [driver EXCEPT ![d].pc = pc, ![d].purpose = purpose, ![d].n = n]
\* A check that ends the driver with an error when it does not hold.
Require(d, condition, pc) == IF condition THEN Goto(d, pc) ELSE Off(d, "failed")

\* run_new and run_cohort: no trace of a trap in the artifact directory yet; the normal
\* database is counted before the first case.
BeginNew(d) ==
    /\ d[2] = "new" /\ At(d, "begin")
    /\ IF files[d[1]] = {"pre_gate"} /\ proxy # Nobody
       THEN driver' = [driver EXCEPT ![d].pc = "submit", ![d].purpose = "cohort", ![d].n = 1,
                                     ![d].seen = NormalRuns]
       ELSE Off(d, "failed")
    /\ UNCHANGED <<services, database, script, artifacts, bounds>>

\* Arm the proxy, which knows the token of one driver only, and post the run to the
\* API, wherever the services are by now.  The capture-off control needs no proxy.
Submit(d) ==
    /\ At(d, "submit")
    /\ IF proxy = d \/ driver[d].purpose = "capture_off"
       THEN /\ queued' = [queued EXCEPT ![plane] = @ \cup {Key(d)}]
            /\ leftover' = leftover \cup {x \in {"live1", "live2"} : plane \in Gates \X {x}}
            /\ Goto(d, IF driver[d].purpose = "control" THEN "capture" ELSE "await")
       ELSE Off(d, "failed") /\ UNCHANGED <<queued, leftover>>
    /\ UNCHANGED <<services, ended, script, artifacts, bounds>>

\* Where the driver looks for its run: GET /runs/{id} in the cohort and in the
\* requeue control, the database it was given in the others.
Watched_ThroughTheApi(d) == plane
Watched(d) == IF driver[d].purpose \in {"cohort", "control"} THEN plane ELSE Home(Key(d))
HasEnded(d) == Key(d) \in ended[Watched(d)]

After(purpose) ==
    CASE purpose = "cohort" -> "manifest"
      [] purpose = "control" -> "test_runtime"
      [] purpose = "capture_off" -> "state"
      [] purpose = "live1" -> "runtime"
      [] purpose = "live2" -> "criteria"

MoreCases_OneTooMany(d) == driver[d].n <= Count(driver[d].purpose)
MoreCases(d) == driver[d].n < Count(driver[d].purpose)

\* The run has ended; the case is disarmed, which takes the proxy; on to the next.
EndRun(d) ==
    LET purpose == driver[d].purpose
    IN  /\ At(d, "await") /\ HasEnded(d)
        /\ IF purpose # "capture_off" /\ proxy # d THEN Off(d, "failed")
           ELSE IF MoreCases(d)
           THEN ToRun(d, "submit", purpose, driver[d].n + 1)
           ELSE ToRun(d, After(purpose), IF purpose = "live1" THEN "live2" ELSE purpose, 1)
        /\ UNCHANGED <<services, database, script, artifacts, bounds>>

\* A wait ends at its deadline: for a run to end, for the first tool turn to be
\* captured, for the sweeper.
TimeOut(d) ==
    /\ \/ At(d, "await") /\ ~HasEnded(d)
       \/ At(d, "capture") \/ At(d, "restart")
    /\ Off(d, "failed")
    /\ UNCHANGED <<services, database, script, artifacts, bounds>>

\* run_cohort: contamination, then cohort_manifest.json.
WriteManifest(d) ==
    /\ At(d, "manifest")
    /\ Require(d, NormalRuns = driver[d].seen, "evidence")
    /\ UNCHANGED <<services, database, script, artifacts, bounds>>

\* Export, normalisation, quarantine and the blank review; every run of the cohort
\* must be in the database of the generation.
WriteEvidence(d) ==
    /\ At(d, "evidence")
    /\ IF \A key \in KeysFor(d[1], {"cohort"}) : key \in ended[Home(key)]
       THEN /\ \E clean \in BOOLEAN :
                 driver' = [driver EXCEPT ![d].pc = "submit", ![d].purpose = "control",
                                          ![d].n = 1, ![d].clean = clean]
            /\ review' = [review EXCEPT ![d[1]] = "blank"]
       ELSE Off(d, "failed") /\ UNCHANGED review
    /\ UNCHANGED <<services, database, script, files, state, criteria, rows, manifest, bounds>>

\* run_requeue_positive_control: the first tool turn of the run is on record, and the
\* run perhaps at its end ...
Capture(d) ==
    /\ At(d, "capture") /\ Key(d) \in queued[Home(Key(d))] \cup ended[Home(Key(d))]
    /\ Goto(d, "stop")
    /\ UNCHANGED <<services, database, script, artifacts, bounds>>

\* ... the worker that compose names now is stopped ...
StopWorker(d) ==
    /\ At(d, "stop") /\ worker' = FALSE /\ Goto(d, "restart")
    /\ UNCHANGED <<plane, proxy, database, script, artifacts, bounds>>

\* ... and, when the sweeper has requeued the run, started again: the same container,
\* which is gone when the services have been moved.
RestartWorker(d) ==
    /\ At(d, "restart") /\ plane = Home(Key(d)) /\ Key(d) \in queued[plane]
    /\ worker' = TRUE /\ Goto(d, "await")
    /\ UNCHANGED <<plane, proxy, database, script, artifacts, bounds>>

\* run_capture_off_control: the services on the test database, without the proxy.
TestRuntime(d) ==
    /\ At(d, "test_runtime")
    /\ Recreate(<<d[1], "test">>) /\ ToRun(d, "submit", "capture_off", 1)
    /\ UNCHANGED <<proxy, database, script, artifacts, bounds>>

WriteState(d) ==
    /\ At(d, "state")
    /\ state' = [state EXCEPT ![d[1]] = "PENDING_HUMAN"] /\ Goto(d, "gate")
    /\ UNCHANGED <<services, database, script, files, review, criteria, rows, manifest, bounds>>

\* Trajectories that were quarantined are a FAIL, and the gate goes on.
WriteGate(d) ==
    /\ At(d, "gate")
    /\ criteria' = [criteria EXCEPT ![d[1]] =
          [evidence |-> IF driver[d].clean THEN "PASS" ELSE "FAIL", human_review |-> "PENDING"]]
    /\ Off(d, "pending")
    /\ UNCHANGED <<services, database, script, files, review, state, rows, manifest, bounds>>

\* validate_resume_identity: its state.  That commit and digests are not the ones of the
\* gate's beginning is one of the checks of DriverFails.
BeginResume(d) ==
    /\ d[2] = "resume" /\ At(d, "begin")
    /\ Require(d, state[d[1]] = "PENDING_HUMAN", "build")
    /\ UNCHANGED <<services, database, script, artifacts, bounds>>

MayBuild_Overwriting(g) == review[g] = "agrees"
MayBuild(g) == review[g] = "agrees" /\ rows = Nobody

\* build_dataset: the review is validated and dataset_v1.jsonl written, in the one
\* directory eval/ and never over another ...
BuildDataset(d) ==
    /\ At(d, "build")
    /\ Require(d, MayBuild(d[1]), "describe")
    /\ rows' = IF MayBuild(d[1]) THEN d[1] ELSE rows
    /\ UNCHANGED <<services, database, script, files, review, state, criteria, manifest, bounds>>

\* ... and then its manifest.
DescribeDataset(d) ==
    /\ At(d, "describe")
    /\ IF manifest = Nobody THEN manifest' = d[1] /\ ToRun(d, "runtime", "live1", 1)
                            ELSE Off(d, "failed") /\ UNCHANGED manifest
    /\ UNCHANGED <<services, database, script, files, review, state, criteria, rows, bounds>>

\* _start_m4_runtime: the services on a replay database.
StartReplay(d) ==
    /\ At(d, "runtime")
    /\ Recreate(<<d[1], driver[d].purpose>>) /\ proxy' = d /\ Goto(d, "quiet")
    /\ UNCHANGED <<database, script, artifacts, bounds>>

AssertQuiescent(d) ==
    /\ At(d, "quiet")
    /\ Require(d, queued[Home(Key(d))] = {} /\ driver[d].purpose \notin leftover, "submit")
    /\ UNCHANGED <<services, database, script, artifacts, bounds>>

\* The end of run_resume: the criteria of "new" but for the review, and those of
\* "resume"; without gate_m4.json there is nothing to start from.
WriteCriteria(d) ==
    /\ At(d, "criteria")
    /\ LET prior == criteria[d[1]]
           final == [name \in (DOMAIN prior) \cup {"human_review", "replay", "restored"} |->
                       IF name = "restored" THEN "PENDING"
                       ELSE IF name \in {"human_review", "replay"} THEN "PASS" ELSE prior[name]]
       IN  /\ Require(d, DOMAIN prior # {}, "pending_restore")
           /\ criteria' = IF DOMAIN prior # {} THEN [criteria EXCEPT ![d[1]] = final] ELSE criteria
    /\ UNCHANGED <<services, database, script, files, review, state, rows, manifest, bounds>>

WritePendingRestore(d) ==
    /\ At(d, "pending_restore")
    /\ state' = [state EXCEPT ![d[1]] = "PENDING_RESTORE"] /\ Off(d, "ok")
    /\ UNCHANGED <<services, database, script, files, review, criteria, rows, manifest, bounds>>

\* Anything else that raises: Langfuse, docker, a parity check, the watchdog's summary.
DriverFails(d) ==
    /\ Live(d) /\ faults < MaxFaults /\ faults' = faults + 1 /\ Off(d, "failed")
    /\ UNCHANGED <<services, database, script, artifacts, stray>>

Drive(d) ==
    \/ BeginNew(d) \/ Submit(d) \/ EndRun(d) \/ TimeOut(d) \/ WriteManifest(d)
    \/ WriteEvidence(d) \/ Capture(d) \/ StopWorker(d) \/ RestartWorker(d) \/ TestRuntime(d)
    \/ WriteState(d) \/ WriteGate(d) \/ BeginResume(d) \/ BuildDataset(d)
    \/ DescribeDataset(d) \/ StartReplay(d) \/ AssertQuiescent(d) \/ WriteCriteria(d)
    \/ WritePendingRestore(d)

-----------------------------------------------------------------------------
(* The script: run_verify_m4_home5090.sh new | resume | --restore-only *)

InScript(pc) == script.pc = pc
Step(pc) == script' = [script EXCEPT !.pc = pc]
NoScript == [pc |-> "idle", mode |-> "restore", gate |-> Nobody,
             finalize |-> FALSE, seen |-> FALSE]
Exit == script' = NoScript
Launched == <<script.gate, script.mode>>

\* new takes a directory with nothing in it, resume a gate with a state and without
\* an earlier resume.  A script that refuses to start still runs its trap.
StartNew(g) ==
    /\ InScript("idle")
    /\ script' = [pc |-> IF files[g] = {} THEN "converge" ELSE "restore",
                  mode |-> "new", gate |-> g, finalize |-> FALSE, seen |-> FALSE]
    /\ files' = IF files[g] = {} THEN [files EXCEPT ![g] = {"pre_gate"}] ELSE files
    /\ UNCHANGED <<services, database, driver, review, state, criteria, rows, manifest, bounds>>

MayResume(g) == state[g] # "none" /\ "pre_resume" \notin files[g]

StartResume(g) ==
    /\ InScript("idle")
    /\ script' = [pc |-> IF MayResume(g) THEN "converge" ELSE "restore",
                  mode |-> "resume", gate |-> g, finalize |-> FALSE, seen |-> FALSE]
    /\ files' = IF MayResume(g) THEN [files EXCEPT ![g] = @ \cup {"pre_resume"}] ELSE files
    /\ UNCHANGED <<services, database, driver, review, state, criteria, rows, manifest, bounds>>

StartRestore(g) ==
    /\ InScript("idle")
    /\ script' = [pc |-> "restore", mode |-> "restore", gate |-> g,
                  finalize |-> FALSE, seen |-> FALSE]
    /\ UNCHANGED <<services, database, driver, artifacts, bounds>>

\* converge_normal_runtime, at the start of a gate and in the trap: first the
\* services, then the proxy.
Converge ==
    /\ InScript("converge") \/ InScript("restore")
    /\ Recreate(Normal)
    /\ Step(IF InScript("converge") THEN "converge_proxy" ELSE "restore_proxy")
    /\ stray' = (stray /\ \E d \in Drivers : Live(d))
    /\ UNCHANGED <<proxy, database, driver, artifacts, faults>>

StopProxy ==
    /\ InScript("converge_proxy") \/ InScript("restore_proxy")
    /\ proxy' = Nobody
    /\ Step(IF InScript("converge_proxy") THEN "prepare" ELSE "inspect")
    /\ UNCHANGED <<plane, worker, database, driver, artifacts, bounds>>

\* new: if the databases are without tables, Redis 12 to 15 flushed, the tests.
Prepare ==
    LET empty == \A db \in OwnDatabases :
                    db[1] = script.gate => queued[db] = {} /\ ended[db] = {}
    IN
    /\ InScript("prepare")
    /\ IF script.mode = "resume" \/ empty THEN Step("launch") ELSE Step("restore")
    /\ leftover' = IF script.mode = "new" /\ empty THEN {} ELSE leftover
    /\ UNCHANGED <<services, queued, ended, driver, artifacts, bounds>>

Launch ==
    /\ InScript("launch")
    /\ Recreate(<<script.gate, "generation">>) /\ proxy' = Launched
    /\ driver' = [driver EXCEPT ![Launched].pc = "begin"]
    /\ Step("driving")
    /\ UNCHANGED <<database, artifacts, bounds>>

DriverEnded ==
    /\ InScript("driving") /\ ~Live(Launched)
    /\ script' = [script EXCEPT !.pc = "restore",
          !.finalize = script.mode = "resume" /\ driver[Launched].rc = "ok"]
    /\ driver' = [driver EXCEPT ![Launched] = NoDriver]
    /\ UNCHANGED <<services, database, artifacts, bounds>>

\* Image builds, migrations and tests may fail.
ScriptFails ==
    /\ InScript("prepare") \/ InScript("launch")
    /\ faults < MaxFaults /\ faults' = faults + 1
    /\ Step("restore")
    /\ UNCHANGED <<services, database, driver, artifacts, stray>>

\* The watchdog at its memory limit, a hang-up, an interrupt of the script alone: the
\* trap runs at once, and the driver is not told.
Signal ==
    /\ script.pc \in {"converge", "converge_proxy", "prepare", "launch", "driving"}
    /\ faults < MaxFaults /\ faults' = faults + 1
    /\ Step("restore")
    /\ stray' = (stray \/ InScript("driving"))
    /\ UNCHANGED <<services, database, driver, artifacts>>

\* The shell is killed, or the whole host restarts: no trap.  Docker starts the
\* services again as they were, and no driver.
CutOff ==
    /\ ~InScript("idle") /\ faults < MaxFaults /\ faults' = faults + 1
    /\ Exit /\ stray' = TRUE
    /\ driver' \in {driver, [d \in Drivers |-> NoDriver]}
    /\ UNCHANGED <<services, database, artifacts>>

\* The rest of the trap: wait for the API, note what the services run on.
Inspect ==
    /\ InScript("inspect")
    /\ files' = IF files[script.gate] # {} \/ script.mode # "restore"
                THEN [files EXCEPT ![script.gate] = @ \cup {"post_restore"}] ELSE files
    /\ \/ Exit
       \/ /\ script.finalize
          /\ script' = [script EXCEPT !.pc = "finalize", !.seen = plane = Normal /\ worker]
    /\ UNCHANGED <<services, database, driver, review, state, criteria, rows, manifest, bounds>>

\* finalize_after_restore: gate_m4.json ...
Restored(g) == [criteria EXCEPT ![g]["restored"] = "PASS"]
Finalize ==
    /\ InScript("finalize")
    /\ LET g == script.gate
           may == state[g] = "PENDING_RESTORE" /\ script.seen
       IN  /\ criteria' = IF may THEN Restored(g) ELSE criteria
           /\ IF may /\ \A name \in DOMAIN criteria[g] : Restored(g)[g][name] = "PASS"
              THEN Step("complete") ELSE Exit
    /\ UNCHANGED <<services, database, driver, files, review, state, rows, manifest, bounds>>

\* ... and then gate_state.json.
Complete ==
    /\ InScript("complete")
    /\ state' = [state EXCEPT ![script.gate] = "COMPLETE"] /\ Exit
    /\ UNCHANGED <<services, database, driver, files, review, criteria, rows, manifest, bounds>>

Script == \/ Converge \/ StopProxy \/ Prepare \/ Launch \/ DriverEnded
          \/ Inspect \/ Finalize \/ Complete

-----------------------------------------------------------------------------
\* The reviewer fills in human_review.json.
Review(g) ==
    /\ review[g] = "blank"
    /\ \E opinion \in {"agrees", "disagrees"} : review' = [review EXCEPT ![g] = opinion]
    /\ UNCHANGED <<services, database, script, driver, files, state, criteria, rows, manifest,
                   bounds>>

Init ==
    /\ plane = Normal /\ worker = TRUE /\ proxy = Nobody
    /\ queued = [db \in Databases |-> {}] /\ ended = [db \in Databases |-> {}]
    /\ leftover = {}
    /\ script = NoScript
    /\ driver = [d \in Drivers |-> NoDriver]
    /\ files = [g \in Gates |-> {}]
    /\ review = [g \in Gates |-> "none"]
    /\ state = [g \in Gates |-> "none"]
    /\ criteria = [g \in Gates |-> <<>>]
    /\ rows = Nobody /\ manifest = Nobody
    /\ stray = FALSE /\ faults = 0

Next ==
    \/ Script \/ ScriptFails \/ Signal \/ CutOff \/ RedisForgets
    \/ \E g \in Gates : StartNew(g) \/ StartResume(g) \/ StartRestore(g) \/ Review(g)
    \/ \E d \in Drivers : Drive(d) \/ DriverFails(d)
    \/ \E key \in Keys : Execute(key)

Spec == Init /\ [][Next]_vars

-----------------------------------------------------------------------------
(* Properties *)

Statuses == {"PASS", "FAIL", "PENDING"}
DriverPcs == {"off", "begin", "submit", "await", "manifest", "evidence", "capture", "stop",
              "restart", "test_runtime", "state", "gate", "build", "describe", "runtime",
              "quiet", "criteria", "pending_restore"}
ScriptPcs == {"idle", "converge", "converge_proxy", "prepare", "launch", "driving", "restore",
              "restore_proxy", "inspect", "finalize", "complete"}

\* The types of the state; no driver goes beyond the last case of its cohort or the last
\* item of its dataset.
TypeOK ==
    /\ plane \in Databases /\ worker \in BOOLEAN /\ proxy \in Drivers \cup {Nobody}
    /\ queued \in [Databases -> SUBSET Keys] /\ ended \in [Databases -> SUBSET Keys]
    /\ leftover \subseteq {"live1", "live2"}
    /\ script \in [pc: ScriptPcs, mode: Modes \cup {"restore"}, gate: Gates \cup {Nobody},
                   finalize: BOOLEAN, seen: BOOLEAN]
    /\ \A d \in Drivers : driver[d] \in
          [pc: DriverPcs, rc: {"none", "failed", "pending", "ok"}, purpose: Purposes,
           n: 1..Count(driver[d].purpose), seen: (SUBSET Keys) \X (SUBSET Keys), clean: BOOLEAN]
    /\ files \in [Gates -> SUBSET {"pre_gate", "pre_resume", "post_restore"}]
    /\ review \in [Gates -> {"none", "blank", "agrees", "disagrees"}]
    /\ state \in [Gates -> {"none", "PENDING_HUMAN", "PENDING_RESTORE", "COMPLETE"}]
    /\ \A g \in Gates : /\ DOMAIN criteria[g] \subseteq
                              {"evidence", "human_review", "replay", "restored"}
                        /\ \A name \in DOMAIN criteria[g] : criteria[g][name] \in Statuses
    /\ {rows, manifest} \subseteq Gates \cup {Nobody}
    /\ stray \in BOOLEAN /\ faults \in 0..MaxFaults

\* A gate that passes has earned it: all its runs, the cohort, both controls and both
\* replays, ended in the databases made for them, the reviewer agreed, and the dataset
\* in eval/ with its manifest is its own, whatever was cut off, moved under a driver or
\* started again on the way.
PassIsEarned ==
    \A g \in Gates : Verdict(g) = "PASS" =>
        /\ \A key \in KeysFor(g, Purposes) : key \in ended[Home(key)]
        /\ review[g] = "agrees" /\ rows = g /\ manifest = g

\* A gate that got as far as the reviewer has no run in anybody else's database, the
\* ordinary one included; one whose resume got to its end, neither.
RunsStayHome ==
    \A g \in Gates, db \in Databases :
        LET purposes == IF state[g] = "none" THEN {}
                        ELSE IF state[g] = "PENDING_HUMAN"
                             THEN {"cohort", "control", "capture_off"} ELSE Purposes
        IN  \A key \in KeysFor(g, purposes) :
               key \in queued[db] \cup ended[db] => db = Home(key)

\* Between two scripts the ordinary services run, on the ordinary database and with a
\* worker, unless a driver outlived its script or a trap was cut off.
ServicesRestored ==
    script.pc = "idle" /\ ~stray => plane = Normal /\ worker /\ proxy = Nobody
=============================================================================
