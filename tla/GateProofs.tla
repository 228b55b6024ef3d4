----------------------------- MODULE GateProofs -----------------------------
(***************************************************************************)
(* Machine-checked facts about Gate, for any number of gates, cases, items *)
(* and faults: what the evidence of a gate that passes rests on, and what  *)
(* the script leaves behind.                                               *)
(***************************************************************************)
EXTENDS Gate, TLAPS

NewPurposes == {"cohort", "control", "capture_off"}
LivePurposes == {"live1", "live2"}

\* What the driver of a mode runs for its gate.
Own(d) == IF d[2] = "new" THEN NewPurposes ELSE LivePurposes
KeysOf(d) == KeysFor(d[1], Own(d))

DriverRec ==
    [pc: DriverPcs, rc: {"none", "failed", "pending", "ok"}, purpose: Purposes, n: Nat,
     seen: (SUBSET Keys) \X (SUBSET Keys), clean: BOOLEAN]

\* Which purpose goes with which place in the driver's code.
Shape(d, pc, p, n) ==
    /\ n \in 1..Count(p)
    /\ pc \in {"off", "begin"} => p = "cohort" /\ n = 1
    /\ pc \in {"build", "describe"} => d[2] = "resume" /\ p = "cohort"
    /\ pc \in {"manifest", "evidence"} => p = "cohort"
    /\ pc \in {"capture", "stop", "restart", "test_runtime"} => p = "control"
    /\ pc \in {"state", "gate"} => p = "capture_off"
    /\ pc \in {"runtime", "quiet"} => p \in LivePurposes /\ n = 1
    /\ pc \in {"criteria", "pending_restore"} => p = "live2"
    /\ pc \notin {"off", "begin", "build", "describe"} => p \in Own(d)

ShapeOf(d) == Shape(d, driver[d].pc, driver[d].purpose, driver[d].n)

ScriptTypes ==
    /\ script \in [pc: ScriptPcs, mode: Modes \cup {"restore"}, gate: Gates \cup {Nobody},
                   finalize: BOOLEAN, seen: BOOLEAN]
    /\ script.pc # "idle" => script.gate \in Gates
    /\ script.pc \in {"converge", "converge_proxy", "prepare", "launch", "driving"}
         => script.mode \in Modes

\* Before its launch a driver is off: each mode of a gate is launched once.
BeforeLaunch == {"converge", "converge_proxy", "prepare", "launch"}
FreshDrivers ==
    /\ script.pc \in BeforeLaunch =>
          /\ ~Live(Launched)
          /\ script.mode = "new" => files[script.gate] # {}
          /\ script.mode = "resume" => "pre_resume" \in files[script.gate]
    /\ \A g \in Gates : /\ files[g] = {} => ~Live(<<g, "new">>)
                        /\ "pre_resume" \notin files[g] => ~Live(<<g, "resume">>)

DriverTypes == driver \in [Drivers -> DriverRec] /\ \A d \in Drivers : ShapeOf(d)

ServiceTypes ==
    plane \in Databases /\ worker \in BOOLEAN /\ proxy \in Drivers \cup {Nobody}

DatabaseTypes ==
    /\ queued \in [Databases -> SUBSET Keys] /\ ended \in [Databases -> SUBSET Keys]
    /\ leftover \subseteq {"live1", "live2"}

CriteriaTypes ==
    /\ DOMAIN criteria = Gates
    /\ \A g \in Gates : /\ DOMAIN criteria[g] \subseteq
                              {"evidence", "human_review", "replay", "restored"}
                        /\ \A name \in DOMAIN criteria[g] : criteria[g][name] \in Statuses

FileTypes ==
    /\ files \in [Gates -> SUBSET {"pre_gate", "pre_resume", "post_restore"}]
    /\ review \in [Gates -> {"none", "blank", "agrees", "disagrees"}]
    /\ state \in [Gates -> {"none", "PENDING_HUMAN", "PENDING_RESTORE", "COMPLETE"}]
    /\ {rows, manifest} \subseteq Gates \cup {Nobody}

BoundTypes == stray \in BOOLEAN /\ faults \in 0..MaxFaults

TypeInv ==
    /\ ServiceTypes /\ DatabaseTypes /\ ScriptTypes /\ DriverTypes /\ FreshDrivers
    /\ FileTypes /\ CriteriaTypes /\ BoundTypes
-----------------------------------------------------------------------------
(* Keys and drivers                                                          *)

LEMMA CountPositive ==
  /\ \A p \in Purposes : Count(p) \in Nat \ {0}
  /\ Count("control") = 1 /\ Count("capture_off") = 1
BY BoundsAssumption DEF Count, Purposes

LEMMA KeyIs ==
  ASSUME NEW key
  PROVE  key \in Keys <=> \E g \in Gates, p \in Purposes, n \in Nat :
                            n \in 1..Count(p) /\ key = <<g, p, n>>
<1>1. \A p \in Purposes : Count(p) \in Nat
  BY CountPositive
<1>2. key \in Keys => \E g \in Gates, p \in Purposes, n \in Nat :
                        n \in 1..Count(p) /\ key = <<g, p, n>>
  BY <1>1 DEF Keys
<1>3. ASSUME NEW g \in Gates, NEW p \in Purposes, NEW n \in 1..Count(p), key = <<g, p, n>>
      PROVE  key \in Keys
  <2>1. key \in Gates \X {p} \X (1..Count(p))
    BY <1>3
  <2> QED
    BY <2>1 DEF Keys
<1> QED
  BY <1>2, <1>3

LEMMA HomeIs == \A key \in Keys : Home(key) \in OwnDatabases /\ Home(key) \in Databases
<1> SUFFICES ASSUME NEW key \in Keys PROVE Home(key) \in OwnDatabases
  BY DEF Databases
<1>1. PICK g \in Gates, p \in Purposes, n \in Nat : key = <<g, p, n>>
  BY KeyIs
<1> QED
  BY <1>1 DEF Home, OwnDatabases, Purposes

\* The run a driver is at belongs to it, once it has one.
LEMMA KeyOfDriver ==
  ASSUME DriverTypes, NEW d \in Drivers
  PROVE  /\ Key(d) \in Keys /\ Home(Key(d)) \in Databases /\ d[1] \in Gates /\ d[2] \in Modes
         /\ driver[d].purpose \in Own(d) => Key(d) \in KeysOf(d)
<1>1. d[1] \in Gates /\ d[2] \in Modes
  BY DEF Drivers
<1>2. driver[d] \in DriverRec /\ driver[d].n \in 1..Count(driver[d].purpose)
  BY DEF DriverTypes, ShapeOf, Shape
<1>3. driver[d].purpose \in Purposes /\ driver[d].n \in Nat
  BY <1>2 DEF DriverRec
<1>4. Key(d) \in Keys
  BY <1>1, <1>2, <1>3, KeyIs DEF Key
<1>5. Key(d)[1] = d[1] /\ Key(d)[2] = driver[d].purpose
  BY DEF Key
<1> QED
  BY <1>1, <1>4, <1>5, HomeIs DEF KeysOf, KeysFor

\* What a step of one driver does to the drivers.
Moves(d, pc, p, n) ==
    /\ driver' \in [Drivers -> DriverRec]
    /\ driver'[d].pc = pc /\ driver'[d].purpose = p /\ driver'[d].n = n
    /\ \A e \in Drivers \ {d} : driver'[e] = driver[e]

LEMMA GotoMoves ==
  ASSUME DriverTypes, NEW d \in Drivers, NEW pc \in DriverPcs, Goto(d, pc)
  PROVE  Moves(d, pc, driver[d].purpose, driver[d].n)
BY DEF DriverTypes, DriverRec, Goto, Moves

LEMMA ToRunMoves ==
  ASSUME DriverTypes, NEW d \in Drivers, NEW pc \in DriverPcs, NEW p \in Purposes, NEW n \in Nat,
         ToRun(d, pc, p, n)
  PROVE  Moves(d, pc, p, n)
BY DEF DriverTypes, DriverRec, ToRun, Moves

LEMMA SeenMoves ==
  ASSUME DriverTypes, NEW d \in Drivers, NEW pc \in DriverPcs, NEW p \in Purposes, NEW n \in Nat,
         NEW seen \in (SUBSET Keys) \X (SUBSET Keys),
         driver' = [driver EXCEPT ![d].pc = pc, ![d].purpose = p, ![d].n = n, ![d].seen = seen]
  PROVE  Moves(d, pc, p, n)
<1> DEFINE there == [driver EXCEPT ![d].pc = pc, ![d].purpose = p, ![d].n = n]
<1>1. driver' = [there EXCEPT ![d] = [there[d] EXCEPT !.seen = seen]]
  OBVIOUS
<1>2. /\ there \in [Drivers -> DriverRec]
      /\ there[d].pc = pc /\ there[d].purpose = p /\ there[d].n = n
      /\ \A e \in Drivers \ {d} : there[e] = driver[e]
  BY DEF DriverTypes, DriverRec
<1> HIDE DEF there
<1>3. there[d] \in DriverRec
  BY <1>2
<1>4. /\ [there[d] EXCEPT !.seen = seen] \in DriverRec
      /\ [there[d] EXCEPT !.seen = seen].pc = pc
      /\ [there[d] EXCEPT !.seen = seen].purpose = p
      /\ [there[d] EXCEPT !.seen = seen].n = n
  BY <1>2, <1>3 DEF DriverRec
<1>5. PICK v \in DriverRec : /\ driver' = [there EXCEPT ![d] = v]
                             /\ v.pc = pc /\ v.purpose = p /\ v.n = n
  BY <1>1, <1>4
<1>6. driver' \in [Drivers -> DriverRec]
  BY <1>2, <1>5
<1>7. driver'[d] = v /\ \A e \in Drivers \ {d} : driver'[e] = driver[e]
  BY <1>2, <1>5
<1> QED
  BY <1>5, <1>6, <1>7 DEF Moves

LEMMA CleanMoves ==
  ASSUME DriverTypes, NEW d \in Drivers, NEW pc \in DriverPcs, NEW p \in Purposes, NEW n \in Nat,
         NEW clean \in BOOLEAN,
         driver' = [driver EXCEPT ![d].pc = pc, ![d].purpose = p, ![d].n = n, ![d].clean = clean]
  PROVE  Moves(d, pc, p, n)
<1> DEFINE there == [driver EXCEPT ![d].pc = pc, ![d].purpose = p, ![d].n = n]
<1>1. driver' = [there EXCEPT ![d] = [there[d] EXCEPT !.clean = clean]]
  OBVIOUS
<1>2. /\ there \in [Drivers -> DriverRec]
      /\ there[d].pc = pc /\ there[d].purpose = p /\ there[d].n = n
      /\ \A e \in Drivers \ {d} : there[e] = driver[e]
  BY DEF DriverTypes, DriverRec
<1> HIDE DEF there
<1>3. there[d] \in DriverRec
  BY <1>2
<1>4. /\ [there[d] EXCEPT !.clean = clean] \in DriverRec
      /\ [there[d] EXCEPT !.clean = clean].pc = pc
      /\ [there[d] EXCEPT !.clean = clean].purpose = p
      /\ [there[d] EXCEPT !.clean = clean].n = n
  BY <1>2, <1>3 DEF DriverRec
<1>5. PICK v \in DriverRec : /\ driver' = [there EXCEPT ![d] = v]
                             /\ v.pc = pc /\ v.purpose = p /\ v.n = n
  BY <1>1, <1>4
<1>6. driver' \in [Drivers -> DriverRec]
  BY <1>2, <1>5
<1>7. driver'[d] = v /\ \A e \in Drivers \ {d} : driver'[e] = driver[e]
  BY <1>2, <1>5
<1> QED
  BY <1>5, <1>6, <1>7 DEF Moves

LEMMA OffMoves ==
  ASSUME DriverTypes, NEW d \in Drivers, NEW rc \in {"none", "failed", "pending", "ok"}, Off(d, rc)
  PROVE  Moves(d, "off", "cohort", 1)
BY DEF DriverTypes, DriverRec, Off, NoDriver, Moves, DriverPcs, Purposes

\* Such a step keeps the types, if it takes the driver to where it may be.
LEMMA MovesTypes ==
  ASSUME DriverTypes, NEW d \in Drivers, NEW pc, NEW p, NEW n, Moves(d, pc, p, n), Shape(d, pc, p, n)
  PROVE  DriverTypes'
<1>1. \A e \in Drivers \ {d} : ShapeOf(e)'
  BY DEF Moves, DriverTypes, ShapeOf
<1>2. ShapeOf(d)'
  BY DEF Moves, ShapeOf
<1> QED
  BY <1>1, <1>2 DEF Moves, DriverTypes

LEMMA OffShape == \A d : Shape(d, "off", "cohort", 1)
BY CountPositive DEF Shape, Purposes
-----------------------------------------------------------------------------
(* What each part of the system leaves alone                                 *)

LEMMA DriveFrame ==
  ASSUME NEW d \in Drivers, Drive(d) \/ DriverFails(d)
  PROVE  /\ UNCHANGED <<script, files, stray>>
         /\ UNCHANGED services \/ StopWorker(d) \/ RestartWorker(d) \/ TestRuntime(d) \/ StartReplay(d)
         /\ UNCHANGED database \/ Submit(d)
         /\ UNCHANGED review \/ WriteEvidence(d)
         /\ UNCHANGED state \/ WriteState(d) \/ WritePendingRestore(d)
         /\ UNCHANGED criteria \/ WriteGate(d) \/ WriteCriteria(d)
         /\ UNCHANGED rows \/ BuildDataset(d)
         /\ UNCHANGED manifest \/ DescribeDataset(d)
         /\ UNCHANGED faults \/ DriverFails(d)
<1>1. CASE BeginNew(d) \/ EndRun(d) \/ TimeOut(d) \/ WriteManifest(d) \/ Capture(d) \/ BeginResume(d)
           \/ AssertQuiescent(d) \/ DriverFails(d)
  BY <1>1 DEF BeginNew, EndRun, TimeOut, WriteManifest, Capture, BeginResume, AssertQuiescent,
       DriverFails, database, artifacts, bounds
<1>2. CASE StopWorker(d) \/ RestartWorker(d) \/ TestRuntime(d) \/ StartReplay(d)
  BY <1>2 DEF StopWorker, RestartWorker, TestRuntime, StartReplay, database, artifacts, bounds
<1>3. CASE Submit(d) \/ WriteEvidence(d) \/ WriteState(d) \/ WriteGate(d) \/ BuildDataset(d)
           \/ DescribeDataset(d) \/ WriteCriteria(d) \/ WritePendingRestore(d)
  BY <1>3 DEF Submit, WriteEvidence, WriteState, WriteGate, BuildDataset, DescribeDataset,
       WriteCriteria, WritePendingRestore, services, database, artifacts, bounds
<1> QED
  BY <1>1, <1>2, <1>3 DEF Drive

\* The script, the operator, the reviewer, Redis and what cuts the script off.
Outside ==
    \/ Script \/ ScriptFails \/ Signal \/ CutOff \/ RedisForgets
    \/ \E g \in Gates : StartNew(g) \/ StartResume(g) \/ StartRestore(g) \/ Review(g)

LEMMA OutsideFrame ==
  ASSUME Outside
  PROVE  /\ UNCHANGED <<queued, ended, rows, manifest>>
         /\ UNCHANGED services \/ Converge \/ StopProxy \/ Launch
         /\ UNCHANGED driver \/ Launch \/ DriverEnded \/ CutOff
         /\ UNCHANGED review \/ \E g \in Gates : Review(g)
         /\ UNCHANGED state \/ Complete
         /\ UNCHANGED criteria \/ Finalize
         /\ UNCHANGED files \/ Inspect \/ \E g \in Gates : StartNew(g) \/ StartResume(g)
         /\ UNCHANGED stray \/ Converge \/ Signal \/ CutOff
         /\ UNCHANGED leftover \/ leftover' = {}
         /\ UNCHANGED faults \/ ScriptFails \/ Signal \/ CutOff
<1>1. CASE Converge \/ StopProxy \/ Launch \/ DriverEnded \/ CutOff
  BY <1>1 DEF Converge, StopProxy, Launch, DriverEnded, CutOff, services, database, artifacts, bounds
<1>2. CASE Inspect \/ Finalize \/ Complete \/ \E g \in Gates : Review(g)
  BY <1>2 DEF Inspect, Finalize, Complete, Review, services, database, artifacts, bounds
<1>3. CASE Prepare \/ ScriptFails \/ Signal \/ RedisForgets
           \/ \E g \in Gates : StartNew(g) \/ StartResume(g) \/ StartRestore(g)
  BY <1>3 DEF Prepare, ScriptFails, Signal, RedisForgets, StartNew, StartResume, StartRestore,
       services, database, artifacts, bounds
<1> QED
  BY <1>1, <1>2, <1>3 DEF Outside, Script

LEMMA ExecuteFrame ==
  ASSUME NEW key \in Keys, Execute(key)
  PROVE  UNCHANGED <<services, leftover, script, driver, artifacts, bounds>>
BY DEF Execute

LEMMA WhoSteps ==
  ASSUME [Next]_vars
  PROVE  \/ Outside
         \/ \E d \in Drivers : Drive(d) \/ DriverFails(d)
         \/ \E key \in Keys : Execute(key)
         \/ UNCHANGED vars
BY DEF Next, Outside
-----------------------------------------------------------------------------
(* Where a driver goes                                                       *)

\* From every place of the driver's code: where its next step takes it.
LEMMA NewPath ==
  ASSUME TypeInv, NEW d \in Drivers
  PROVE  LET p == driver[d].purpose
             n == driver[d].n
             off == Moves(d, "off", "cohort", 1) IN
         /\ BeginNew(d) => off \/ Moves(d, "submit", "cohort", 1)
         /\ WriteManifest(d) => off \/ Moves(d, "evidence", p, n)
         /\ WriteEvidence(d) => off \/ Moves(d, "submit", "control", 1)
         /\ Capture(d) => Moves(d, "stop", p, n)
         /\ StopWorker(d) => Moves(d, "restart", p, n)
         /\ RestartWorker(d) => Moves(d, "await", p, n)
         /\ TestRuntime(d) => Moves(d, "submit", "capture_off", 1)
         /\ WriteState(d) => Moves(d, "gate", p, n)
         /\ WriteGate(d) => off
<1>0. DriverTypes /\ DatabaseTypes /\ DriverPcs = DriverPcs /\ Normal \in Databases
  BY DEF TypeInv, Databases
<1>1. BeginNew(d) => Moves(d, "off", "cohort", 1) \/ Moves(d, "submit", "cohort", 1)
  <2>1. NormalRuns \in (SUBSET Keys) \X (SUBSET Keys)
    BY <1>0 DEF DatabaseTypes, NormalRuns
  <2>2. ASSUME driver' = [driver EXCEPT ![d].pc = "submit", ![d].purpose = "cohort", ![d].n = 1,
                                        ![d].seen = NormalRuns]
        PROVE  Moves(d, "submit", "cohort", 1)
    BY <1>0, <2>1, <2>2, SeenMoves DEF DriverPcs, Purposes
  <2> QED
    BY <1>0, <2>2, OffMoves DEF BeginNew
<1>2. WriteManifest(d) => Moves(d, "off", "cohort", 1) \/ Moves(d, "evidence", driver[d].purpose, driver[d].n)
  BY <1>0, OffMoves, GotoMoves DEF WriteManifest, Require, DriverPcs
<1>3. WriteEvidence(d) => Moves(d, "off", "cohort", 1) \/ Moves(d, "submit", "control", 1)
  <2>1. ASSUME NEW clean \in BOOLEAN,
               driver' = [driver EXCEPT ![d].pc = "submit", ![d].purpose = "control",
                                        ![d].n = 1, ![d].clean = clean]
        PROVE  Moves(d, "submit", "control", 1)
    BY <1>0, <2>1, CleanMoves DEF DriverPcs, Purposes
  <2> QED
    BY <1>0, <2>1, OffMoves DEF WriteEvidence
<1>4. /\ Capture(d) => Moves(d, "stop", driver[d].purpose, driver[d].n)
      /\ StopWorker(d) => Moves(d, "restart", driver[d].purpose, driver[d].n)
      /\ RestartWorker(d) => Moves(d, "await", driver[d].purpose, driver[d].n)
      /\ WriteState(d) => Moves(d, "gate", driver[d].purpose, driver[d].n)
  BY <1>0, GotoMoves DEF Capture, StopWorker, RestartWorker, WriteState, DriverPcs
<1>5. TestRuntime(d) => Moves(d, "submit", "capture_off", 1)
  BY <1>0, ToRunMoves DEF TestRuntime, DriverPcs, Purposes
<1>6. WriteGate(d) => Moves(d, "off", "cohort", 1)
  BY <1>0, OffMoves DEF WriteGate
<1> QED
  BY <1>1, <1>2, <1>3, <1>4, <1>5, <1>6

LEMMA ResumePath ==
  ASSUME TypeInv, NEW d \in Drivers
  PROVE  LET p == driver[d].purpose
             n == driver[d].n
             off == Moves(d, "off", "cohort", 1) IN
         /\ BeginResume(d) => off \/ Moves(d, "build", p, n)
         /\ BuildDataset(d) => off \/ Moves(d, "describe", p, n)
         /\ DescribeDataset(d) => off \/ Moves(d, "runtime", "live1", 1)
         /\ StartReplay(d) => Moves(d, "quiet", p, n)
         /\ AssertQuiescent(d) => off \/ Moves(d, "submit", p, n)
         /\ WriteCriteria(d) => off \/ Moves(d, "pending_restore", p, n)
         /\ WritePendingRestore(d) => off
         /\ DriverFails(d) => off
<1>0. DriverTypes
  BY DEF TypeInv
<1>1. /\ BeginResume(d) => Moves(d, "off", "cohort", 1) \/ Moves(d, "build", driver[d].purpose, driver[d].n)
      /\ BuildDataset(d) => Moves(d, "off", "cohort", 1) \/ Moves(d, "describe", driver[d].purpose, driver[d].n)
      /\ AssertQuiescent(d) => Moves(d, "off", "cohort", 1) \/ Moves(d, "submit", driver[d].purpose, driver[d].n)
  BY <1>0, OffMoves, GotoMoves DEF BeginResume, BuildDataset, AssertQuiescent, Require, DriverPcs
<1>2. DescribeDataset(d) => Moves(d, "off", "cohort", 1) \/ Moves(d, "runtime", "live1", 1)
  BY <1>0, OffMoves, ToRunMoves DEF DescribeDataset, DriverPcs, Purposes
<1>3. StartReplay(d) => Moves(d, "quiet", driver[d].purpose, driver[d].n)
  BY <1>0, GotoMoves DEF StartReplay, DriverPcs
<1>4. WriteCriteria(d) => Moves(d, "off", "cohort", 1) \/ Moves(d, "pending_restore", driver[d].purpose, driver[d].n)
  BY <1>0, OffMoves, GotoMoves DEF WriteCriteria, Require, DriverPcs
<1>5. (WritePendingRestore(d) => Moves(d, "off", "cohort", 1)) /\ (DriverFails(d) => Moves(d, "off", "cohort", 1))
  BY <1>0, OffMoves DEF WritePendingRestore, DriverFails
<1> QED
  BY <1>1, <1>2, <1>3, <1>4, <1>5

LEMMA RunPath ==
  ASSUME TypeInv, NEW d \in Drivers
  PROVE  LET p == driver[d].purpose
             n == driver[d].n
             off == Moves(d, "off", "cohort", 1) IN
         /\ Submit(d) => off \/ Moves(d, IF p = "control" THEN "capture" ELSE "await", p, n)
         /\ TimeOut(d) => off
         /\ EndRun(d) => \/ off
                         \/ Moves(d, "submit", p, n + 1) /\ n < Count(p)
                         \/ /\ Moves(d, After(p), IF p = "live1" THEN "live2" ELSE p, 1)
                            /\ n >= Count(p)
<1>0. DriverTypes /\ driver[d] \in DriverRec
  BY DEF TypeInv, DriverTypes
<1>1. driver[d].purpose \in Purposes /\ driver[d].n \in Nat /\ driver[d].n + 1 \in Nat
  BY <1>0 DEF DriverRec
<1>2. /\ Submit(d) => \/ Moves(d, "off", "cohort", 1)
                      \/ Moves(d, IF driver[d].purpose = "control" THEN "capture" ELSE "await",
                               driver[d].purpose, driver[d].n)
      /\ TimeOut(d) => Moves(d, "off", "cohort", 1)
  BY <1>0, OffMoves, GotoMoves DEF Submit, TimeOut, DriverPcs
<1>3. ASSUME EndRun(d)
      PROVE  \/ Moves(d, "off", "cohort", 1)
             \/ /\ Moves(d, "submit", driver[d].purpose, driver[d].n + 1)
                /\ driver[d].n < Count(driver[d].purpose)
             \/ /\ Moves(d, After(driver[d].purpose),
                         IF driver[d].purpose = "live1" THEN "live2" ELSE driver[d].purpose, 1)
                /\ driver[d].n >= Count(driver[d].purpose)
  <2>1. \/ Off(d, "failed")
        \/ MoreCases(d) /\ ToRun(d, "submit", driver[d].purpose, driver[d].n + 1)
        \/ /\ ~MoreCases(d)
           /\ ToRun(d, After(driver[d].purpose),
                    IF driver[d].purpose = "live1" THEN "live2" ELSE driver[d].purpose, 1)
    BY <1>3 DEF EndRun
  <2>2. After(driver[d].purpose) \in DriverPcs
    BY <1>1 DEF After, Purposes, DriverPcs
  <2>3. Count(driver[d].purpose) \in Nat
    BY <1>1, CountPositive
  <2>4. CASE Off(d, "failed")
    BY <1>0, <2>4, OffMoves
  <2>5. CASE MoreCases(d) /\ ToRun(d, "submit", driver[d].purpose, driver[d].n + 1)
    BY <1>0, <1>1, <2>5, ToRunMoves DEF MoreCases, DriverPcs
  <2>6. CASE /\ ~MoreCases(d)
             /\ ToRun(d, After(driver[d].purpose),
                      IF driver[d].purpose = "live1" THEN "live2" ELSE driver[d].purpose, 1)
    <3>1. (IF driver[d].purpose = "live1" THEN "live2" ELSE driver[d].purpose) \in Purposes
      BY <1>1 DEF Purposes
    <3>2. Moves(d, After(driver[d].purpose),
                IF driver[d].purpose = "live1" THEN "live2" ELSE driver[d].purpose, 1)
      BY <1>0, <2>2, <2>6, <3>1, ToRunMoves
    <3> QED
      BY <1>1, <2>3, <2>6, <3>2 DEF MoreCases
  <2> QED
    BY <2>1, <2>4, <2>5, <2>6
<1> QED
  BY <1>2, <1>3
-----------------------------------------------------------------------------
(* Types                                                                     *)

LEMMA DriveTypes ==
  ASSUME TypeInv, NEW d \in Drivers, Drive(d) \/ DriverFails(d)
  PROVE  DriverTypes'
<1> DEFINE p == driver[d].purpose
           n == driver[d].n
<1>0. /\ DriverTypes /\ Shape(d, driver[d].pc, p, n) /\ d[2] \in {"new", "resume"}
      /\ p \in Purposes /\ n \in Nat /\ Count(p) \in Nat \ {0}
  BY CountPositive DEF TypeInv, DriverTypes, ShapeOf, DriverRec, Drivers, Modes
<1>1. ASSUME Moves(d, "off", "cohort", 1) PROVE DriverTypes'
  BY <1>0, <1>1, OffShape, MovesTypes
<1>2. ASSUME NEW pc, NEW q, NEW m, Moves(d, pc, q, m), Shape(d, pc, q, m) PROVE DriverTypes'
  BY <1>0, <1>2, MovesTypes
<1>3. CASE BeginNew(d)
  <2>1. Shape(d, "submit", "cohort", 1)
    BY <1>3, CountPositive DEF BeginNew, Shape, Own, NewPurposes, Purposes
  <2> QED
    BY <1>1, <1>2, <1>3, <2>1, NewPath
<1>4. CASE WriteManifest(d)
  <2>1. Shape(d, "evidence", p, n)
    BY <1>0, <1>4 DEF WriteManifest, At, Shape
  <2> QED
    BY <1>1, <1>2, <1>4, <2>1, NewPath
<1>5. CASE WriteEvidence(d)
  <2>1. Shape(d, "submit", "control", 1)
    BY <1>0, <1>5, CountPositive DEF WriteEvidence, At, Shape, Own, NewPurposes, LivePurposes, Purposes
  <2> QED
    BY <1>1, <1>2, <1>5, <2>1, NewPath
<1>6. CASE Capture(d) \/ StopWorker(d) \/ RestartWorker(d)
  <2>1. p = "control" /\ p \in Own(d) /\ n \in 1..Count(p)
    BY <1>0, <1>6 DEF Capture, StopWorker, RestartWorker, At, Shape
  <2>2. Shape(d, "stop", p, n) /\ Shape(d, "restart", p, n) /\ Shape(d, "await", p, n)
    BY <2>1 DEF Shape
  <2> QED
    BY <1>2, <1>6, <2>2, NewPath
<1>7. CASE TestRuntime(d)
  <2>1. Shape(d, "submit", "capture_off", 1)
    BY <1>0, <1>7, CountPositive DEF TestRuntime, At, Shape, Own, NewPurposes, LivePurposes, Purposes
  <2> QED
    BY <1>2, <1>7, <2>1, NewPath
<1>8. CASE WriteState(d)
  <2>1. Shape(d, "gate", p, n)
    BY <1>0, <1>8 DEF WriteState, At, Shape
  <2> QED
    BY <1>2, <1>8, <2>1, NewPath
<1>9. CASE BeginResume(d)
  <2>1. Shape(d, "build", p, n)
    BY <1>0, <1>9 DEF BeginResume, At, Shape
  <2> QED
    BY <1>1, <1>2, <1>9, <2>1, ResumePath
<1>10. CASE BuildDataset(d)
  <2>1. Shape(d, "describe", p, n)
    BY <1>0, <1>10 DEF BuildDataset, At, Shape
  <2> QED
    BY <1>1, <1>2, <1>10, <2>1, ResumePath
<1>11. CASE DescribeDataset(d)
  <2>1. Shape(d, "runtime", "live1", 1)
    BY <1>0, <1>11, CountPositive DEF DescribeDataset, At, Shape, Own, LivePurposes, Purposes
  <2> QED
    BY <1>1, <1>2, <1>11, <2>1, ResumePath
<1>12. CASE StartReplay(d)
  <2>1. Shape(d, "quiet", p, n)
    BY <1>0, <1>12 DEF StartReplay, At, Shape
  <2> QED
    BY <1>2, <1>12, <2>1, ResumePath
<1>13. CASE AssertQuiescent(d)
  <2>1. Shape(d, "submit", p, n)
    BY <1>0, <1>13 DEF AssertQuiescent, At, Shape
  <2> QED
    BY <1>1, <1>2, <1>13, <2>1, ResumePath
<1>14. CASE WriteCriteria(d)
  <2>1. Shape(d, "pending_restore", p, n)
    BY <1>0, <1>14 DEF WriteCriteria, At, Shape
  <2> QED
    BY <1>1, <1>2, <1>14, <2>1, ResumePath
<1>15. CASE WriteGate(d) \/ WritePendingRestore(d) \/ DriverFails(d) \/ TimeOut(d)
  BY <1>1, <1>15, NewPath, ResumePath, RunPath
<1>16. CASE Submit(d)
  <2> DEFINE next == IF p = "control" THEN "capture" ELSE "await"
  <2>1. Shape(d, next, p, n)
    BY <1>0, <1>16 DEF Submit, At, Shape
  <2>2. Moves(d, "off", "cohort", 1) \/ Moves(d, next, p, n)
    BY <1>16, RunPath
  <2> QED
    BY <1>1, <1>2, <2>1, <2>2
<1>17. CASE EndRun(d)
  <2>1. p \in Own(d) /\ n \in 1..Count(p)
    BY <1>0, <1>17 DEF EndRun, At, Shape
  <2>2. n < Count(p) => Shape(d, "submit", p, n + 1)
    BY <1>0, <2>1 DEF Shape
  <2>3. Shape(d, After(p), IF p = "live1" THEN "live2" ELSE p, 1)
    <3>1. CASE d[2] = "new"
      BY <2>1, <3>1, CountPositive DEF Shape, After, Own, NewPurposes, LivePurposes, Purposes
    <3>2. CASE d[2] # "new"
      BY <1>0, <2>1, <3>2, CountPositive DEF Shape, After, Own, NewPurposes, LivePurposes, Purposes
    <3> QED
      BY <3>1, <3>2
  <2>4. \/ Moves(d, "off", "cohort", 1)
        \/ Moves(d, "submit", p, n + 1) /\ n < Count(p)
        \/ Moves(d, After(p), IF p = "live1" THEN "live2" ELSE p, 1)
    BY <1>17, RunPath
  <2> QED
    BY <1>1, <1>2, <2>2, <2>3, <2>4
<1> QED
  BY <1>3, <1>4, <1>5, <1>6, <1>7, <1>8, <1>9, <1>10, <1>11, <1>12, <1>13, <1>14, <1>15, <1>16, <1>17
     DEF Drive

\* A driver that is off stays off unless the script launches it.
LEMMA OffStays ==
  ASSUME TypeInv, NEW d \in Drivers, Drive(d) \/ DriverFails(d), NEW e \in Drivers, ~Live(e)
  PROVE  driver'[e] = driver[e]
<1>1. Live(d)
  BY DEF Drive, DriverFails, Live, At, BeginNew, Submit, EndRun, TimeOut, WriteManifest,
     WriteEvidence, Capture, StopWorker, RestartWorker, TestRuntime, WriteState, WriteGate,
     BeginResume, BuildDataset, DescribeDataset, StartReplay, AssertQuiescent, WriteCriteria,
     WritePendingRestore
<1>2. \E pc, p, n : Moves(d, pc, p, n)
  BY NewPath, ResumePath, RunPath DEF Drive
<1> QED
  BY <1>1, <1>2 DEF Moves

LEMMA LaunchMoves ==
  ASSUME TypeInv, Launch
  PROVE  /\ Launched \in Drivers /\ Moves(Launched, "begin", "cohort", 1)
         /\ ~Live(Launched) /\ Launched' = Launched
<1>1. Launched \in Drivers
  BY DEF TypeInv, ScriptTypes, Launch, InScript, Launched, Drivers
<1>2. ~Live(Launched) /\ Launched' = Launched
  BY DEF TypeInv, FreshDrivers, BeforeLaunch, Launch, InScript, ScriptTypes, Step, Launched
<1>3. driver[Launched].purpose = "cohort" /\ driver[Launched].n = 1
  BY <1>1, <1>2 DEF TypeInv, DriverTypes, ShapeOf, Shape, Live
<1>4. "begin" \in DriverPcs
  BY DEF DriverPcs
<1>5. PICK d \in Drivers : d = Launched
  BY <1>1
<1>6. Goto(d, "begin")
  BY <1>5 DEF Launch, Goto
<1>7. Moves(d, "begin", driver[d].purpose, driver[d].n)
  BY <1>4, <1>6, GotoMoves DEF TypeInv
<1> QED
  BY <1>1, <1>2, <1>3, <1>5, <1>7

LEMMA ServicesStep ==
  ASSUME TypeInv, [Next]_vars
  PROVE  ServiceTypes'
<1>0. ServiceTypes
  BY DEF TypeInv
<1>1. ASSUME UNCHANGED services PROVE ServiceTypes'
  BY <1>0, <1>1 DEF ServiceTypes, services
<1>2. ASSUME NEW db \in Databases, Recreate(db), proxy' \in Drivers \cup {Nobody} PROVE ServiceTypes'
  BY <1>2 DEF Recreate, ServiceTypes
<1>3. CASE Outside
  <2>1. CASE Converge
    BY <1>0, <1>2, <2>1 DEF Converge, Databases, ServiceTypes
  <2>2. CASE StopProxy
    BY <1>0, <2>2 DEF StopProxy, ServiceTypes
  <2>3. CASE Launch
    <3>1. <<script.gate, "generation">> \in Databases
      BY <2>3 DEF TypeInv, ScriptTypes, Launch, InScript, Databases, OwnDatabases
    <3> QED
      BY <1>2, <2>3, <3>1, LaunchMoves DEF Launch
  <2> QED
    BY <1>1, <1>3, <2>1, <2>2, <2>3, OutsideFrame
<1>4. ASSUME NEW d \in Drivers, Drive(d) \/ DriverFails(d) PROVE ServiceTypes'
  <2>0. d[1] \in Gates /\ ShapeOf(d)
    BY DEF TypeInv, DriverTypes, Drivers
  <2>1. CASE StopWorker(d) \/ RestartWorker(d)
    BY <1>0, <2>1 DEF StopWorker, RestartWorker, ServiceTypes
  <2>2. CASE TestRuntime(d)
    BY <1>0, <1>2, <2>0, <2>2 DEF TestRuntime, Databases, OwnDatabases, ServiceTypes
  <2>3. CASE StartReplay(d)
    <3>1. driver[d].purpose \in LivePurposes
      BY <2>0, <2>3 DEF StartReplay, At, ShapeOf, Shape
    <3>2. <<d[1], driver[d].purpose>> \in Databases
      BY <2>0, <3>1 DEF LivePurposes, Databases, OwnDatabases
    <3> QED
      BY <1>2, <2>3, <3>2 DEF StartReplay
  <2> QED
    BY <1>1, <1>4, <2>1, <2>2, <2>3, DriveFrame
<1> QED
  BY <1>1, <1>3, <1>4, WhoSteps, ExecuteFrame DEF vars, services

LEMMA DatabasesStep ==
  ASSUME TypeInv, [Next]_vars
  PROVE  DatabaseTypes'
<1>0. DatabaseTypes /\ DriverTypes
  BY DEF TypeInv
<1>1. CASE Outside
  BY <1>0, <1>1, OutsideFrame DEF DatabaseTypes
<1>2. ASSUME NEW d \in Drivers, Drive(d) \/ DriverFails(d) PROVE DatabaseTypes'
  <2>1. Key(d) \in Keys
    BY <1>0, KeyOfDriver
  <2>2. CASE UNCHANGED database
    BY <1>0, <2>2 DEF DatabaseTypes, database
  <2>3. CASE Submit(d)
    <3>1. queued' = queued \/ queued' = [queued EXCEPT ![plane] = @ \cup {Key(d)}]
      BY <2>3 DEF Submit
    <3>2. queued' \in [Databases -> SUBSET Keys]
      BY <1>0, <2>1, <3>1 DEF DatabaseTypes
    <3>3. ended' = ended /\ leftover' \subseteq {"live1", "live2"}
      BY <1>0, <2>3 DEF Submit, DatabaseTypes
    <3> QED
      BY <1>0, <3>2, <3>3 DEF DatabaseTypes
  <2> QED
    BY <1>2, <2>2, <2>3, DriveFrame
<1>3. ASSUME NEW key \in Keys, Execute(key) PROVE DatabaseTypes'
  BY <1>0, <1>3 DEF Execute, DatabaseTypes
<1>4. CASE UNCHANGED vars
  BY <1>0, <1>4 DEF vars, database, DatabaseTypes
<1> QED
  BY <1>1, <1>2, <1>3, <1>4, WhoSteps

LEMMA ScriptStep ==
  ASSUME TypeInv, [Next]_vars
  PROVE  ScriptTypes'
<1>0. ScriptTypes
  BY DEF TypeInv
<1>1. ASSUME UNCHANGED script PROVE ScriptTypes'
  BY <1>0, <1>1 DEF ScriptTypes
<1>2. CASE Exit
  BY <1>2 DEF Exit, NoScript, ScriptTypes, ScriptPcs
<1>3. ASSUME NEW g \in Gates, StartNew(g) \/ StartResume(g) \/ StartRestore(g) PROVE ScriptTypes'
  <2>1. PICK pc \in {"converge", "restore"}, mode \in Modes \cup {"restore"} :
           /\ script' = [pc |-> pc, mode |-> mode, gate |-> g, finalize |-> FALSE, seen |-> FALSE]
           /\ pc = "converge" => mode \in Modes
    <3>1. ASSUME StartNew(g)
          PROVE  \E pc \in {"converge", "restore"} :
                    script' = [pc |-> pc, mode |-> "new", gate |-> g, finalize |-> FALSE, seen |-> FALSE]
      BY <3>1 DEF StartNew
    <3>2. ASSUME StartResume(g)
          PROVE  \E pc \in {"converge", "restore"} :
                    script' = [pc |-> pc, mode |-> "resume", gate |-> g, finalize |-> FALSE, seen |-> FALSE]
      BY <3>2 DEF StartResume
    <3>3. ASSUME StartRestore(g)
          PROVE  script' = [pc |-> "restore", mode |-> "restore", gate |-> g,
                            finalize |-> FALSE, seen |-> FALSE]
      BY <3>3 DEF StartRestore
    <3> QED
      BY <1>3, <3>1, <3>2, <3>3 DEF Modes
  <2> QED
    BY <2>1 DEF ScriptTypes, ScriptPcs
\* From a place where a gate is known, and the mode if it matters.
<1>4. ASSUME NEW pc \in ScriptPcs, Step(pc), script.pc # "idle",
             pc \in BeforeLaunch \cup {"driving"} => script.pc \in BeforeLaunch
      PROVE  ScriptTypes'
  <2>1. /\ script.gate \in Gates
        /\ pc \in BeforeLaunch \cup {"driving"} => script.mode \in Modes
    BY <1>0, <1>4 DEF ScriptTypes, BeforeLaunch
  <2>2. /\ script' \in [pc: ScriptPcs, mode: Modes \cup {"restore"}, gate: Gates \cup {Nobody},
                        finalize: BOOLEAN, seen: BOOLEAN]
        /\ script'.gate = script.gate /\ script'.pc = pc /\ script'.mode = script.mode
    BY <1>0, <1>4 DEF Step, ScriptTypes
  <2> QED
    BY <2>1, <2>2 DEF ScriptTypes, BeforeLaunch
<1>5. CASE Converge \/ StopProxy \/ Prepare \/ Launch \/ ScriptFails \/ Signal
  <2>1. script.pc # "idle"
    BY <1>5 DEF Converge, StopProxy, Prepare, Launch, ScriptFails, Signal, InScript
  <2>2. \E pc \in ScriptPcs : Step(pc) /\ (pc \in BeforeLaunch \cup {"driving"} => script.pc \in BeforeLaunch)
    BY <1>5 DEF Converge, StopProxy, Prepare, Launch, ScriptFails, Signal, InScript, ScriptPcs, BeforeLaunch
  <2> QED
    BY <1>4, <2>1, <2>2
<1>6. CASE DriverEnded \/ Inspect \/ Finalize \/ Complete \/ CutOff
  <2>1. CASE Finalize \/ Complete \/ CutOff
    <3>1. Exit \/ (Step("complete") /\ InScript("finalize"))
      BY <2>1 DEF Finalize, Complete, CutOff
    <3> QED
      BY <1>2, <1>4, <3>1 DEF InScript, ScriptPcs, BeforeLaunch
  <2>2. CASE DriverEnded
    <3>1. script.pc = "driving" /\ script.gate \in Gates
      BY <1>0, <2>2 DEF DriverEnded, InScript, ScriptTypes
    <3>2. PICK f \in BOOLEAN : script' = [script EXCEPT !.pc = "restore", !.finalize = f]
      BY <2>2 DEF DriverEnded
    <3> QED
      BY <1>0, <3>1, <3>2 DEF ScriptTypes, ScriptPcs
  <2>3. CASE Inspect
    <3>1. CASE Exit
      BY <1>2, <3>1
    <3>2. CASE ~Exit
      <4>1. PICK f : f = (plane = Normal /\ worker) /\ script' = [script EXCEPT !.pc = "finalize", !.seen = f]
        BY <2>3, <3>2 DEF Inspect
      <4>2. f \in BOOLEAN /\ script.pc = "inspect" /\ script.gate \in Gates
        BY <1>0, <2>3, <4>1 DEF Inspect, InScript, ScriptTypes, TypeInv, ServiceTypes
      <4> QED
        BY <1>0, <4>1, <4>2 DEF ScriptTypes, ScriptPcs
    <3> QED
      BY <3>1, <3>2
  <2> QED
    BY <1>6, <2>1, <2>2, <2>3
<1>7. CASE RedisForgets \/ (\E g \in Gates : Review(g)) \/ (\E key \in Keys : Execute(key)) \/ UNCHANGED vars
  BY <1>1, <1>7 DEF RedisForgets, Review, Execute, vars
<1>8. ASSUME NEW d \in Drivers, Drive(d) \/ DriverFails(d) PROVE ScriptTypes'
  BY <1>1, <1>8, DriveFrame
<1> QED
  BY <1>3, <1>5, <1>6, <1>7, <1>8 DEF Next, Script

LEMMA DriversStep ==
  ASSUME TypeInv, [Next]_vars
  PROVE  DriverTypes'
<1>0. DriverTypes
  BY DEF TypeInv
<1>1. ASSUME UNCHANGED driver PROVE DriverTypes'
  BY <1>0, <1>1 DEF DriverTypes, ShapeOf
<1>2. CASE Launch
  <2>1. Shape(Launched, "begin", "cohort", 1)
    BY CountPositive DEF Shape, Purposes
  <2> QED
    BY <1>0, <1>2, <2>1, LaunchMoves, MovesTypes
<1>3. NoDriver \in DriverRec /\ \A d : Shape(d, NoDriver.pc, NoDriver.purpose, NoDriver.n)
  BY OffShape DEF NoDriver, DriverRec, DriverPcs, Purposes
<1>4. ASSUME driver' \in [Drivers -> DriverRec],
             \A d \in Drivers : driver'[d] \in {driver[d], NoDriver}
      PROVE  DriverTypes'
  BY <1>0, <1>3, <1>4 DEF DriverTypes, ShapeOf
<1>5. CASE DriverEnded \/ CutOff
  <2>1. /\ driver' \in [Drivers -> DriverRec]
        /\ \A d \in Drivers : driver'[d] \in {driver[d], NoDriver}
    BY <1>0, <1>3, <1>5 DEF DriverEnded, CutOff, DriverTypes
  <2> QED
    BY <1>4, <2>1
<1> QED
  BY <1>1, <1>2, <1>5, WhoSteps, OutsideFrame, DriveTypes, ExecuteFrame DEF vars

\* Where the steps of the script, other than its starts and launches, take it.
LEMMA ScriptMoves ==
  ASSUME ScriptTypes,
         \/ Converge \/ StopProxy \/ Prepare \/ DriverEnded \/ Inspect \/ Finalize \/ Complete
         \/ ScriptFails \/ Signal \/ CutOff \/ RedisForgets
         \/ \E g \in Gates : StartRestore(g) \/ Review(g)
  PROVE  /\ \/ script'.pc \notin BeforeLaunch
            \/ script.pc \in BeforeLaunch /\ script'.gate = script.gate /\ script'.mode = script.mode
         /\ script'.pc = "complete" =>
               \/ script' = script
               \/ Finalize /\ script.pc = "finalize" /\ script'.gate = script.gate
                  /\ state[script.gate] = "PENDING_RESTORE"
<1>1. ASSUME NEW pc, Step(pc) PROVE script'.pc = pc /\ script'.gate = script.gate /\ script'.mode = script.mode
  BY <1>1 DEF Step, ScriptTypes
<1>2. Exit => script'.pc \notin BeforeLaunch \cup {"complete"}
  BY DEF Exit, NoScript, BeforeLaunch
<1>3. CASE Converge \/ StopProxy \/ Prepare \/ ScriptFails \/ Signal
  <2>1. \E pc : Step(pc) /\ pc # "complete" /\ (pc \in BeforeLaunch => script.pc \in BeforeLaunch)
    BY <1>3 DEF Converge, StopProxy, Prepare, ScriptFails, Signal, InScript, BeforeLaunch
  <2> QED
    BY <1>1, <2>1
<1>4. CASE Finalize
  <2>1. \/ Exit
        \/ Step("complete") /\ script.pc = "finalize" /\ state[script.gate] = "PENDING_RESTORE"
    BY <1>4 DEF Finalize, InScript
  <2> QED
    BY <1>1, <1>2, <1>4, <2>1 DEF BeforeLaunch
<1>5. CASE Complete \/ CutOff
  BY <1>2, <1>5 DEF Complete, CutOff
<1>6. CASE DriverEnded
  BY <1>6 DEF DriverEnded, ScriptTypes, BeforeLaunch
<1>7. CASE Inspect
  BY <1>2, <1>7 DEF Inspect, ScriptTypes, BeforeLaunch
<1>8. ASSUME NEW g \in Gates, StartRestore(g)
      PROVE  script'.pc = "restore"
  BY <1>8 DEF StartRestore
<1>9. CASE RedisForgets \/ \E g \in Gates : StartRestore(g) \/ Review(g)
  BY <1>8, <1>9 DEF RedisForgets, Review, BeforeLaunch
<1> QED
  BY <1>3, <1>4, <1>5, <1>6, <1>7, <1>9

LEMMA FreshStep ==
  ASSUME TypeInv, [Next]_vars
  PROVE  FreshDrivers'
<1>0. FreshDrivers /\ ScriptTypes /\ DriverTypes /\ FileTypes
  BY DEF TypeInv
<1>1. \A g \in Gates : <<g, "new">> \in Drivers /\ <<g, "resume">> \in Drivers
  BY DEF Drivers, Modes
<1>2. script.pc \in BeforeLaunch => Launched \in Drivers
  BY <1>0 DEF ScriptTypes, BeforeLaunch, Launched, Drivers
\* No driver comes up, no file goes, and the script is not before a launch or where it was.
<1>3. ASSUME \A d \in Drivers : Live(d)' => Live(d),
             \A g \in Gates : files[g] \subseteq files'[g],
             \/ script'.pc \notin BeforeLaunch
             \/ script.pc \in BeforeLaunch /\ script'.gate = script.gate /\ script'.mode = script.mode
      PROVE  FreshDrivers'
  <2>1. \A g \in Gates : /\ (files[g] = {})' => ~Live(<<g, "new">>)'
                         /\ ("pre_resume" \notin files[g])' => ~Live(<<g, "resume">>)'
    BY <1>0, <1>1, <1>3 DEF FreshDrivers
  <2>2. CASE script'.pc \notin BeforeLaunch
    BY <2>1, <2>2 DEF FreshDrivers
  <2>3. CASE script.pc \in BeforeLaunch /\ script'.gate = script.gate /\ script'.mode = script.mode
    <3>1. Launched' = Launched /\ script.gate \in Gates
      BY <1>0, <2>3 DEF Launched, ScriptTypes, BeforeLaunch
    <3>2. ~Live(Launched)'
      BY <1>0, <1>2, <1>3, <2>3, <3>1 DEF FreshDrivers
    <3> QED
      BY <1>0, <1>3, <2>1, <2>3, <3>1, <3>2 DEF FreshDrivers
  <2> QED
    BY <1>3, <2>2, <2>3
<1>4. CASE Launch
  <2>1. /\ Moves(Launched, "begin", "cohort", 1) /\ Launched \in Drivers
        /\ script.pc = "launch" /\ script'.pc = "driving" /\ files' = files
    BY <1>4, <1>0, LaunchMoves DEF Launch, InScript, Step, ScriptTypes, artifacts
  <2>2. \A d \in Drivers \ {Launched} : Live(d)' => Live(d)
    BY <2>1 DEF Moves, Live
  <2>3. script.mode = "new" => files[script.gate] # {}
    BY <1>0, <2>1 DEF FreshDrivers, BeforeLaunch
  <2>4. script.mode = "resume" => "pre_resume" \in files[script.gate]
    BY <1>0, <2>1 DEF FreshDrivers, BeforeLaunch
  <2>5. \A g \in Gates : /\ <<g, "new">> = Launched => files[g] # {}
                         /\ <<g, "resume">> = Launched => "pre_resume" \in files[g]
    BY <2>3, <2>4 DEF Launched
  <2>6. \A g \in Gates : /\ (files[g] = {})' => ~Live(<<g, "new">>)'
                         /\ ("pre_resume" \notin files[g])' => ~Live(<<g, "resume">>)'
    BY <1>0, <1>1, <2>1, <2>2, <2>5 DEF FreshDrivers
  <2>7. script'.pc \notin BeforeLaunch
    BY <2>1 DEF BeforeLaunch
  <2> QED
    BY <2>6, <2>7 DEF FreshDrivers
<1>5. ASSUME NEW g \in Gates, StartNew(g) \/ StartResume(g) PROVE FreshDrivers'
  <2>1. driver' = driver /\ script.pc = "idle" /\ \A h \in Gates : files[h] \subseteq files'[h]
    BY <1>0, <1>5 DEF StartNew, StartResume, FileTypes, InScript
  <2>2. CASE script'.pc \notin BeforeLaunch
    BY <1>3, <2>1, <2>2 DEF Live
  <2>3. CASE script'.pc \in BeforeLaunch
    <3>1. CASE StartNew(g)
      <4>1. files[g] = {}
        BY <2>3, <3>1 DEF StartNew, BeforeLaunch
      <4>2. /\ files' = [files EXCEPT ![g] = {"pre_gate"}] /\ script'.gate = g /\ script'.mode = "new"
            /\ Launched' = <<g, "new">>
        BY <3>1, <4>1 DEF StartNew, Launched
      <4>3. ~Live(<<g, "new">>) /\ files'[g] # {} /\ \A h \in Gates \ {g} : files'[h] = files[h]
        BY <1>0, <4>1, <4>2 DEF FreshDrivers, FileTypes
      <4>4. ~Live(<<g, "resume">>)
        BY <1>0, <4>1 DEF FreshDrivers
      <4> QED
        BY <1>0, <2>1, <4>2, <4>3, <4>4 DEF FreshDrivers, Live
    <3>2. CASE StartResume(g)
      <4>1. MayResume(g)
        BY <2>3, <3>2 DEF StartResume, BeforeLaunch
      <4>2. /\ files' = [files EXCEPT ![g] = @ \cup {"pre_resume"}]
            /\ script'.gate = g /\ script'.mode = "resume" /\ Launched' = <<g, "resume">>
        BY <3>2, <4>1 DEF StartResume, Launched
      <4>3. /\ ~Live(<<g, "resume">>) /\ "pre_resume" \in files'[g] /\ files'[g] # {}
            /\ \A h \in Gates \ {g} : files'[h] = files[h]
        BY <1>0, <4>1, <4>2 DEF FreshDrivers, FileTypes, MayResume
      <4> QED
        BY <1>0, <2>1, <4>2, <4>3 DEF FreshDrivers, Live
    <3> QED
      BY <1>5, <3>1, <3>2
  <2> QED
    BY <2>2, <2>3
<1>6. CASE \/ Converge \/ StopProxy \/ Prepare \/ DriverEnded \/ Inspect \/ Finalize \/ Complete
           \/ ScriptFails \/ Signal \/ CutOff \/ RedisForgets
           \/ \E g \in Gates : StartRestore(g) \/ Review(g)
  <2>1. \A d \in Drivers : Live(d)' => Live(d)
    <3>1. CASE DriverEnded \/ CutOff
      BY <1>0, <3>1 DEF DriverEnded, CutOff, Live, DriverTypes, NoDriver
    <3>2. CASE driver' = driver
      BY <3>2 DEF Live
    <3> QED
      BY <1>6, <3>1, <3>2 DEF Converge, StopProxy, Prepare, Inspect, Finalize, Complete, ScriptFails,
         Signal, RedisForgets, StartRestore, Review
  <2>2. \A g \in Gates : files[g] \subseteq files'[g]
    <3>1. CASE Inspect
      BY <1>0, <3>1 DEF Inspect, FileTypes
    <3>2. CASE ~Inspect
      BY <1>6, <3>2 DEF Converge, StopProxy, Prepare, DriverEnded, Finalize, Complete, ScriptFails,
         Signal, CutOff, RedisForgets, StartRestore, Review, artifacts
    <3> QED
      BY <3>1, <3>2
  <2>3. \/ script'.pc \notin BeforeLaunch
        \/ script.pc \in BeforeLaunch /\ script'.gate = script.gate /\ script'.mode = script.mode
    BY <1>0, <1>6, ScriptMoves
  <2> QED
    BY <1>3, <2>1, <2>2, <2>3
<1>7. ASSUME UNCHANGED <<script, files>>, \A d \in Drivers : Live(d)' => Live(d) PROVE FreshDrivers'
  BY <1>3, <1>7
<1>8. ASSUME NEW d \in Drivers, Drive(d) \/ DriverFails(d) PROVE FreshDrivers'
  <2>1. \A e \in Drivers : Live(e)' => Live(e)
    BY <1>8, OffStays DEF Live
  <2> QED
    BY <1>7, <1>8, <2>1, DriveFrame
<1>9. CASE (\E key \in Keys : Execute(key)) \/ UNCHANGED vars
  BY <1>7, <1>9 DEF Execute, vars, artifacts, Live
<1> QED
  BY <1>4, <1>5, <1>6, <1>8, <1>9 DEF Next, Script

LEMMA FilesStep ==
  ASSUME TypeInv, [Next]_vars
  PROVE  FileTypes'
<1>0. FileTypes /\ DriverTypes
  BY DEF TypeInv
<1>1. /\ files' \in [Gates -> SUBSET {"pre_gate", "pre_resume", "post_restore"}]
  <2>1. CASE UNCHANGED files
    BY <1>0, <2>1 DEF FileTypes
  <2>2. CASE Inspect
    BY <1>0, <2>2 DEF Inspect, FileTypes
  <2>3. ASSUME NEW g \in Gates, StartNew(g) \/ StartResume(g)
        PROVE  files' \in [Gates -> SUBSET {"pre_gate", "pre_resume", "post_restore"}]
    BY <1>0, <2>3 DEF StartNew, StartResume, FileTypes
  <2> QED
    BY <2>1, <2>2, <2>3, WhoSteps, OutsideFrame, DriveFrame, ExecuteFrame DEF vars, artifacts
<1>2. review' \in [Gates -> {"none", "blank", "agrees", "disagrees"}]
  <2>1. CASE UNCHANGED review
    BY <1>0, <2>1 DEF FileTypes
  <2>2. ASSUME NEW g \in Gates, Review(g)
        PROVE  review' \in [Gates -> {"none", "blank", "agrees", "disagrees"}]
    BY <1>0, <2>2 DEF Review, FileTypes
  <2>3. ASSUME NEW d \in Drivers, WriteEvidence(d)
        PROVE  review' \in [Gates -> {"none", "blank", "agrees", "disagrees"}]
    <3>1. review' = [review EXCEPT ![d[1]] = "blank"] \/ review' = review
      BY <2>3 DEF WriteEvidence
    <3> QED
      BY <1>0, <3>1 DEF FileTypes
  <2> QED
    BY <2>1, <2>2, <2>3, WhoSteps, OutsideFrame, DriveFrame, ExecuteFrame DEF vars, artifacts
<1>3. state' \in [Gates -> {"none", "PENDING_HUMAN", "PENDING_RESTORE", "COMPLETE"}]
  <2>1. CASE UNCHANGED state
    BY <1>0, <2>1 DEF FileTypes
  <2>2. ASSUME NEW d \in Drivers, WriteState(d) \/ WritePendingRestore(d)
        PROVE  state' \in [Gates -> {"none", "PENDING_HUMAN", "PENDING_RESTORE", "COMPLETE"}]
    BY <1>0, <2>2 DEF WriteState, WritePendingRestore, FileTypes
  <2>3. CASE Complete
    BY <1>0, <2>3 DEF Complete, FileTypes
  <2> QED
    BY <2>1, <2>2, <2>3, WhoSteps, OutsideFrame, DriveFrame, ExecuteFrame DEF vars, artifacts
<1>4. {rows', manifest'} \subseteq Gates \cup {Nobody}
  <2>1. \A d \in Drivers : d[1] \in Gates
    BY DEF Drivers
  <2>2. rows' \in Gates \cup {Nobody}
    BY <1>0, <2>1, WhoSteps, OutsideFrame, DriveFrame, ExecuteFrame
       DEF BuildDataset, FileTypes, vars, artifacts
  <2>3. manifest' \in Gates \cup {Nobody}
    BY <1>0, <2>1, WhoSteps, OutsideFrame, DriveFrame, ExecuteFrame
       DEF DescribeDataset, FileTypes, vars, artifacts
  <2> QED
    BY <2>2, <2>3
<1> QED
  BY <1>1, <1>2, <1>3, <1>4 DEF FileTypes

CriteriaNames == {"evidence", "human_review", "replay", "restored"}

\* The criteria of one gate.
GoodCriteria(c) == /\ DOMAIN c \subseteq CriteriaNames
                   /\ \A name \in DOMAIN c : c[name] \in Statuses

LEMMA CriteriaStep ==
  ASSUME TypeInv, [Next]_vars
  PROVE  CriteriaTypes'
<1>0. DOMAIN criteria = Gates /\ \A g \in Gates : GoodCriteria(criteria[g])
  BY DEF TypeInv, CriteriaTypes, GoodCriteria, CriteriaNames
<1>1. ASSUME DOMAIN criteria' = Gates, \A g \in Gates : GoodCriteria(criteria'[g]) PROVE CriteriaTypes'
  BY <1>1 DEF CriteriaTypes, GoodCriteria, CriteriaNames
<1>2. CASE UNCHANGED criteria
  BY <1>0, <1>1, <1>2
<1>3. ASSUME NEW g \in Gates, NEW c, GoodCriteria(c), criteria' = [criteria EXCEPT ![g] = c]
      PROVE  CriteriaTypes'
  BY <1>0, <1>1, <1>3
<1>4. CASE Finalize
  <2>1. CASE UNCHANGED criteria
    BY <1>2, <2>1
  <2>2. CASE criteria' = Restored(script.gate)
    <3>1. script.gate \in Gates
      BY <1>4 DEF TypeInv, ScriptTypes, Finalize, InScript
    <3> DEFINE c == [criteria[script.gate] EXCEPT !["restored"] = "PASS"]
    <3>2. GoodCriteria(c)
      BY <1>0, <3>1 DEF GoodCriteria, Statuses
    <3>3. criteria' = [criteria EXCEPT ![script.gate] = c]
      BY <2>2 DEF Restored
    <3> HIDE DEF c
    <3> QED
      BY <1>3, <3>1, <3>2, <3>3
  <2> QED
    BY <1>4, <2>1, <2>2 DEF Finalize
<1>5. ASSUME NEW d \in Drivers, WriteGate(d) PROVE CriteriaTypes'
  <2>1. d[1] \in Gates
    BY DEF Drivers
  <2> DEFINE c == [evidence |-> IF driver[d].clean THEN "PASS" ELSE "FAIL", human_review |-> "PENDING"]
  <2>2. GoodCriteria(c)
    BY DEF GoodCriteria, Statuses, CriteriaNames
  <2>3. criteria' = [criteria EXCEPT ![d[1]] = c]
    BY <1>5 DEF WriteGate
  <2> HIDE DEF c
  <2> QED
    BY <1>3, <2>1, <2>2, <2>3
<1>6. ASSUME NEW d \in Drivers, WriteCriteria(d) PROVE CriteriaTypes'
  <2>1. d[1] \in Gates
    BY DEF Drivers
  <2> DEFINE prior == criteria[d[1]]
             c == [name \in (DOMAIN prior) \cup {"human_review", "replay", "restored"} |->
                       IF name = "restored" THEN "PENDING"
                       ELSE IF name \in {"human_review", "replay"} THEN "PASS" ELSE prior[name]]
  <2>2. GoodCriteria(c)
    BY <1>0, <2>1 DEF GoodCriteria, Statuses, CriteriaNames
  <2>3. criteria' = [criteria EXCEPT ![d[1]] = c] \/ UNCHANGED criteria
    BY <1>6 DEF WriteCriteria
  <2> HIDE DEF c
  <2> QED
    BY <1>2, <1>3, <2>1, <2>2, <2>3
<1> QED
  BY <1>2, <1>4, <1>5, <1>6, WhoSteps, OutsideFrame, DriveFrame, ExecuteFrame DEF vars, artifacts

LEMMA BoundsStep ==
  ASSUME TypeInv, [Next]_vars
  PROVE  BoundTypes'
<1>0. BoundTypes /\ MaxFaults \in Nat
  BY BoundsAssumption DEF TypeInv
<1>1. stray' \in BOOLEAN
  BY <1>0, WhoSteps, OutsideFrame, DriveFrame, ExecuteFrame
     DEF Converge, Signal, CutOff, InScript, BoundTypes, vars, bounds
<1>2. faults' = faults \/ (faults < MaxFaults /\ faults' = faults + 1)
  BY WhoSteps, OutsideFrame, DriveFrame, ExecuteFrame
     DEF DriverFails, ScriptFails, Signal, CutOff, vars, bounds
<1> QED
  BY <1>0, <1>1, <1>2 DEF BoundTypes

LEMMA TypeStep == TypeInv /\ [Next]_vars => TypeInv'
<1> SUFFICES ASSUME TypeInv, [Next]_vars PROVE TypeInv'
  OBVIOUS
<1>1. ServiceTypes' /\ DatabaseTypes' /\ ScriptTypes' /\ DriverTypes' /\ FreshDrivers'
  BY ServicesStep, DatabasesStep, ScriptStep, DriversStep, FreshStep
<1>2. FileTypes' /\ CriteriaTypes' /\ BoundTypes'
  BY FilesStep, CriteriaStep, BoundsStep
<1> QED
  BY <1>1, <1>2 DEF TypeInv

LEMMA TypeInit == Init => TypeInv
<1> SUFFICES ASSUME Init PROVE TypeInv
  OBVIOUS
<1>1. ServiceTypes /\ DatabaseTypes
  BY DEF Init, ServiceTypes, DatabaseTypes, Databases
<1>2. ScriptTypes
  BY DEF Init, NoScript, ScriptTypes, ScriptPcs
<1>3. DriverTypes
  <2>1. NoDriver \in DriverRec /\ \A d : Shape(d, NoDriver.pc, NoDriver.purpose, NoDriver.n)
    BY OffShape DEF NoDriver, DriverRec, DriverPcs, Purposes
  <2> QED
    BY <2>1 DEF Init, DriverTypes, ShapeOf
<1>4. FreshDrivers
  <2>1. \A g \in Gates : <<g, "new">> \in Drivers /\ <<g, "resume">> \in Drivers
    BY DEF Drivers, Modes
  <2>2. \A d \in Drivers : ~Live(d)
    BY DEF Init, Live, NoDriver
  <2> QED
    BY <2>1, <2>2 DEF Init, NoScript, BeforeLaunch, FreshDrivers
<1>5. FileTypes /\ BoundTypes
  <2>1. FileTypes
    BY DEF Init, FileTypes
  <2>2. stray \in BOOLEAN
    BY DEF Init
  <2>3. faults \in 0..MaxFaults
    BY BoundsAssumption DEF Init
  <2> QED
    BY <2>1, <2>2, <2>3 DEF BoundTypes
<1>6. CriteriaTypes
  BY DEF Init, CriteriaTypes
<1> QED
  BY <1>1, <1>2, <1>3, <1>4, <1>5, <1>6 DEF TypeInv

\* The types hold in every reachable state: in particular no driver goes beyond the last
\* case of its cohort or the last item of its dataset.
THEOREM TypeCorrect == Spec => []TypeOK
<1>1. TypeInv => TypeOK
  <2> SUFFICES ASSUME TypeInv PROVE TypeOK
    OBVIOUS
  <2>1. \A d \in Drivers : driver[d] \in
          [pc: DriverPcs, rc: {"none", "failed", "pending", "ok"}, purpose: Purposes,
           n: 1..Count(driver[d].purpose), seen: (SUBSET Keys) \X (SUBSET Keys), clean: BOOLEAN]
    BY DEF TypeInv, DriverTypes, DriverRec, ShapeOf, Shape
  <2> QED
    BY <2>1 DEF TypeInv, TypeOK, ServiceTypes, DatabaseTypes, ScriptTypes, FileTypes, CriteriaTypes,
       BoundTypes
<1> QED
  BY <1>1, TypeInit, TypeStep, PTL DEF Spec
-----------------------------------------------------------------------------
(* What the script leaves behind                                             *)

\* A driver that has not outlived its script runs while the script waits for it; after the
\* first half of a convergence the services are back, after the second the proxy is gone.
PlaneInv ==
    ~stray =>
        /\ \A d \in Drivers : Live(d) => script.pc = "driving" /\ d = Launched
        /\ script.pc \notin {"converge", "restore", "driving"} => plane = Normal /\ worker
        /\ script.pc \in {"prepare", "launch", "inspect", "finalize", "complete", "idle"}
             => proxy = Nobody

LEMMA PlaneStep ==
  ASSUME TypeInv, PlaneInv, [Next]_vars
  PROVE  PlaneInv'
<1>0. ScriptTypes /\ DriverTypes /\ script.pc \in ScriptPcs
  BY DEF TypeInv, ScriptTypes
<1>1. ASSUME UNCHANGED <<stray, script, driver, plane, worker, proxy>> PROVE PlaneInv'
  BY <1>1 DEF PlaneInv, Live, Launched
\* The script moves on, nobody drives and the services stay as they are.
<1>3. ASSUME NEW pc, script'.pc = pc, script.pc # "driving", stray' = stray, UNCHANGED services,
             UNCHANGED driver,
             pc \notin {"converge", "restore", "driving"} =>
                script.pc \notin {"converge", "restore", "converge_proxy", "restore_proxy"},
             pc # "driving"
      PROVE  PlaneInv'
  <2> SUFFICES ASSUME ~stray' PROVE PlaneInv'
    BY DEF PlaneInv
  <2>1. \A d \in Drivers : ~Live(d)'
    BY <1>3 DEF PlaneInv, Live
  <2>2. pc \notin {"converge", "restore", "driving"} => plane = Normal /\ worker /\ proxy = Nobody
    BY <1>0, <1>3 DEF PlaneInv, ScriptPcs
  <2> QED
    BY <1>3, <2>1, <2>2 DEF PlaneInv, services
<1>4. \A pc : Step(pc) => script'.pc = pc
  BY <1>0 DEF Step, ScriptTypes
<1>5. Exit => script'.pc = "idle"
  BY DEF Exit, NoScript
<1>6. CASE Converge
  <2> SUFFICES ASSUME ~stray' PROVE PlaneInv'
    BY DEF PlaneInv
  <2>1. /\ script.pc \in {"converge", "restore"} /\ driver' = driver
        /\ plane' = Normal /\ worker' = TRUE /\ script'.pc \in {"converge_proxy", "restore_proxy"}
    BY <1>4, <1>6 DEF Converge, InScript, Recreate
  <2>2. \A d \in Drivers : ~Live(d)'
    <3>1. \A d \in Drivers : ~Live(d)
      BY <1>6, <2>1 DEF Converge, PlaneInv
    <3> QED
      BY <2>1, <3>1 DEF Live
  <2> QED
    BY <2>1, <2>2 DEF PlaneInv
<1>7. CASE StopProxy
  <2>1. /\ script.pc \in {"converge_proxy", "restore_proxy"} /\ script'.pc \in {"prepare", "inspect"}
        /\ proxy' = Nobody /\ UNCHANGED <<plane, worker, driver, stray>>
    BY <1>4, <1>7 DEF StopProxy, InScript, bounds
  <2> QED
    BY <2>1 DEF PlaneInv, Live
<1>8. CASE Launch
  <2>1. /\ Launched' = Launched /\ script'.pc = "driving" /\ script.pc = "launch" /\ stray' = stray
        /\ \A d \in Drivers \ {Launched} : driver'[d] = driver[d]
    BY <1>4, <1>8, LaunchMoves DEF Launch, InScript, Moves, bounds
  <2> QED
    BY <2>1 DEF PlaneInv, Live
<1>9. CASE DriverEnded
  <2>1. script'.pc = "restore" /\ script.pc = "driving" /\ stray' = stray
    BY <1>0, <1>9 DEF DriverEnded, InScript, ScriptTypes, bounds
  <2>2. \A d \in Drivers : Live(d)' => Live(d) /\ d # Launched
    BY <1>0, <1>9 DEF DriverEnded, Live, NoDriver, DriverTypes
  <2> QED
    BY <2>1, <2>2 DEF PlaneInv
<1>10. CASE Prepare \/ Finalize \/ Complete \/ ScriptFails \/ (Signal /\ script.pc # "driving")
  <2>1. script.pc # "driving" /\ UNCHANGED <<services, driver>>
    BY <1>10 DEF Prepare, Finalize, Complete, ScriptFails, Signal, InScript, bounds
  <2>a. stray' = stray
    BY <1>10 DEF Prepare, Finalize, Complete, ScriptFails, Signal, InScript, bounds, TypeInv, BoundTypes
  <2>2. CASE Prepare \/ Finalize \/ Complete
    <3>1. script'.pc \in {"launch", "restore", "complete", "idle"} /\ script.pc \in {"prepare", "finalize", "complete"}
      BY <1>4, <1>5, <2>2 DEF Prepare, Finalize, Complete, InScript
    <3> QED
      BY <1>3, <2>1, <2>a, <3>1
  <2>3. CASE ScriptFails \/ Signal
    <3>1. script'.pc = "restore"
      BY <1>4, <2>3 DEF ScriptFails, Signal
    <3> QED
      BY <1>3, <2>1, <2>a, <3>1
  <2> QED
    BY <1>10, <2>2, <2>3
<1>11. CASE Inspect
  <2>1. /\ script'.pc \in {"idle", "finalize"} /\ script.pc = "inspect"
        /\ UNCHANGED <<services, driver>> /\ stray' = stray
    BY <1>0, <1>5, <1>11 DEF Inspect, InScript, ScriptTypes, bounds
  <2> QED
    BY <1>3, <2>1
<1>12. CASE (Signal /\ script.pc = "driving") \/ CutOff
  <2>1. stray' = TRUE
    BY <1>12 DEF Signal, CutOff, InScript, TypeInv, BoundTypes
  <2> QED
    BY <2>1 DEF PlaneInv
<1>13. ASSUME NEW g \in Gates, StartNew(g) \/ StartResume(g) \/ StartRestore(g) PROVE PlaneInv'
  <2>1. /\ script'.pc \in {"converge", "restore"} /\ script.pc = "idle"
        /\ UNCHANGED <<services, driver>> /\ stray' = stray
    BY <1>13 DEF StartNew, StartResume, StartRestore, InScript, bounds
  <2> QED
    BY <1>3, <2>1
<1>14. ASSUME NEW d \in Drivers, Drive(d) \/ DriverFails(d) PROVE PlaneInv'
  <2>1. UNCHANGED <<script, stray>> /\ Launched' = Launched
    BY <1>14, DriveFrame DEF Launched
  <2>2. Live(d)
    BY <1>14 DEF Drive, DriverFails, Live, At, BeginNew, Submit, EndRun, TimeOut, WriteManifest,
       WriteEvidence, Capture, StopWorker, RestartWorker, TestRuntime, WriteState, WriteGate,
       BeginResume, BuildDataset, DescribeDataset, StartReplay, AssertQuiescent, WriteCriteria,
       WritePendingRestore
  <2>3. \A e \in Drivers : Live(e)' => Live(e)
    BY <1>14, OffStays DEF Live
  <2> QED
    BY <2>1, <2>2, <2>3 DEF PlaneInv
<1>15. CASE RedisForgets \/ (\E g \in Gates : Review(g)) \/ (\E key \in Keys : Execute(key)) \/ UNCHANGED vars
  <2>1. UNCHANGED <<stray, script, driver, plane, worker, proxy>>
    BY <1>15 DEF RedisForgets, Review, Execute, vars, services, bounds
  <2> QED
    BY <1>1, <2>1
<1> QED
  BY <1>6, <1>7, <1>8, <1>9, <1>10, <1>11, <1>12, <1>13, <1>14, <1>15 DEF Next, Script

\* Between two scripts the ordinary services run again, on the ordinary database, with a worker
\* and without the proxy, unless a driver outlived its script or a trap was cut off.
THEOREM ServicesAreRestored == Spec => []ServicesRestored
<1>1. Init => TypeInv /\ PlaneInv
  <2> SUFFICES ASSUME Init PROVE PlaneInv
    BY TypeInit
  <2>1. \A d \in Drivers : ~Live(d)
    BY DEF Init, Live, NoDriver
  <2> QED
    BY <2>1 DEF Init, PlaneInv
<1>2. TypeInv /\ PlaneInv /\ [Next]_vars => (TypeInv /\ PlaneInv)'
  BY TypeStep, PlaneStep
<1>3. PlaneInv => ServicesRestored
  BY DEF PlaneInv, ServicesRestored
<1> QED
  BY <1>1, <1>2, <1>3, PTL DEF Spec
-----------------------------------------------------------------------------
(* The runs of a driver: those to come, those done                           *)

In(key, db) == key \in queued[db] \cup ended[db]
Nowhere(key) == \A db \in Databases : ~In(key, db)
Settled(key) == key \in ended[Home(key)]
AllSettled(g, purposes) == \A key \in KeysFor(g, purposes) : Settled(key)

\* A key is submitted once, so its run is in one database.
OnePlace == \A key \in Keys : \A a, b \in Databases : In(key, a) /\ In(key, b) => a = b

Rank(p) == CASE p = "cohort" -> 0 [] p = "control" -> 1 [] p = "capture_off" -> 2
             [] p = "live1" -> 3 [] OTHER -> 4

\* Where the run the driver is at is still to be submitted, and where it is over.
Ready == {"begin", "submit", "runtime", "quiet"}
Past  == {"test_runtime", "state", "gate", "criteria", "pending_restore"}

Todo(d, pc, p, n) ==
    {key \in KeysOf(d) : \/ Rank(key[2]) > Rank(p)
                         \/ key[2] = p /\ key[3] > n /\ pc \in Ready \cup {"await"}
                         \/ key[2] = p /\ key[3] = n /\ pc \in Ready}
\* Of the cases of the cohort nothing is known before the export finds them.
Done(d, pc, p, n) ==
    {key \in KeysOf(d) : \/ Rank(key[2]) < Rank(p)
                         \/ key[2] = p /\ p # "cohort" /\ (key[3] < n \/ pc \in Past)}

LEMMA OwnKey ==
  ASSUME NEW d \in Drivers, NEW key \in KeysOf(d)
  PROVE  /\ key \in Keys /\ key[1] = d[1] /\ key[2] \in Own(d) /\ key[2] \in Purposes
         /\ key[3] \in 1..Count(key[2]) /\ key[3] \in Nat /\ key = <<key[1], key[2], key[3]>>
<1>1. key \in Keys /\ key[1] = d[1] /\ key[2] \in Own(d)
  BY DEF KeysOf, KeysFor
<1>2. PICK g \in Gates, p \in Purposes, n \in Nat : n \in 1..Count(p) /\ key = <<g, p, n>>
  BY <1>1, KeyIs
<1> QED
  BY <1>1, <1>2

LEMMA DriversApart ==
  ASSUME NEW d \in Drivers, NEW e \in Drivers, NEW key \in KeysOf(d), key \in KeysOf(e)
  PROVE  d = e
<1>1. d = <<d[1], d[2]>> /\ e = <<e[1], e[2]>> /\ d[2] \in {"new", "resume"} /\ e[2] \in {"new", "resume"}
  BY DEF Drivers, Modes
<1>2. d[1] = e[1] /\ key[2] \in Own(d) /\ key[2] \in Own(e)
  BY OwnKey
<1>3. d[2] = e[2]
  BY <1>1, <1>2 DEF Own, NewPurposes, LivePurposes
<1> QED
  BY <1>1, <1>2, <1>3

LEMMA SubmitsOwn ==
  ASSUME TypeInv, NEW d \in Drivers, Submit(d)
  PROVE  /\ Key(d) \in KeysOf(d) /\ Live(d)
         /\ Key(d) \in Todo(d, driver[d].pc, driver[d].purpose, driver[d].n)
         /\ Key(d)[1] = d[1] /\ Key(d)[2] = driver[d].purpose /\ Key(d)[3] = driver[d].n
<1>1. driver[d].pc = "submit" /\ driver[d].purpose \in Own(d)
  BY DEF Submit, At, TypeInv, DriverTypes, ShapeOf, Shape
<1>2. Key(d) \in KeysOf(d)
  BY <1>1, KeyOfDriver DEF TypeInv
<1>3. Key(d)[1] = d[1] /\ Key(d)[2] = driver[d].purpose /\ Key(d)[3] = driver[d].n
  BY DEF Key
<1> QED
  BY <1>1, <1>2, <1>3 DEF Todo, Live, Ready

LEMMA RunsMove ==
  ASSUME TypeInv, [Next]_vars, NEW key \in Keys, NEW db \in Databases
  PROVE  /\ key \in ended[db] => key \in ended'[db]
         /\ In(key, db) => In(key, db)'
         /\ In(key, db)' => \/ In(key, db)
                            \/ \E d \in Drivers : Submit(d) /\ key = Key(d) /\ db = plane
<1>0. DatabaseTypes
  BY DEF TypeInv
<1>1. CASE UNCHANGED <<queued, ended>>
  BY <1>1 DEF In
<1>2. ASSUME NEW d \in Drivers, Submit(d)
      PROVE  /\ key \in ended[db] => key \in ended'[db]
             /\ In(key, db) => In(key, db)'
             /\ In(key, db)' => In(key, db) \/ (key = Key(d) /\ db = plane)
  <2>1. ended' = ended /\ (queued' = queued \/ queued' = [queued EXCEPT ![plane] = @ \cup {Key(d)}])
    BY <1>2 DEF Submit
  <2> QED
    BY <1>0, <2>1 DEF In, DatabaseTypes
<1>3. ASSUME NEW k \in Keys, Execute(k)
      PROVE  /\ key \in ended[db] => key \in ended'[db]
             /\ In(key, db) => In(key, db)'
             /\ In(key, db)' => In(key, db)
  BY <1>0, <1>3 DEF In, Execute, DatabaseTypes
<1> QED
  BY <1>1, <1>2, <1>3, WhoSteps, OutsideFrame, DriveFrame DEF vars, database

LEMMA SettledStays ==
  ASSUME TypeInv, [Next]_vars, NEW key \in Keys, Settled(key)
  PROVE  Settled(key)'
BY RunsMove, HomeIs DEF Settled

\* Only its own driver brings a run about.
LEMMA NowhereStays ==
  ASSUME TypeInv, [Next]_vars, NEW d \in Drivers, NEW key \in KeysOf(d), Nowhere(key),
         ~(Submit(d) /\ key = Key(d))
  PROVE  Nowhere(key)'
<1>1. key \in Keys
  BY OwnKey
<1>2. ASSUME NEW db \in Databases, In(key, db)' PROVE FALSE
  <2>1. PICK e \in Drivers : Submit(e) /\ key = Key(e)
    BY <1>1, <1>2, RunsMove DEF Nowhere
  <2>2. Key(e) \in KeysOf(e)
    BY <2>1, SubmitsOwn
  <2> QED
    BY <2>1, <2>2, DriversApart
<1> QED
  BY <1>2 DEF Nowhere

\* At its last stage a driver has all its runs behind it.
LEMMA AllDone ==
  ASSUME NEW d \in Drivers
  PROVE  /\ \A n : Done(d, "state", "capture_off", n) = KeysOf(d) \/ d[2] # "new"
         /\ \A n : /\ Done(d, "criteria", "live2", n) = KeysOf(d)
                   /\ Done(d, "pending_restore", "live2", n) = KeysOf(d)
<1>1. ASSUME NEW key \in KeysOf(d)
      PROVE  /\ d[2] = "new" => Rank(key[2]) < Rank("capture_off") \/ key[2] = "capture_off"
             /\ Rank(key[2]) < Rank("live2") \/ key[2] = "live2"
  <2>1. key[2] \in Own(d) /\ key[2] \in Purposes
    BY OwnKey
  <2> QED
    BY <2>1 DEF Rank, Own, NewPurposes, Purposes
<1> QED
  BY <1>1 DEF Done, Past
-----------------------------------------------------------------------------
(* What a driver has seen to                                                 *)

\* The runs of a driver that drives: those to come are nowhere, those done have ended where
\* they belong; the requeue control, once its first turn is on record, is where it belongs.
RunsInv(d) ==
    Live(d) =>
        /\ \A key \in Todo(d, driver[d].pc, driver[d].purpose, driver[d].n) : Nowhere(key)
        /\ \A key \in Done(d, driver[d].pc, driver[d].purpose, driver[d].n) : Settled(key)
        /\ driver[d].pc \in {"stop", "restart"}
              \/ (driver[d].pc = "await" /\ driver[d].purpose = "control")
            => In(Key(d), Home(Key(d)))

\* What a resume rests on.
ResumeInv(d) ==
    /\ d[2] = "resume" /\ driver[d].pc \notin {"off", "begin"} => state[d[1]] # "none"
    /\ driver[d].pc = "describe" \/ driver[d].purpose \in LivePurposes
         => review[d[1]] = "agrees" /\ rows = d[1]
    /\ driver[d].purpose \in LivePurposes => manifest = d[1]

\* Nothing has been done for a mode of a gate.
Untouched(d) == (\A key \in KeysOf(d) : Nowhere(key)) /\ (d[2] = "new" => state[d[1]] = "none")

\* What the artifacts of a gate say.
GateInv(g) ==
    /\ state[g] # "none" => /\ driver[<<g, "new">>].pc \in {"off", "gate"}
                            /\ AllSettled(g, NewPurposes)
    /\ state[g] \in {"PENDING_RESTORE", "COMPLETE"} => AllSettled(g, LivePurposes)
    /\ files[g] = {} => Untouched(<<g, "new">>)
    /\ "pre_resume" \notin files[g] => Untouched(<<g, "resume">>)

CriteriaInv(g) ==
    /\ DOMAIN criteria[g] # {} => "human_review" \in DOMAIN criteria[g]
    /\ "human_review" \in DOMAIN criteria[g] /\ criteria[g]["human_review"] = "PASS"
         => /\ state[g] # "none" /\ AllSettled(g, LivePurposes)
            /\ review[g] = "agrees" /\ rows = g /\ manifest = g

LaunchInv ==
    /\ script.pc \in BeforeLaunch => Untouched(Launched)
    /\ script.pc = "complete" => state[script.gate] \in {"PENDING_RESTORE", "COMPLETE"}

EvidenceInv ==
    /\ TypeInv /\ OnePlace /\ LaunchInv
    /\ \A d \in Drivers : RunsInv(d) /\ ResumeInv(d)
    /\ \A g \in Gates : GateInv(g) /\ CriteriaInv(g)

LEMMA OnePlaceStep ==
  ASSUME EvidenceInv, [Next]_vars
  PROVE  OnePlace'
<1>1. SUFFICES ASSUME NEW key \in Keys, NEW a \in Databases, NEW b \in Databases, In(key, a)', In(key, b)'
               PROVE  a = b
  BY DEF OnePlace
<1>2. CASE \E d \in Drivers : Submit(d) /\ key = Key(d)
  <2>1. PICK d \in Drivers : Submit(d) /\ key = Key(d)
    BY <1>2
  <2>2. Nowhere(key)
    BY <2>1, SubmitsOwn DEF EvidenceInv, RunsInv
  <2>3. a = plane /\ b = plane
    BY <1>1, <2>2, RunsMove DEF Nowhere, EvidenceInv
  <2> QED
    BY <2>3
<1>3. CASE ~ \E d \in Drivers : Submit(d) /\ key = Key(d)
  BY <1>1, <1>3, RunsMove DEF OnePlace, EvidenceInv
<1> QED
  BY <1>2, <1>3
\* A run that was to come and is still to come is nowhere after the step as well, and what
\* was done, or is settled now, stays done.
LEMMA RunsKept ==
  ASSUME EvidenceInv, [Next]_vars, NEW d \in Drivers, Live(d), NEW pc, NEW p, NEW n,
         driver'[d].pc = pc, driver'[d].purpose = p, driver'[d].n = n,
         Todo(d, pc, p, n) \subseteq Todo(d, driver[d].pc, driver[d].purpose, driver[d].n),
         Submit(d) => Key(d) \notin Todo(d, pc, p, n),
         \A key \in Done(d, pc, p, n) :
            key \in Done(d, driver[d].pc, driver[d].purpose, driver[d].n) \/ Settled(key),
         pc \in {"stop", "restart"} \/ (pc = "await" /\ p = "control")
            => Key(d)' = Key(d) /\ In(Key(d), Home(Key(d)))
  PROVE  RunsInv(d)'
<1>1. TypeInv /\ RunsInv(d)
  BY DEF EvidenceInv
<1>2. \A key \in Todo(d, pc, p, n) : Nowhere(key)'
  <2>1. \A key \in Todo(d, pc, p, n) : key \in KeysOf(d) /\ Nowhere(key)
    BY <1>1 DEF RunsInv, Todo
  <2> QED
    BY <1>1, <2>1, NowhereStays
<1>3. \A key \in Done(d, pc, p, n) : Settled(key)'
  <2>1. \A key \in Done(d, pc, p, n) : key \in Keys /\ Settled(key)
    BY <1>1, OwnKey DEF RunsInv, Done
  <2> QED
    BY <1>1, <2>1, SettledStays
<1>4. pc \in {"stop", "restart"} \/ (pc = "await" /\ p = "control") => In(Key(d), Home(Key(d)))'
  <2>1. Key(d) \in Keys /\ Home(Key(d)) \in Databases
    BY <1>1, KeyOfDriver DEF TypeInv
  <2>2. In(Key(d), Home(Key(d))) => (In(Key(d), Home(Key(d))))' \/ Key(d)' # Key(d)
    <3>1. PICK key \in Keys, db \in Databases : key = Key(d) /\ db = Home(Key(d))
      BY <2>1
    <3>2. In(key, db) => In(key, db)'
      BY <1>1, RunsMove
    <3>3. Key(d)' = Key(d) => key = Key(d)' /\ db = Home(Key(d)')
      BY <3>1
    <3> QED
      BY <3>1, <3>2, <3>3 DEF In
  <2> QED
    BY <2>2
<1> QED
  BY <1>2, <1>3, <1>4 DEF RunsInv

LEMMA KeyKept ==
  ASSUME NEW d \in Drivers, driver'[d].purpose = driver[d].purpose, driver'[d].n = driver[d].n
  PROVE  Key(d)' = Key(d)
BY DEF Key

LEMMA RunsStay ==
  ASSUME EvidenceInv, [Next]_vars, NEW d \in Drivers, driver'[d] = driver[d]
  PROVE  RunsInv(d)'
<1>1. ~Submit(d)
  <2>1. SUFFICES ASSUME Submit(d) PROVE FALSE
    OBVIOUS
  <2>2. driver'[d].pc # "submit" /\ driver[d].pc = "submit"
    BY <2>1, RunPath DEF EvidenceInv, Moves, Submit, At
  <2> QED
    BY <2>2
<1>2. CASE Live(d)
  <2>1. RunsInv(d) /\ Key(d)' = Key(d)
    BY KeyKept DEF EvidenceInv
  <2> DEFINE pc == driver[d].pc
             p == driver[d].purpose
             n == driver[d].n
  <2>2. pc \in {"stop", "restart"} \/ (pc = "await" /\ p = "control")
          => Key(d)' = Key(d) /\ In(Key(d), Home(Key(d)))
    BY <1>2, <2>1 DEF RunsInv
  <2>3. driver'[d].pc = pc /\ driver'[d].purpose = p /\ driver'[d].n = n
    OBVIOUS
  <2>4. \A key \in Done(d, pc, p, n) : key \in Done(d, driver[d].pc, driver[d].purpose, driver[d].n)
    OBVIOUS
  <2>5. Todo(d, pc, p, n) \subseteq Todo(d, driver[d].pc, driver[d].purpose, driver[d].n)
    OBVIOUS
  <2> HIDE DEF pc, p, n
  <2> QED
    BY <1>1, <1>2, <2>2, <2>3, <2>4, <2>5, RunsKept
<1>3. CASE ~Live(d)
  BY <1>3 DEF Live, RunsInv
<1> QED
  BY <1>2, <1>3

\* The run at the end of a wait has ended where it belongs; of the cohort this is left open.
LEMMA EndedAtHome ==
  ASSUME EvidenceInv, NEW d \in Drivers, EndRun(d), driver[d].purpose # "cohort"
  PROVE  Settled(Key(d))
<1>1. /\ Key(d) \in Keys /\ Key(d)[2] = driver[d].purpose /\ plane \in Databases
      /\ Home(Key(d)) \in Databases
  BY KeyOfDriver DEF EvidenceInv, TypeInv, ServiceTypes, Key
<1>2. At(d, "await") /\ Key(d) \in ended[Watched(d)]
  BY DEF EndRun, HasEnded
<1>3. CASE driver[d].purpose = "control"
  <2>1. In(Key(d), Home(Key(d)))
    BY <1>2, <1>3 DEF At, Live, EvidenceInv, RunsInv
  <2>2. Key(d) \in ended[plane]
    BY <1>2, <1>3 DEF Watched
  <2>3. In(Key(d), plane)
    BY <2>2 DEF In
  <2>4. plane = Home(Key(d))
    BY <1>1, <2>1, <2>3 DEF EvidenceInv, OnePlace
  <2> QED
    BY <2>2, <2>4 DEF Settled
<1>4. CASE driver[d].purpose # "control"
  BY <1>2, <1>4 DEF Watched, Settled
<1> QED
  BY <1>3, <1>4

LEMMA EndRunRuns ==
  ASSUME EvidenceInv, [Next]_vars, NEW d \in Drivers, EndRun(d)
  PROVE  RunsInv(d)'
<1> DEFINE p == driver[d].purpose
           n == driver[d].n
<1>1. /\ driver[d].pc = "await" /\ Live(d) /\ p \in Own(d) /\ n \in 1..Count(p) /\ p \in Purposes
      /\ n \in Nat /\ Count(p) \in Nat
  BY CountPositive DEF EvidenceInv, TypeInv, DriverTypes, DriverRec, ShapeOf, Shape, EndRun, At, Live
<1>2. ~Submit(d)
  BY <1>1 DEF Submit, At
<1>3. \A key \in KeysOf(d) : /\ key[2] \in Purposes /\ key[3] \in 1..Count(key[2]) /\ key[3] \in Nat
                             /\ key[2] = p /\ key[3] = n => key = Key(d)
  BY OwnKey DEF Key
<1>4. p # "cohort" => Settled(Key(d))
  BY EndedAtHome
<1>5. Todo(d, "await", p, n) = Todo(d, driver[d].pc, p, n) /\ Done(d, "await", p, n) = Done(d, driver[d].pc, p, n)
  BY <1>1
<1>6. CASE Moves(d, "off", "cohort", 1)
  BY <1>6 DEF Moves, RunsInv, Live
<1>7. CASE Moves(d, "submit", p, n + 1) /\ n < Count(p)
  <2>1. p # "control"
    BY <1>1, <1>7, CountPositive
  <2>2. Todo(d, "submit", p, n + 1) \subseteq Todo(d, "await", p, n)
    BY <1>1, <1>3 DEF Todo, Ready
  <2>3. \A key \in Done(d, "submit", p, n + 1) : key \in Done(d, "await", p, n) \/ Settled(key)
    BY <1>1, <1>3, <1>4 DEF Done, Past
  <2> QED
    BY <1>1, <1>2, <1>5, <1>7, <2>1, <2>2, <2>3, RunsKept DEF Moves
<1>8. CASE Moves(d, After(p), IF p = "live1" THEN "live2" ELSE p, 1) /\ n >= Count(p)
  <2> DEFINE q == IF p = "live1" THEN "live2" ELSE p
  <2>1. Todo(d, After(p), q, 1) \subseteq Todo(d, "await", p, n)
    <3>1. \A key \in KeysOf(d) : Rank(key[2]) > Rank(q) => Rank(key[2]) > Rank(p)
      BY <1>1, <1>3 DEF Rank, Purposes
    <3>2. p # "live1" => After(p) \notin Ready \cup {"await"}
      BY <1>1 DEF After, Ready, Purposes
    <3>3. p = "live1" => Rank(q) > Rank(p)
      BY DEF Rank
    <3> QED
      BY <3>1, <3>2, <3>3 DEF Todo
  <2>2. \A key \in KeysOf(d) : key[2] = p => key[3] < n \/ key = Key(d)
    BY <1>1, <1>3, <1>8
  <2>3. \A key \in Done(d, After(p), q, 1) : key \in Done(d, "await", p, n) \/ Settled(key)
    <3>1. CASE p = "cohort"
      BY <1>3, <3>1 DEF Done, Rank, Purposes
    <3>2. CASE p = "live1"
      <4>1. \A key \in KeysOf(d) : Rank(key[2]) < Rank(q) => Rank(key[2]) < Rank(p) \/ key[2] = p
        BY <1>3, <3>2 DEF Rank, Purposes
      <4>2. \A key \in KeysOf(d) : ~(key[3] < 1) /\ After(p) \notin Past
        BY <1>3, <3>2, CountPositive DEF After, Past
      <4> QED
        BY <1>4, <2>2, <3>2, <4>1, <4>2 DEF Done
    <3>3. CASE p \notin {"cohort", "live1"}
      BY <1>4, <2>2, <3>3 DEF Done
    <3> QED
      BY <3>1, <3>2, <3>3
  <2>4. After(p) \notin {"stop", "restart", "await"}
    BY <1>1 DEF After, Purposes
  <2> QED
    BY <1>1, <1>2, <1>5, <1>8, <2>1, <2>3, <2>4, RunsKept DEF Moves
<1> QED
  BY <1>6, <1>7, <1>8, RunPath DEF EvidenceInv

\* The other steps of a driver.
LEMMA DriveRuns ==
  ASSUME EvidenceInv, [Next]_vars, NEW d \in Drivers, Drive(d) \/ DriverFails(d)
  PROVE  RunsInv(d)'
<1> DEFINE at == driver[d].pc
           p == driver[d].purpose
           n == driver[d].n
<1>0. /\ TypeInv /\ Shape(d, at, p, n) /\ p \in Purposes /\ n \in Nat /\ n \in 1..Count(p)
      /\ RunsInv(d)
  BY DEF EvidenceInv, TypeInv, DriverTypes, DriverRec, ShapeOf, Shape
<1>1. \A key \in KeysOf(d) : /\ key[2] \in Purposes /\ key[3] \in 1..Count(key[2]) /\ key[3] \in Nat
                             /\ key[2] \in Own(d) /\ key \in Keys /\ key[1] = d[1]
                             /\ key[2] = p /\ key[3] = n => key = Key(d)
  BY OwnKey DEF Key
<1>2. ASSUME Moves(d, "off", "cohort", 1) PROVE RunsInv(d)'
  BY <1>2 DEF Moves, RunsInv, Live
<1>3. ASSUME NEW pc, NEW q, NEW m, Moves(d, pc, q, m), Live(d),
             Todo(d, pc, q, m) \subseteq Todo(d, at, p, n), Submit(d) => Key(d) \notin Todo(d, pc, q, m),
             \A key \in Done(d, pc, q, m) : key \in Done(d, at, p, n) \/ Settled(key),
             pc \in {"stop", "restart"} \/ (pc = "await" /\ q = "control")
                => q = p /\ m = n /\ In(Key(d), Home(Key(d)))
      PROVE  RunsInv(d)'
  BY <1>3, RunsKept, KeyKept DEF Moves
\* From one place to the next, at the same run.
<1>4. ASSUME NEW pc, Moves(d, pc, p, n), Live(d), ~Submit(d),
             pc \in Ready \cup {"await"} => at \in Ready \cup {"await"}, pc \in Ready => at \in Ready,
             pc \in Past => at \in Past,
             pc \in {"stop", "restart"} \/ (pc = "await" /\ p = "control") => In(Key(d), Home(Key(d)))
      PROVE  RunsInv(d)'
  <2>1. Todo(d, pc, p, n) \subseteq Todo(d, at, p, n) /\ Done(d, pc, p, n) \subseteq Done(d, at, p, n)
    BY <1>4 DEF Todo, Done
  <2> QED
    BY <1>3, <1>4, <2>1
<1>5. CASE BeginNew(d)
  <2>1. at = "begin" /\ p = "cohort" /\ n = 1 /\ Live(d) /\ ~Submit(d)
    BY <1>0, <1>5 DEF BeginNew, At, Shape, Live, Submit
  <2>2. Todo(d, "submit", "cohort", 1) \subseteq Todo(d, at, p, n)
    BY <2>1 DEF Todo, Ready
  <2>3. Done(d, "submit", "cohort", 1) \subseteq Done(d, at, p, n)
    BY <2>1 DEF Done
  <2> QED
    BY <1>0, <1>2, <1>3, <1>5, <2>1, <2>2, <2>3, NewPath
<1>6. CASE Submit(d)
  <2> DEFINE pc == IF p = "control" THEN "capture" ELSE "await"
  <2>1. at = "submit" /\ Live(d)
    BY <1>6 DEF Submit, At, Live
  <2>2. Todo(d, pc, p, n) \subseteq Todo(d, at, p, n) /\ Done(d, pc, p, n) \subseteq Done(d, at, p, n)
    BY <2>1 DEF Todo, Done, Ready, Past
  <2>3. Key(d) \notin Todo(d, pc, p, n)
    <3>1. Key(d)[2] = p /\ Key(d)[3] = n /\ pc \notin Ready /\ Rank(p) \in Nat
      BY <1>0 DEF Key, Ready, Rank
    <3> QED
      BY <1>0, <3>1 DEF Todo
  <2>4. Moves(d, "off", "cohort", 1) \/ Moves(d, pc, p, n)
    BY <1>0, <1>6, RunPath
  <2>5. ~(pc \in {"stop", "restart"} \/ (pc = "await" /\ p = "control"))
    OBVIOUS
  <2> QED
    BY <1>2, <1>3, <2>1, <2>2, <2>3, <2>4, <2>5
<1>7. CASE WriteManifest(d)
  <2>1. Live(d) /\ ~Submit(d)
    BY <1>7 DEF WriteManifest, At, Live, Submit
  <2> QED
    BY <1>0, <1>2, <1>4, <1>7, <2>1, NewPath DEF Ready, Past
<1>8. CASE WriteEvidence(d)
  <2>1. at = "evidence" /\ p = "cohort" /\ Live(d) /\ ~Submit(d)
    BY <1>0, <1>8 DEF WriteEvidence, At, Shape, Live, Submit
  <2>2. CASE Moves(d, "off", "cohort", 1)
    BY <1>2, <2>2
  <2>3. CASE ~Moves(d, "off", "cohort", 1)
    <3>1. Moves(d, "submit", "control", 1)
      BY <1>0, <1>8, <2>3, NewPath
    <3>2. \A key \in KeysFor(d[1], {"cohort"}) : Settled(key)
      <4>1. ~Off(d, "failed")
        BY <1>0, <2>3, OffMoves DEF TypeInv
      <4> QED
        BY <1>8, <4>1 DEF WriteEvidence, Settled
    <3>3. Todo(d, "submit", "control", 1) \subseteq Todo(d, at, p, n)
      BY <1>1, <2>1 DEF Todo, Rank, Purposes
    <3>4. \A key \in Done(d, "submit", "control", 1) : Settled(key)
      <4>1. \A key \in Done(d, "submit", "control", 1) : key[2] = "cohort"
        <5>1. \A key \in KeysOf(d) : ~(key[3] < 1)
          BY <1>1, CountPositive
        <5>2. "submit" \notin Past
          BY DEF Past
        <5> QED
          BY <1>1, <5>1, <5>2 DEF Done, Rank, Purposes
      <4> QED
        BY <1>1, <3>2, <4>1 DEF Done, KeysFor
    <3> QED
      BY <1>3, <2>1, <3>1, <3>3, <3>4
  <2> QED
    BY <2>2, <2>3
<1>9. CASE Capture(d) \/ StopWorker(d) \/ RestartWorker(d)
  <2>1. /\ at \in {"capture", "stop", "restart"} /\ Live(d) /\ ~Submit(d)
        /\ at = "capture" => In(Key(d), Home(Key(d)))
        /\ p = "control" /\ Count(p) = 1
    BY <1>0, <1>9, CountPositive
       DEF Capture, StopWorker, RestartWorker, At, Live, Submit, In, Shape
  <2>2. In(Key(d), Home(Key(d)))
    BY <1>0, <2>1 DEF RunsInv
  <2>3. CASE Capture(d) \/ StopWorker(d)
    BY <1>0, <1>4, <2>1, <2>2, <2>3, NewPath DEF Ready, Past
  <2>4. CASE RestartWorker(d)
    <3>1. n = 1 /\ \A key \in KeysOf(d) : key[2] = p => ~(key[3] > n)
      BY <1>0, <1>1, <2>1
    <3>2. Todo(d, "await", p, n) \subseteq Todo(d, at, p, n)
      BY <3>1 DEF Todo, Ready
    <3>3. Done(d, "await", p, n) \subseteq Done(d, at, p, n)
      BY DEF Done, Past
    <3>4. Moves(d, "await", p, n)
      BY <1>0, <2>4, NewPath
    <3> QED
      BY <1>3, <2>1, <2>2, <3>2, <3>3, <3>4
  <2> QED
    BY <1>9, <2>3, <2>4
<1>10. CASE TestRuntime(d)
  <2>1. at = "test_runtime" /\ p = "control" /\ Live(d) /\ ~Submit(d)
    BY <1>0, <1>10 DEF TestRuntime, At, Shape, Live, Submit
  <2>2. Todo(d, "submit", "capture_off", 1) \subseteq Todo(d, at, p, n)
    BY <1>1, <2>1 DEF Todo, Rank, Purposes
  <2>3. Done(d, "submit", "capture_off", 1) \subseteq Done(d, at, p, n)
    <3>1. "submit" \notin Past /\ at \in Past /\ \A key \in KeysOf(d) : ~(key[3] < 1)
      BY <1>1, <2>1, CountPositive DEF Past
    <3>2. \A key \in KeysOf(d) : Rank(key[2]) < Rank("capture_off") => Rank(key[2]) < Rank(p) \/ key[2] = p
      BY <1>1, <2>1 DEF Rank, Purposes
    <3> QED
      BY <2>1, <3>1, <3>2 DEF Done
  <2> QED
    BY <1>0, <1>3, <1>10, <2>1, <2>2, <2>3, NewPath
<1>11. CASE WriteState(d)
  <2>1. at = "state" /\ Live(d) /\ ~Submit(d)
    BY <1>11 DEF WriteState, At, Live, Submit
  <2> QED
    BY <1>0, <1>4, <1>11, <2>1, NewPath DEF Ready, Past
<1>12. CASE BeginResume(d) \/ BuildDataset(d) \/ WriteCriteria(d) \/ StartReplay(d) \/ AssertQuiescent(d)
  <2>1. /\ Live(d) /\ ~Submit(d)
        /\ BeginResume(d) => at = "begin"
        /\ BuildDataset(d) => at = "build"
        /\ WriteCriteria(d) => at = "criteria"
        /\ StartReplay(d) => at = "runtime"
        /\ AssertQuiescent(d) => at = "quiet"
    BY <1>12 DEF BeginResume, BuildDataset, WriteCriteria, StartReplay, AssertQuiescent, At, Live, Submit
  <2>2. CASE BeginResume(d) \/ BuildDataset(d) \/ WriteCriteria(d)
    BY <1>0, <1>2, <1>4, <2>1, <2>2, ResumePath DEF Ready, Past
  <2>3. CASE StartReplay(d) \/ AssertQuiescent(d)
    BY <1>0, <1>2, <1>4, <2>1, <2>3, ResumePath DEF Ready, Past
  <2> QED
    BY <1>12, <2>2, <2>3
<1>13. CASE DescribeDataset(d)
  <2>1. at = "describe" /\ p = "cohort" /\ d[2] = "resume" /\ Live(d) /\ ~Submit(d)
    BY <1>0, <1>13 DEF DescribeDataset, At, Shape, Live, Submit
  <2>2. \A key \in KeysOf(d) : key[2] \in LivePurposes /\ ~(key[3] < 1)
    BY <1>1, <2>1, CountPositive DEF Own
  <2>3. Todo(d, "runtime", "live1", 1) \subseteq Todo(d, at, p, n)
    BY <2>1, <2>2 DEF Todo, Rank, LivePurposes
  <2>4. Done(d, "runtime", "live1", 1) = {}
    BY <2>2 DEF Done, Past, Rank, LivePurposes
  <2> QED
    BY <1>0, <1>2, <1>3, <1>13, <2>1, <2>3, <2>4, ResumePath
<1>14. CASE WriteGate(d) \/ WritePendingRestore(d) \/ DriverFails(d) \/ TimeOut(d)
  BY <1>0, <1>2, <1>14, NewPath, ResumePath, RunPath
<1>15. CASE EndRun(d)
  BY <1>15, EndRunRuns
<1> QED
  BY <1>5, <1>6, <1>7, <1>8, <1>9, <1>10, <1>11, <1>12, <1>13, <1>14, <1>15 DEF Drive

LEMMA OtherDrivers ==
  ASSUME TypeInv, NEW e \in Drivers, Drive(e) \/ DriverFails(e), NEW d \in Drivers, d # e
  PROVE  driver'[d] = driver[d]
<1>1. \E pc, p, n : Moves(e, pc, p, n)
  BY NewPath, ResumePath, RunPath DEF Drive
<1> QED
  BY <1>1 DEF Moves

\* What happens to a driver that does not step itself.
LEMMA DriverFromOutside ==
  ASSUME TypeInv, [Next]_vars, NEW d \in Drivers, ~Drive(d), ~DriverFails(d)
  PROVE  \/ driver'[d] = driver[d]
         \/ driver'[d] = NoDriver
         \/ Launch /\ d = Launched /\ driver'[d].pc = "begin" /\ driver'[d].purpose = "cohort"
                   /\ driver'[d].n = 1
<1>0. DriverTypes
  BY DEF TypeInv
<1>1. CASE UNCHANGED driver
  BY <1>1
<1>2. CASE Launch
  BY <1>2, LaunchMoves DEF Moves
<1>3. CASE DriverEnded \/ CutOff
  BY <1>0, <1>3 DEF DriverEnded, CutOff, DriverTypes
<1>4. ASSUME NEW e \in Drivers, Drive(e) \/ DriverFails(e) PROVE driver'[d] = driver[d]
  BY <1>4, OtherDrivers
<1> QED
  BY <1>1, <1>2, <1>3, <1>4, WhoSteps, OutsideFrame, ExecuteFrame DEF vars

LEMMA RunsStep ==
  ASSUME EvidenceInv, [Next]_vars, NEW d \in Drivers
  PROVE  RunsInv(d)'
<1>0. TypeInv
  BY DEF EvidenceInv
<1>1. CASE Drive(d) \/ DriverFails(d)
  BY <1>1, DriveRuns
<1>2. CASE driver'[d] = driver[d]
  BY <1>2, RunsStay
<1>3. CASE driver'[d] = NoDriver
  BY <1>3 DEF NoDriver, RunsInv, Live
<1>4. CASE Launch /\ d = Launched /\ driver'[d].pc = "begin" /\ driver'[d].purpose = "cohort"
           /\ driver'[d].n = 1
  <2>1. Untouched(d) /\ ~Live(d)
    BY <1>0, <1>4, LaunchMoves DEF EvidenceInv, LaunchInv, Launch, InScript, BeforeLaunch
  <2>2. ~Submit(d)
    BY <1>0, <2>1, SubmitsOwn
  <2>3. \A key \in KeysOf(d) : Nowhere(key)'
    BY <1>0, <2>1, <2>2, NowhereStays DEF Untouched
  <2>4. Done(d, "begin", "cohort", 1) = {}
    BY DEF Done, Rank
  <2>5. \A key \in Todo(d, driver[d].pc, driver[d].purpose, driver[d].n)' : Nowhere(key)'
    BY <2>3 DEF Todo, KeysOf, KeysFor, Own
  <2>6. Done(d, driver[d].pc, driver[d].purpose, driver[d].n)' = {}
    BY <1>4, <2>4
  <2> QED
    BY <1>4, <2>5, <2>6 DEF RunsInv
<1> QED
  BY <1>0, <1>1, <1>2, <1>3, <1>4, DriverFromOutside

LEMMA StateStep ==
  ASSUME EvidenceInv, [Next]_vars, NEW g \in Gates
  PROVE  /\ state[g] # "none" => state'[g] # "none"
         /\ \/ state'[g] = state[g]
            \/ WriteState(<<g, "new">>) /\ state'[g] = "PENDING_HUMAN"
            \/ WritePendingRestore(<<g, "resume">>) /\ state'[g] = "PENDING_RESTORE"
            \/ Complete /\ g = script.gate /\ state'[g] = "COMPLETE"
<1>0. TypeInv /\ FileTypes /\ DriverTypes
  BY DEF EvidenceInv, TypeInv
<1>1. ASSUME NEW d \in Drivers, WriteState(d)
      PROVE  state'[g] = state[g] \/ (d = <<g, "new">> /\ state'[g] = "PENDING_HUMAN")
  <2>1. d = <<d[1], d[2]>> /\ d[2] \in {"new", "resume"}
    BY DEF Drivers, Modes
  <2>2. d[2] = "new"
    BY <1>0, <1>1 DEF WriteState, At, DriverTypes, ShapeOf, Shape, Own, LivePurposes
  <2> QED
    BY <1>0, <1>1, <2>1, <2>2 DEF WriteState, FileTypes
<1>2. ASSUME NEW d \in Drivers, WritePendingRestore(d)
      PROVE  state'[g] = state[g] \/ (d = <<g, "resume">> /\ state'[g] = "PENDING_RESTORE")
  <2>1. d = <<d[1], d[2]>> /\ d[2] \in {"new", "resume"}
    BY DEF Drivers, Modes
  <2>2. d[2] = "resume"
    BY <1>0, <1>2, <2>1 DEF WritePendingRestore, At, DriverTypes, ShapeOf, Shape, Own, NewPurposes
  <2> QED
    BY <1>0, <1>2, <2>1, <2>2 DEF WritePendingRestore, FileTypes
<1>3. ASSUME Complete PROVE state'[g] = state[g] \/ (g = script.gate /\ state'[g] = "COMPLETE")
  BY <1>0, <1>3 DEF Complete, FileTypes
<1>4. \/ state'[g] = state[g]
      \/ WriteState(<<g, "new">>) /\ state'[g] = "PENDING_HUMAN"
      \/ WritePendingRestore(<<g, "resume">>) /\ state'[g] = "PENDING_RESTORE"
      \/ Complete /\ g = script.gate /\ state'[g] = "COMPLETE"
  BY <1>1, <1>2, <1>3, WhoSteps, OutsideFrame, DriveFrame, ExecuteFrame DEF vars, artifacts
<1> QED
  BY <1>4

\* What a reviewed gate has got, it keeps: the review, and its dataset.
LEMMA ReviewStays ==
  ASSUME EvidenceInv, [Next]_vars, NEW g \in Gates, state[g] # "none"
  PROVE  /\ review[g] = "agrees" => review'[g] = "agrees"
         /\ rows = g => rows' = g
         /\ manifest = g => manifest' = g
<1>0. FileTypes /\ DriverTypes
  BY DEF EvidenceInv, TypeInv
<1>1. review[g] = "agrees" => review'[g] = "agrees"
  <2>1. ASSUME NEW h \in Gates, Review(h), review[g] = "agrees" PROVE review'[g] = "agrees"
    BY <1>0, <2>1 DEF Review, FileTypes
  <2>2. ASSUME NEW d \in Drivers, WriteEvidence(d) PROVE review'[g] = review[g]
    <3>1. d = <<d[1], d[2]>> /\ d[2] = "new" /\ driver[d].pc = "evidence"
      BY <1>0, <2>2 DEF Drivers, Modes, WriteEvidence, At, DriverTypes, ShapeOf, Shape, Own, LivePurposes
    <3>2. d[1] # g
      BY <3>1 DEF EvidenceInv, GateInv
    <3> QED
      BY <1>0, <2>2, <3>2 DEF WriteEvidence, FileTypes
  <2> QED
    BY <2>1, <2>2, WhoSteps, OutsideFrame, DriveFrame, ExecuteFrame DEF vars, artifacts
<1>2. g # Nobody
  BY NamesAssumption
<1>3. rows = g => rows' = g
  BY <1>2, WhoSteps, OutsideFrame, DriveFrame, ExecuteFrame DEF BuildDataset, MayBuild, vars, artifacts
<1>4. manifest = g => manifest' = g
  BY <1>2, WhoSteps, OutsideFrame, DriveFrame, ExecuteFrame DEF DescribeDataset, vars, artifacts
<1> QED
  BY <1>1, <1>3, <1>4

LEMMA ResumeStep ==
  ASSUME EvidenceInv, [Next]_vars, NEW d \in Drivers
  PROVE  ResumeInv(d)'
<1>0. /\ TypeInv /\ FileTypes /\ ResumeInv(d) /\ ShapeOf(d) /\ d[1] \in Gates /\ d[2] \in {"new", "resume"}
      /\ driver[d].purpose \in LivePurposes \/ driver[d].pc \in {"build", "describe"}
           => d[2] = "resume" /\ driver[d].pc \notin {"off", "begin"}
  BY DEF EvidenceInv, TypeInv, DriverTypes, Drivers, Modes, ShapeOf, Shape, Own, NewPurposes, LivePurposes
<1>1. state[d[1]] # "none" => state'[d[1]] # "none"
  BY <1>0, StateStep
\* The driver is where it rests on no more than before.
<1>2. ASSUME driver'[d].pc \notin {"off", "begin"} => driver[d].pc \notin {"off", "begin"},
             driver'[d].pc # "describe" \/ driver[d].pc = "describe",
             driver'[d].purpose \in LivePurposes => driver[d].purpose \in LivePurposes
      PROVE  ResumeInv(d)'
  <2>1. d[2] = "resume" /\ driver'[d].pc \notin {"off", "begin"} => state'[d[1]] # "none"
    BY <1>0, <1>1, <1>2 DEF ResumeInv
  <2>2. ASSUME driver[d].pc = "describe" \/ driver[d].purpose \in LivePurposes
        PROVE  /\ review'[d[1]] = "agrees" /\ rows' = d[1]
               /\ manifest = d[1] => manifest' = d[1]
    BY <1>0, <2>2, ReviewStays DEF ResumeInv
  <2> QED
    BY <1>0, <1>2, <2>1, <2>2 DEF ResumeInv
<1>3. CASE driver'[d] = driver[d]
  BY <1>2, <1>3
<1>4. ASSUME driver'[d].pc \in {"off", "begin"}, driver'[d].purpose = "cohort" PROVE ResumeInv(d)'
  BY <1>2, <1>4 DEF LivePurposes
<1>5. ASSUME NEW pc, Moves(d, pc, driver[d].purpose, driver[d].n), pc # "describe",
             driver[d].pc \notin {"off", "begin"}
      PROVE  ResumeInv(d)'
  BY <1>2, <1>5 DEF Moves
<1>6. ASSUME Moves(d, "off", "cohort", 1) PROVE ResumeInv(d)'
  BY <1>4, <1>6 DEF Moves
<1>7. ASSUME Drive(d) \/ DriverFails(d) PROVE ResumeInv(d)'
  <2>1. CASE WriteManifest(d) \/ Capture(d) \/ StopWorker(d) \/ RestartWorker(d) \/ WriteState(d)
             \/ StartReplay(d) \/ AssertQuiescent(d) \/ WriteCriteria(d) \/ Submit(d)
    <3>1. driver[d].pc \notin {"off", "begin"}
      BY <2>1 DEF WriteManifest, Capture, StopWorker, RestartWorker, WriteState, StartReplay,
         AssertQuiescent, WriteCriteria, Submit, At
    <3> QED
      BY <1>0, <1>5, <1>6, <2>1, <3>1, NewPath, ResumePath, RunPath
  <2>2. CASE WriteGate(d) \/ WritePendingRestore(d) \/ DriverFails(d) \/ TimeOut(d)
    BY <1>0, <1>6, <2>2, NewPath, ResumePath, RunPath
  <2>3. CASE BeginNew(d) \/ WriteEvidence(d) \/ TestRuntime(d)
    <3>1. d[2] = "new"
      BY <1>0, <2>3 DEF BeginNew, WriteEvidence, TestRuntime, At, ShapeOf, Shape, Own, LivePurposes
    <3>2. Moves(d, "off", "cohort", 1) \/ \E p \in NewPurposes : Moves(d, "submit", p, 1)
      BY <1>0, <2>3, NewPath DEF NewPurposes
    <3> QED
      BY <1>6, <3>1, <3>2 DEF Moves, ResumeInv, NewPurposes, LivePurposes
  <2>4. CASE EndRun(d)
    <3>1. driver[d].pc = "await" /\ driver[d].purpose \in Purposes
      BY <1>0, <2>4 DEF EndRun, At, TypeInv, DriverTypes, DriverRec
    <3>2. CASE Moves(d, "submit", driver[d].purpose, driver[d].n + 1)
      BY <1>2, <3>1, <3>2 DEF Moves
    <3>3. CASE Moves(d, After(driver[d].purpose),
                     IF driver[d].purpose = "live1" THEN "live2" ELSE driver[d].purpose, 1)
      <4>1. After(driver[d].purpose) # "describe"
        BY <3>1 DEF After, Purposes
      <4> QED
        BY <1>2, <3>1, <3>3, <4>1 DEF Moves, LivePurposes
    <3> QED
      BY <1>0, <1>6, <2>4, <3>2, <3>3, RunPath
  <2>5. CASE BeginResume(d)
    <3>1. CASE Moves(d, "off", "cohort", 1)
      BY <1>6, <3>1
    <3>2. CASE ~Moves(d, "off", "cohort", 1)
      <4>1. Moves(d, "build", driver[d].purpose, driver[d].n) /\ driver[d].purpose = "cohort"
        BY <1>0, <2>5, <3>2, ResumePath DEF BeginResume, At, ShapeOf, Shape
      <4>2. state[d[1]] = "PENDING_HUMAN"
        BY <1>0, <2>5, <3>2, OffMoves DEF BeginResume, Require, TypeInv
      <4> QED
        BY <1>1, <4>1, <4>2 DEF Moves, ResumeInv, LivePurposes
    <3> QED
      BY <3>1, <3>2
  <2>6. CASE BuildDataset(d)
    <3>1. CASE Moves(d, "off", "cohort", 1)
      BY <1>6, <3>1
    <3>2. CASE ~Moves(d, "off", "cohort", 1)
      <4>1. /\ Moves(d, "describe", driver[d].purpose, driver[d].n) /\ driver[d].purpose = "cohort"
            /\ driver[d].pc = "build"
        BY <1>0, <2>6, <3>2, ResumePath DEF BuildDataset, At, ShapeOf, Shape
      <4>2. MayBuild(d[1])
        BY <1>0, <2>6, <3>2, OffMoves DEF BuildDataset, Require, TypeInv
      <4>3. review'[d[1]] = "agrees" /\ rows' = d[1]
        BY <2>6, <4>2 DEF BuildDataset, MayBuild
      <4>4. state'[d[1]] # "none"
        BY <1>0, <1>1, <4>1 DEF ResumeInv
      <4> QED
        BY <4>1, <4>3, <4>4 DEF Moves, ResumeInv, LivePurposes
    <3> QED
      BY <3>1, <3>2
  <2>7. CASE DescribeDataset(d)
    <3>1. CASE Moves(d, "off", "cohort", 1)
      BY <1>6, <3>1
    <3>2. CASE ~Moves(d, "off", "cohort", 1)
      <4>1. Moves(d, "runtime", "live1", 1) /\ driver[d].pc = "describe"
        BY <1>0, <2>7, <3>2, ResumePath DEF DescribeDataset, At
      <4>2. manifest' = d[1] /\ UNCHANGED <<review, rows>>
        BY <1>0, <2>7, <3>2, OffMoves DEF DescribeDataset, TypeInv
      <4>3. state'[d[1]] # "none" /\ review'[d[1]] = "agrees" /\ rows' = d[1]
        BY <1>0, <1>1, <4>1, <4>2 DEF ResumeInv
      <4> QED
        BY <4>1, <4>2, <4>3 DEF Moves, ResumeInv
    <3> QED
      BY <3>1, <3>2
  <2> QED
    BY <1>7, <2>1, <2>2, <2>3, <2>4, <2>5, <2>6, <2>7 DEF Drive
<1> QED
  BY <1>0, <1>3, <1>4, <1>7, DriverFromOutside DEF NoDriver

LEMMA UntouchedStays ==
  ASSUME EvidenceInv, [Next]_vars, NEW d \in Drivers, ~Live(d), Untouched(d)
  PROVE  Untouched(d)'
<1>0. /\ TypeInv /\ d[1] \in Gates /\ d = <<d[1], d[2]>>
      /\ <<d[1], "resume">> \in Drivers
  BY DEF EvidenceInv, Drivers, Modes
<1>1. \A key \in KeysOf(d) : Nowhere(key)'
  BY <1>0, SubmitsOwn, NowhereStays DEF Untouched
<1>2. ASSUME d[2] = "new", state'[d[1]] # "none" PROVE FALSE
  <2>1. state[d[1]] = "none"
    BY <1>2 DEF Untouched
  <2>2. CASE WriteState(<<d[1], "new">>)
    BY <1>0, <1>2, <2>2 DEF WriteState, At, Live
  <2>3. CASE WritePendingRestore(<<d[1], "resume">>)
    BY <1>0, <2>1, <2>3 DEF EvidenceInv, ResumeInv, WritePendingRestore, At
  <2>4. CASE Complete /\ d[1] = script.gate
    BY <2>1, <2>4 DEF EvidenceInv, LaunchInv, Complete, InScript
  <2> QED
    BY <1>0, <1>2, <2>1, <2>2, <2>3, <2>4, StateStep
<1> QED
  BY <1>1, <1>2 DEF Untouched

LEMMA FilesGrow ==
  ASSUME TypeInv, [Next]_vars, NEW g \in Gates
  PROVE  files[g] \subseteq files'[g]
<1>0. FileTypes
  BY DEF TypeInv
<1>1. CASE Inspect
  BY <1>0, <1>1 DEF Inspect, FileTypes
<1>2. ASSUME NEW h \in Gates, StartNew(h) \/ StartResume(h) PROVE files[g] \subseteq files'[g]
  BY <1>0, <1>2 DEF StartNew, StartResume, FileTypes
<1> QED
  BY <1>1, <1>2, WhoSteps, OutsideFrame, DriveFrame, ExecuteFrame DEF vars, artifacts

LEMMA SettledKept ==
  ASSUME TypeInv, [Next]_vars, NEW g, NEW purposes, AllSettled(g, purposes)
  PROVE  AllSettled(g, purposes)'
BY SettledStays DEF AllSettled, KeysFor

LEMMA GateStep ==
  ASSUME EvidenceInv, [Next]_vars, NEW g \in Gates
  PROVE  GateInv(g)'
<1> DEFINE new == <<g, "new">>
           resume == <<g, "resume">>
<1>0. /\ TypeInv /\ GateInv(g) /\ new \in Drivers /\ resume \in Drivers
      /\ KeysOf(new) = KeysFor(g, NewPurposes) /\ KeysOf(resume) = KeysFor(g, LivePurposes)
  BY DEF EvidenceInv, Drivers, Modes, KeysOf, Own
<1>1. RunsInv(new) /\ RunsInv(resume) /\ ShapeOf(new) /\ ShapeOf(resume)
  BY <1>0 DEF EvidenceInv, TypeInv, DriverTypes
<1>a. ASSUME Untouched(new), ~Live(new) PROVE Untouched(new)'
  BY <1>0, <1>a, UntouchedStays
<1>b. ASSUME Untouched(resume), ~Live(resume) PROVE Untouched(resume)'
  BY <1>0, <1>b, UntouchedStays
<1> HIDE DEF new, resume
<1>2. ASSUME state'[g] # "none"
      PROVE  driver'[new].pc \in {"off", "gate"} /\ AllSettled(g, NewPurposes)'
  <2>1. CASE state[g] = "none"
    <3>1. WriteState(new)
      <4>1. ~WritePendingRestore(<<g, "resume">>)
        BY <1>0, <2>1 DEF EvidenceInv, ResumeInv, WritePendingRestore, At, resume
      <4>2. ~(Complete /\ g = script.gate)
        BY <2>1 DEF EvidenceInv, LaunchInv, Complete, InScript
      <4> QED
        BY <1>2, <2>1, <4>1, <4>2, StateStep DEF new
    <3>2. driver'[new].pc = "gate"
      BY <1>0, <3>1, NewPath DEF Moves
    <3>3. driver[new].pc = "state" /\ driver[new].purpose = "capture_off"
      BY <1>1, <3>1 DEF WriteState, At, ShapeOf, Shape
    <3>4. AllSettled(g, NewPurposes)
      <4>1. Done(new, driver[new].pc, driver[new].purpose, driver[new].n) = KeysOf(new)
        BY <1>0, <3>3, AllDone DEF new
      <4> QED
        BY <1>0, <1>1, <3>3, <4>1 DEF RunsInv, Live, AllSettled
    <3> QED
      BY <1>0, <3>2, <3>4, SettledKept
  <2>2. CASE state[g] # "none"
    <3>1. driver[new].pc \in {"off", "gate"} /\ AllSettled(g, NewPurposes)
      BY <1>0, <2>2 DEF GateInv, new
    <3>2. AllSettled(g, NewPurposes)'
      BY <1>0, <3>1, SettledKept
    <3>3. CASE Drive(new) \/ DriverFails(new)
      <4>1. WriteGate(new) \/ DriverFails(new)
        BY <3>1, <3>3 DEF Drive, At, BeginNew, Submit, EndRun, TimeOut, WriteManifest,
           WriteEvidence, Capture, StopWorker, RestartWorker, TestRuntime, WriteState,
           BeginResume, BuildDataset, DescribeDataset, StartReplay, AssertQuiescent, WriteCriteria,
           WritePendingRestore
      <4>2. Moves(new, "off", "cohort", 1)
        BY <1>0, <4>1, NewPath, ResumePath
      <4> QED
        BY <3>2, <4>2 DEF Moves
    <3>4. CASE driver'[new] = driver[new] \/ driver'[new] = NoDriver
      BY <3>1, <3>2, <3>4 DEF NoDriver
    <3>5. CASE Launch /\ new = Launched
      <4>1. Untouched(new)
        BY <3>5 DEF EvidenceInv, LaunchInv, Launch, InScript, BeforeLaunch
      <4> QED
        BY <2>2, <4>1 DEF Untouched, new
    <3> QED
      BY <1>0, <3>3, <3>4, <3>5, DriverFromOutside
  <2> QED
    BY <2>1, <2>2
<1>3. ASSUME state'[g] \in {"PENDING_RESTORE", "COMPLETE"} PROVE AllSettled(g, LivePurposes)'
  <2>1. CASE state[g] \in {"PENDING_RESTORE", "COMPLETE"}
    BY <1>0, <2>1, SettledKept DEF GateInv
  <2>2. CASE WritePendingRestore(resume)
    <3>1. driver[resume].pc = "pending_restore" /\ driver[resume].purpose = "live2"
      BY <1>1, <2>2 DEF WritePendingRestore, At, ShapeOf, Shape
    <3>2. Done(resume, driver[resume].pc, driver[resume].purpose, driver[resume].n) = KeysOf(resume)
      BY <1>0, <3>1, AllDone
    <3>3. AllSettled(g, LivePurposes)
      BY <1>0, <1>1, <3>1, <3>2 DEF RunsInv, Live, AllSettled
    <3> QED
      BY <1>0, <3>3, SettledKept
  <2>3. Complete /\ g = script.gate => state[g] \in {"PENDING_RESTORE", "COMPLETE"}
    BY DEF EvidenceInv, LaunchInv, Complete, InScript
  <2> QED
    BY <1>3, <2>1, <2>2, <2>3, StateStep DEF resume
<1>4. ASSUME files'[g] = {} PROVE Untouched(new)'
  <2>1. files[g] = {}
    BY <1>0, <1>4, FilesGrow
  <2> QED
    BY <1>0, <1>a, <2>1 DEF GateInv, TypeInv, FreshDrivers, new
<1>5. ASSUME "pre_resume" \notin files'[g] PROVE Untouched(resume)'
  <2>1. "pre_resume" \notin files[g]
    BY <1>0, <1>5, FilesGrow
  <2> QED
    BY <1>0, <1>b, <2>1 DEF GateInv, TypeInv, FreshDrivers, resume
<1> QED
  BY <1>2, <1>3, <1>4, <1>5 DEF GateInv, new, resume

LEMMA CriteriaInvStep ==
  ASSUME EvidenceInv, [Next]_vars, NEW g \in Gates
  PROVE  CriteriaInv(g)'
<1>0. TypeInv /\ CriteriaInv(g) /\ DOMAIN criteria = Gates
  BY DEF EvidenceInv, TypeInv, CriteriaTypes
<1>1. ASSUME state[g] # "none" /\ AllSettled(g, LivePurposes) /\ review[g] = "agrees" /\ rows = g
             /\ manifest = g
      PROVE  state'[g] # "none" /\ AllSettled(g, LivePurposes)' /\ review'[g] = "agrees" /\ rows' = g
             /\ manifest' = g
  BY <1>0, <1>1, StateStep, ReviewStays, SettledKept
\* The verdict on the review is the one of before.
<1>2. ASSUME DOMAIN criteria'[g] = DOMAIN criteria[g],
             "human_review" \in DOMAIN criteria[g]
                => criteria'[g]["human_review"] = criteria[g]["human_review"]
      PROVE  CriteriaInv(g)'
  BY <1>0, <1>1, <1>2 DEF CriteriaInv
<1>3. CASE UNCHANGED criteria
  BY <1>2, <1>3
<1>4. CASE Finalize
  <2>1. criteria' = criteria \/ criteria' = [criteria EXCEPT ![script.gate] = [@ EXCEPT !["restored"] = "PASS"]]
    BY <1>4 DEF Finalize, Restored
  <2>2. CASE criteria' = [criteria EXCEPT ![script.gate] = [@ EXCEPT !["restored"] = "PASS"]]
    <3>1. criteria'[g] = criteria[g] \/ criteria'[g] = [criteria[g] EXCEPT !["restored"] = "PASS"]
      BY <1>0, <2>2
    <3> QED
      BY <1>2, <3>1
  <2> QED
    BY <1>3, <2>1, <2>2
<1>5. ASSUME NEW d \in Drivers, WriteGate(d) PROVE CriteriaInv(g)'
  <2> DEFINE c == [evidence |-> IF driver[d].clean THEN "PASS" ELSE "FAIL", human_review |-> "PENDING"]
  <2>1. "human_review" \in DOMAIN c /\ c["human_review"] = "PENDING"
    OBVIOUS
  <2>2. criteria' = [criteria EXCEPT ![d[1]] = c]
    BY <1>5 DEF WriteGate
  <2> HIDE DEF c
  <2>3. CASE d[1] = g
    BY <1>0, <2>1, <2>2, <2>3 DEF CriteriaInv
  <2>4. CASE d[1] # g
    BY <1>0, <1>2, <2>2, <2>4
  <2> QED
    BY <2>3, <2>4
<1>6. ASSUME NEW d \in Drivers, WriteCriteria(d) PROVE CriteriaInv(g)'
  <2> DEFINE prior == criteria[d[1]]
             c == [name \in (DOMAIN prior) \cup {"human_review", "replay", "restored"} |->
                       IF name = "restored" THEN "PENDING"
                       ELSE IF name \in {"human_review", "replay"} THEN "PASS" ELSE prior[name]]
  <2>1. "human_review" \in DOMAIN c
    OBVIOUS
  <2>2. criteria' = criteria \/ criteria' = [criteria EXCEPT ![d[1]] = c]
    BY <1>6 DEF WriteCriteria
  <2> HIDE DEF c
  <2>3. CASE d[1] # g
    BY <1>0, <1>2, <2>2, <2>3
  <2>4. CASE d[1] = g
    <3>1. driver[d].pc = "criteria" /\ driver[d].purpose = "live2" /\ d[2] = "resume"
      BY <1>0, <1>6 DEF WriteCriteria, At, TypeInv, DriverTypes, ShapeOf, Shape, Own, NewPurposes,
         Drivers, Modes
    <3>2. AllSettled(g, LivePurposes)
      <4>1. Done(d, driver[d].pc, driver[d].purpose, driver[d].n) = KeysOf(d)
        BY <3>1, AllDone
      <4>2. KeysOf(d) = KeysFor(g, LivePurposes)
        BY <2>4, <3>1 DEF KeysOf, Own
      <4> QED
        BY <3>1, <4>1, <4>2 DEF EvidenceInv, RunsInv, Live, AllSettled
    <3>3. state[g] # "none" /\ review[g] = "agrees" /\ rows = g /\ manifest = g
      BY <2>4, <3>1 DEF EvidenceInv, ResumeInv, LivePurposes
    <3>4. CASE criteria' = [criteria EXCEPT ![d[1]] = c]
      BY <1>0, <1>1, <2>1, <2>4, <3>2, <3>3, <3>4 DEF CriteriaInv
    <3> QED
      BY <1>3, <2>2, <3>4
  <2> QED
    BY <2>3, <2>4
<1> QED
  BY <1>3, <1>4, <1>5, <1>6, WhoSteps, OutsideFrame, DriveFrame, ExecuteFrame DEF vars, artifacts

LEMMA LaunchInvStep ==
  ASSUME EvidenceInv, [Next]_vars
  PROVE  LaunchInv'
<1>0. TypeInv /\ ScriptTypes /\ LaunchInv /\ FreshDrivers /\ FileTypes
  BY DEF EvidenceInv, TypeInv
<1>1. ASSUME script'.pc \in BeforeLaunch, script.pc \in BeforeLaunch, script'.gate = script.gate,
             script'.mode = script.mode
      PROVE  Untouched(Launched)'
  <2>1. Launched \in Drivers /\ Launched' = Launched
    BY <1>0, <1>1 DEF ScriptTypes, BeforeLaunch, Launched, Drivers
  <2>2. PICK d \in Drivers : d = Launched /\ d = Launched'
    BY <2>1
  <2>3. Untouched(d)'
    BY <1>0, <1>1, <2>2, UntouchedStays DEF LaunchInv, FreshDrivers
  <2> QED
    BY <2>2, <2>3 DEF Untouched
<1>2. ASSUME script'.pc = "complete", script.pc = "complete", script'.gate = script.gate
      PROVE  state'[script'.gate] \in {"PENDING_RESTORE", "COMPLETE"}
  <2>1. script.gate \in Gates /\ state[script.gate] \in {"PENDING_RESTORE", "COMPLETE"}
    BY <1>0, <1>2 DEF ScriptTypes, LaunchInv
  <2>2. ~WriteState(<<script.gate, "new">>)
    BY <2>1 DEF EvidenceInv, GateInv, WriteState, At
  <2> QED
    BY <1>2, <2>1, <2>2, StateStep
<1>3. ASSUME UNCHANGED script PROVE LaunchInv'
  BY <1>1, <1>2, <1>3 DEF LaunchInv
<1>4. ASSUME NEW g \in Gates, StartNew(g) PROVE LaunchInv'
  <2>1. /\ script'.pc \in {"converge", "restore"} /\ Launched' = <<g, "new">>
        /\ script'.pc = "converge" => files[g] = {}
    BY <1>4 DEF StartNew, Launched
  <2>2. files[g] = {} => Untouched(<<g, "new">>)'
    BY <1>0, UntouchedStays DEF EvidenceInv, GateInv, FreshDrivers, Drivers, Modes
  <2> QED
    BY <2>1, <2>2 DEF LaunchInv, BeforeLaunch, Untouched
<1>5. ASSUME NEW g \in Gates, StartResume(g) PROVE LaunchInv'
  <2>1. /\ script'.pc \in {"converge", "restore"} /\ Launched' = <<g, "resume">>
        /\ script'.pc = "converge" => "pre_resume" \notin files[g]
    BY <1>5 DEF StartResume, MayResume, Launched
  <2>2. "pre_resume" \notin files[g] => Untouched(<<g, "resume">>)'
    BY <1>0, UntouchedStays DEF EvidenceInv, GateInv, FreshDrivers, Drivers, Modes
  <2> QED
    BY <2>1, <2>2 DEF LaunchInv, BeforeLaunch, Untouched
<1>6. CASE Launch
  <2>1. script'.pc = "driving"
    BY <1>0, <1>6 DEF Launch, Step, ScriptTypes
  <2> QED
    BY <2>1 DEF LaunchInv, BeforeLaunch
<1>7. CASE \/ Converge \/ StopProxy \/ Prepare \/ DriverEnded \/ Inspect \/ Finalize \/ Complete
           \/ ScriptFails \/ Signal \/ CutOff \/ RedisForgets
           \/ \E g \in Gates : StartRestore(g) \/ Review(g)
  <2>1. ASSUME script'.pc \in BeforeLaunch PROVE Untouched(Launched)'
    BY <1>0, <1>1, <1>7, <2>1, ScriptMoves
  <2>2. ASSUME script'.pc = "complete" PROVE state'[script'.gate] \in {"PENDING_RESTORE", "COMPLETE"}
    <3>1. CASE script' = script
      BY <1>2, <2>2, <3>1
    <3>2. CASE Finalize /\ script'.gate = script.gate /\ state[script.gate] = "PENDING_RESTORE"
      BY <3>2 DEF Finalize
    <3> QED
      BY <1>0, <1>7, <2>2, <3>1, <3>2, ScriptMoves
  <2> QED
    BY <2>1, <2>2 DEF LaunchInv
<1>8. ASSUME NEW d \in Drivers, Drive(d) \/ DriverFails(d) PROVE LaunchInv'
  BY <1>3, <1>8, DriveFrame
<1>9. CASE (\E key \in Keys : Execute(key)) \/ UNCHANGED vars
  BY <1>3, <1>9 DEF Execute, vars
<1> QED
  BY <1>4, <1>5, <1>6, <1>7, <1>8, <1>9 DEF Next, Script

LEMMA EvidenceStep == EvidenceInv /\ [Next]_vars => EvidenceInv'
<1> SUFFICES ASSUME EvidenceInv, [Next]_vars PROVE EvidenceInv'
  OBVIOUS
<1>1. TypeInv' /\ OnePlace' /\ LaunchInv'
  BY TypeStep, OnePlaceStep, LaunchInvStep DEF EvidenceInv
<1>2. \A d \in Drivers : RunsInv(d)' /\ ResumeInv(d)'
  BY RunsStep, ResumeStep
<1>3. \A g \in Gates : GateInv(g)' /\ CriteriaInv(g)'
  BY GateStep, CriteriaInvStep
<1> QED
  BY <1>1, <1>2, <1>3 DEF EvidenceInv

LEMMA EvidenceInit == Init => EvidenceInv
<1> SUFFICES ASSUME Init PROVE EvidenceInv
  OBVIOUS
<1>1. TypeInv
  BY TypeInit
<1>2. \A key : Nowhere(key)
  BY DEF Init, Nowhere, In
<1>3. OnePlace
  BY <1>2 DEF OnePlace, Nowhere
<1>4. \A d \in Drivers : driver[d].pc = "off" /\ driver[d].purpose = "cohort"
  BY DEF Init, NoDriver
<1>5. \A d \in Drivers : RunsInv(d) /\ ResumeInv(d)
  BY <1>4 DEF RunsInv, Live, ResumeInv, LivePurposes
<1>6. \A d \in Drivers : Untouched(d)
  BY <1>2 DEF Init, Untouched, Drivers
<1>7. \A g \in Gates : GateInv(g)
  BY <1>6 DEF Init, GateInv, Drivers, Modes
<1>8. \A g \in Gates : criteria[g] = <<>>
  BY DEF Init
<1>9. DOMAIN <<>> = {}
  OBVIOUS
<1>10. \A g \in Gates : CriteriaInv(g)
  BY <1>8, <1>9 DEF CriteriaInv
<1>11. LaunchInv
  BY DEF Init, NoScript, LaunchInv, BeforeLaunch
<1> QED
  BY <1>1, <1>3, <1>5, <1>7, <1>10, <1>11 DEF EvidenceInv

LEMMA PurposesOf == \A g : KeysFor(g, Purposes) = KeysFor(g, NewPurposes) \cup KeysFor(g, LivePurposes)
BY DEF KeysFor, Purposes, NewPurposes, LivePurposes

\* A gate that passes has earned it: all its runs ended in the databases made for them, the
\* reviewer agreed and the dataset in eval/ is its own, whatever was cut off or moved under a
\* driver on the way.
THEOREM PassesAreEarned == Spec => []PassIsEarned
<1>1. EvidenceInv => PassIsEarned
  <2> SUFFICES ASSUME EvidenceInv, NEW g \in Gates, Verdict(g) = "PASS"
               PROVE  /\ \A key \in KeysFor(g, Purposes) : Settled(key)
                      /\ review[g] = "agrees" /\ rows = g /\ manifest = g
    BY DEF PassIsEarned, Settled
  <2> DEFINE statuses == {criteria[g][name] : name \in DOMAIN criteria[g]}
  <2>1. statuses = {"PASS"}
    BY DEF Verdict
  <2>2. \E name : name \in DOMAIN criteria[g]
    BY <2>1
  <2>3. "human_review" \in DOMAIN criteria[g]
    BY <2>2 DEF EvidenceInv, CriteriaInv
  <2>4. criteria[g]["human_review"] = "PASS"
    BY <2>1, <2>3
  <2>5. /\ state[g] # "none" /\ AllSettled(g, LivePurposes)
        /\ review[g] = "agrees" /\ rows = g /\ manifest = g
    BY <2>3, <2>4 DEF EvidenceInv, CriteriaInv
  <2>6. AllSettled(g, NewPurposes)
    BY <2>5 DEF EvidenceInv, GateInv
  <2> QED
    BY <2>5, <2>6, PurposesOf DEF AllSettled
<1> QED
  BY <1>1, EvidenceInit, EvidenceStep, PTL DEF Spec

\* A gate that got as far as the reviewer has none of its runs in anybody else's database, the
\* ordinary one included; one whose resume got to its end, neither.
THEOREM RunsAreAtHome == Spec => []RunsStayHome
<1>1. EvidenceInv => RunsStayHome
  <2> SUFFICES ASSUME EvidenceInv PROVE RunsStayHome
    OBVIOUS
  <2>1. ASSUME NEW key \in Keys, Settled(key), NEW db \in Databases, In(key, db) PROVE db = Home(key)
    BY <2>1, HomeIs DEF EvidenceInv, OnePlace, Settled, In
  <2>2. ASSUME NEW g \in Gates, NEW purposes, AllSettled(g, purposes), NEW db \in Databases,
               NEW key \in KeysFor(g, purposes), key \in queued[db] \cup ended[db]
        PROVE  db = Home(key)
    BY <2>1, <2>2 DEF AllSettled, KeysFor, In
  <2>3. \A g \in Gates : KeysFor(g, {}) = {} /\ AllSettled(g, {})
    BY DEF KeysFor, AllSettled
  <2>4. ASSUME NEW g \in Gates
        PROVE  AllSettled(g, IF state[g] = "none" THEN {}
                             ELSE IF state[g] = "PENDING_HUMAN"
                                  THEN {"cohort", "control", "capture_off"} ELSE Purposes)
    <3>1. CASE state[g] = "none"
      BY <2>3, <3>1
    <3>2. CASE state[g] = "PENDING_HUMAN"
      BY <3>2 DEF EvidenceInv, GateInv, NewPurposes
    <3>3. CASE state[g] \in {"PENDING_RESTORE", "COMPLETE"}
      <4>1. AllSettled(g, NewPurposes) /\ AllSettled(g, LivePurposes)
        BY <3>3 DEF EvidenceInv, GateInv
      <4> QED
        BY <3>3, <4>1, PurposesOf DEF AllSettled
    <3> QED
      BY <3>1, <3>2, <3>3 DEF EvidenceInv, TypeInv, FileTypes
  <2> QED
    BY <2>2, <2>4 DEF RunsStayHome
<1> QED
  BY <1>1, EvidenceInit, EvidenceStep, PTL DEF Spec
=============================================================================
