---------------------------- MODULE CohortProofs ----------------------------
(***************************************************************************)
(* Proofs about Cohort, for every catalog, any number of retries, rounds   *)
(* and attempts, any number of lost leases and crashes, and a model server *)
(* that may itself fail.                                                   *)
(***************************************************************************)
EXTENDS Cohort, TLAPS

AtCase == {"submit", "wait", "verify", "disarm"}

\* From submit to disarm the window is that of the driver's case.
WindowInv == pc \in AtCase => at \in 1..Len(Case) /\ window.case = Case[at]
\* No more is consumed than was registered.
CursorInv == window.case # NoCase => window.cursor <= Len(Schedule[window.case])
\* Only the case the driver waits for, or gave up on, has a live run.
LiveInv ==
    \A c \in Cases : run[c].status \in {"queued", "running"} =>
        pc \in {"wait", "aborted"} /\ window.case = c
\* Cases the driver has not submitted have not been attempted.
FreshInv ==
    pc # "aborted" => \A i \in 1..Len(Case) :
        i > at \/ (i = at /\ pc \in {"arm", "submit"}) => run[Case[i]].attempt = 0
QueuedInv == \A c \in Cases : run[c].status = "queued" => run[c].attempt < MaxAttempts
RetryInv == worker.pc = "retry" => worker.try < Retries

IInv == TypeOK /\ WindowInv /\ CursorInv /\ LiveInv /\ FreshInv /\ QueuedInv /\ RetryInv

LEMMA CaseIsCase == ASSUME NEW i \in 1..Len(Case) PROVE Case[i] \in Cases
BY DEF Cases

LEMMA Bounds ==
    /\ Retries \in Nat /\ MaxExpiries \in Nat /\ MaxCrashes \in Nat
    /\ MaxRounds \in Nat \ {0} /\ MaxAttempts \in Nat \ {0}
BY BoundsAssumption

LEMMA LenCase == Len(Case) \in Nat
BY CaseAssumption

\* A worker whose fence holds works on a run that is running.
LEMMA CurrentRun ==
    ASSUME TypeOK, Current
    PROVE  worker.run \in Cases /\ run[worker.run].status = "running"
BY DEF TypeOK, Worker, Current

LEMMA IdleType == Idle \in Worker
BY BoundsAssumption DEF Idle, NoCue, Cue, Worker, WorkerStep, Reply

LEMMA InitInv == Init => IInv
<1> SUFFICES ASSUME Init PROVE IInv
  OBVIOUS
<1>1. TypeOK
  <2>1. /\ pc \in {"arm", "parity"} /\ at \in 1..Len(Case) + 1
    BY LenCase DEF Init
  <2>2. window \in Window
    BY DEF Init, NoWindow, Window
  <2>3. run \in [Cases -> Run]
    BY BoundsAssumption DEF Init, Run
  <2>4. <<>> \in Seq(Reply) /\ <<>> \in Seq(Registered) /\ <<>> \in Seq(Cue)
    OBVIOUS
  <2>5. QED
    BY <2>1, <2>2, <2>3, <2>4, IdleType, BoundsAssumption DEF Init, TypeOK
<1>2. WindowInv /\ CursorInv /\ LiveInv /\ QueuedInv /\ RetryInv
  BY DEF Init, WindowInv, AtCase, CursorInv, NoWindow, LiveInv, QueuedInv, RetryInv, Idle
<1>3. FreshInv
  BY CaseIsCase DEF Init, FreshInv
<1>4. QED
  BY <1>1, <1>2, <1>3 DEF IInv

\* A step of the worker that leaves runs, window and driver alone.
LEMMA OnlyWorker ==
    ASSUME IInv, worker' \in Worker, RetryInv', UNCHANGED <<driver, window, run, expiries, crashes>>,
           turns' \in [Cases -> Seq(Reply)], heard' \in [Cases -> Seq(Cue)]
    PROVE  IInv'
BY DEF IInv, TypeOK, WindowInv, CursorInv, LiveInv, FreshInv, QueuedInv, driver

\* A step that changes one run, which was live, and neither the window nor the driver.
LEMMA OnlyLiveRun ==
    ASSUME IInv, NEW c \in Cases, run[c].status \in {"queued", "running"},
           NEW r \in Run, run' = [run EXCEPT ![c] = r],
           r.status = "queued" => r.attempt < MaxAttempts,
           worker' \in Worker, RetryInv', UNCHANGED <<driver, window, turns, heard>>,
           expiries' \in 0..MaxExpiries, crashes' \in 0..MaxCrashes
    PROVE  IInv'
<1>1. TypeOK' /\ WindowInv' /\ CursorInv'
  BY DEF IInv, TypeOK, WindowInv, CursorInv, driver
<1>2. LiveInv' /\ QueuedInv'
  BY DEF IInv, TypeOK, LiveInv, QueuedInv, driver
<1>3. FreshInv'
  <2> SUFFICES ASSUME pc # "aborted", NEW i \in 1..Len(Case),
                      i > at \/ (i = at /\ pc \in {"arm", "submit"})
               PROVE  run'[Case[i]].attempt = 0
    BY DEF FreshInv, driver
  <2>1. pc = "wait" /\ window.case = c
    BY DEF IInv, LiveInv
  <2>2. at \in 1..Len(Case) /\ c = Case[at] /\ i # at
    BY <2>1 DEF IInv, WindowInv, AtCase
  <2>3. Case[i] # c
    BY <2>2, CaseAssumption
  <2>4. run'[Case[i]] = run[Case[i]]
    BY <2>3, CaseIsCase DEF IInv, TypeOK
  <2>5. QED
    BY <2>4 DEF IInv, FreshInv
<1>4. QED
  BY <1>1, <1>2, <1>3 DEF IInv

LEMMA ClaimStep == ASSUME IInv, NEW c \in Cases, Claim(c) PROVE IInv'
<1> DEFINE r == [status |-> "running", attempt |-> run[c].attempt + 1,
                 leased |-> TRUE, carried |-> FALSE]
<1>1. run[c] \in Run /\ run[c].attempt \in 0..MaxAttempts /\ run[c].attempt < MaxAttempts
  BY DEF IInv, TypeOK, Run, QueuedInv, Claim
<1>2. r \in Run
  BY <1>1, BoundsAssumption DEF Run
<1>3. worker' \in Worker
  <2>1. worker' = [pc |-> "begin", run |-> c, gen |-> run[c].attempt + 1, step |-> 1, try |-> 0,
                   reply |-> "200", cue |-> NoCue]
    BY DEF Claim, Idle
  <2>2. /\ run[c].attempt + 1 \in 0..MaxAttempts /\ 1 \in 0..MaxRounds + 1 /\ 0 \in 0..Retries
        /\ NoCue \in Cue
    BY <1>1, Bounds DEF NoCue, Cue
  <2>3. QED
    BY <2>1, <2>2 DEF Worker, WorkerStep, Reply
<1>4. RetryInv'
  BY DEF Claim, Idle, RetryInv
<1>5. run' = [run EXCEPT ![c] = r]
  BY DEF Claim, IInv, TypeOK
<1>6. /\ r.status # "queued" /\ run[c].status = "queued"
      /\ UNCHANGED <<driver, window, turns, heard, expiries, crashes>>
  BY DEF Claim
<1>7. expiries' \in 0..MaxExpiries /\ crashes' \in 0..MaxCrashes
  BY <1>6 DEF IInv, TypeOK
<1> HIDE DEF r
<1>8. QED
  BY <1>2, <1>3, <1>4, <1>5, <1>6, <1>7, OnlyLiveRun

LEMMA WorkerStepInv ==
    ASSUME IInv, BeginStep \/ Retry \/ UseTurn PROVE IInv'
<1>1. worker' \in Worker /\ RetryInv'
  <2>0. worker \in Worker
    BY DEF IInv, TypeOK
  <2>1. CASE worker' = Idle
    BY <2>1, IdleType DEF RetryInv, Idle
  <2>2. CASE BeginStep /\ worker' # Idle
    BY <2>0, <2>2 DEF BeginStep, Dropped, Goto, Worker, WorkerStep, RetryInv
  <2>3. CASE Retry /\ worker' # Idle
    <3>1. worker' = [worker EXCEPT !.pc = "call", !.try = @ + 1] /\ worker.try < Retries
      BY <2>3 DEF Retry, Dropped, IInv, RetryInv
    <3>2. worker.try \in Nat /\ worker.try + 1 \in 0..Retries
      BY <2>0, <3>1, Bounds DEF Worker
    <3>3. worker' \in Worker
      BY <2>0, <3>1, <3>2 DEF Worker, WorkerStep
    <3>4. worker'.pc = "call"
      BY <2>0, <3>1 DEF Worker
    <3>5. QED
      BY <3>3, <3>4 DEF RetryInv
  <2>4. CASE UseTurn /\ worker' # Idle
    <3>1. CASE worker' = [worker EXCEPT !.pc = "complete"] \/ worker' = [worker EXCEPT !.pc = "fail"]
      BY <2>0, <3>1 DEF Worker, WorkerStep, RetryInv
    <3>2. CASE worker.step <= MaxRounds /\ \E p \in {"fail", "begin"} :
                 worker' = [worker EXCEPT !.pc = p, !.step = @ + 1, !.try = 0]
      <4>1. PICK p \in {"fail", "begin"} :
                 worker' = [worker EXCEPT !.pc = p, !.step = @ + 1, !.try = 0]
        BY <3>2
      <4>2. worker.step \in Nat /\ worker.step + 1 \in 0..MaxRounds + 1 /\ 0 \in 0..Retries
        BY <2>0, <3>2, Bounds DEF Worker
      <4>3. worker' \in Worker /\ worker'.pc = p
        BY <2>0, <4>1, <4>2 DEF Worker, WorkerStep
      <4>4. QED
        BY <4>3 DEF RetryInv
    <3>3. QED
      BY <2>4, <3>1, <3>2 DEF UseTurn, Dropped, Goto
  <2>5. QED
    BY <2>1, <2>2, <2>3, <2>4
<1>2. UNCHANGED <<driver, window, run, turns, heard, expiries, crashes>>
  BY DEF BeginStep, Retry, UseTurn
<1>3. turns' \in [Cases -> Seq(Reply)] /\ heard' \in [Cases -> Seq(Cue)]
  BY <1>2 DEF IInv, TypeOK
<1>4. QED
  BY <1>1, <1>2, <1>3, OnlyWorker

LEMMA RecordStep == ASSUME IInv, RecordTurn PROVE IInv'
<1>0. worker \in Worker
  BY DEF IInv, TypeOK
<1>1. CASE Current /\ worker' # Idle
  <2>1. worker.run \in Cases
    BY <1>1, CurrentRun DEF IInv
  <2>2. /\ worker' = [worker EXCEPT !.pc = AfterRecord]
        /\ turns' = [turns EXCEPT ![worker.run] = Append(@, worker.reply)]
        /\ heard' = [heard EXCEPT ![worker.run] = Append(@, worker.cue)]
    BY <1>1 DEF RecordTurn, Goto, Dropped
  <2>3. worker.reply \in Reply /\ worker.cue \in Cue
    BY <1>0 DEF Worker
  <2>4. turns' \in [Cases -> Seq(Reply)]
    BY <2>1, <2>2, <2>3 DEF IInv, TypeOK
  <2>5. heard' \in [Cases -> Seq(Cue)]
    BY <2>1, <2>2, <2>3 DEF IInv, TypeOK
  <2>6. worker' \in Worker /\ RetryInv'
    BY <1>0, <2>2, BoundsAssumption DEF AfterRecord, Worker, WorkerStep, RetryInv
  <2>7. UNCHANGED <<driver, window, run, expiries, crashes>>
    BY DEF RecordTurn
  <2>8. QED
    BY <2>4, <2>5, <2>6, <2>7, OnlyWorker
<1>2. CASE worker' = Idle /\ UNCHANGED <<turns, heard>>
  <2>1. worker' \in Worker /\ RetryInv'
    BY <1>2, IdleType DEF RetryInv, Idle
  <2>2. UNCHANGED <<driver, window, run, expiries, crashes>>
    BY DEF RecordTurn
  <2>3. turns' \in [Cases -> Seq(Reply)] /\ heard' \in [Cases -> Seq(Cue)]
    BY <1>2 DEF IInv, TypeOK
  <2>4. QED
    BY <2>1, <2>2, <2>3, OnlyWorker
<1>3. QED
  <2>1. AfterRecord # "idle"
    BY DEF AfterRecord
  <2>2. QED
    BY <1>0, <1>1, <1>2, <2>1 DEF RecordTurn, Dropped, Goto, Idle, Worker

LEMMA DecisionType ==
    ASSUME IInv
    PROVE  /\ Decision \in Registered =>
                window.case \in Cases /\ window.cursor < Len(Schedule[window.case])
           /\ Replies \subseteq Reply
<1>0. window \in Window /\ window.case \in Cases \cup {NoCase} /\ window.cursor \in Nat
  BY DEF IInv, TypeOK, Window
<1>1. ASSUME window.case = NoCase PROVE Decision = "refused"
  BY <1>1 DEF Decision
<1>2. ASSUME window.case # NoCase, window.closed PROVE Decision = "forward"
  BY <1>2 DEF Decision
<1>3. ASSUME window.case # NoCase, ~window.closed,
             ~(window.cursor < Len(Schedule[window.case]))
      PROVE  Decision = "exhausted"
  <2>1. Schedule[window.case] \in Seq(Registered)
    BY <1>0, <1>3, ScheduleAssumption
  <2>2. Len(Schedule[window.case]) \in Nat
    BY <2>1
  <2>3. QED
    BY <1>0, <1>3, <2>2 DEF Decision
<1>4. ASSUME window.case # NoCase, ~window.closed,
             window.cursor < Len(Schedule[window.case])
      PROVE  Decision \in Registered
  <2>1. Schedule[window.case] \in Seq(Registered)
    BY <1>0, <1>4, ScheduleAssumption
  <2>2. Len(Schedule[window.case]) \in Nat /\ window.cursor + 1 \in 1..Len(Schedule[window.case])
    BY <1>0, <1>4, <2>1
  <2>3. Schedule[window.case][window.cursor + 1] \in Registered
    BY <2>1, <2>2
  <2>4. Decision = Schedule[window.case][window.cursor + 1]
    BY <1>0, <1>4, <2>2 DEF Decision
  <2>5. QED
    BY <2>3, <2>4
<1>5. Decision \in Registered =>
        window.case \in Cases /\ window.cursor < Len(Schedule[window.case])
  BY <1>0, <1>1, <1>2, <1>3, <1>4 DEF Registered
<1>6. Decision \in Registered \cup {"refused", "forward", "exhausted"}
  BY <1>0, <1>1, <1>2, <1>3, <1>4
<1>7. Replies \subseteq Reply
  BY <1>6, BoundsAssumption DEF Replies, Registered, Reply
<1>8. QED
  BY <1>5, <1>7

LEMMA CallStep == ASSUME IInv, CallModel PROVE IInv'
<1>0. window \in Window /\ window.cursor \in Nat /\ worker \in Worker
  BY DEF IInv, TypeOK, Window
<1>1. PICK reply \in Replies :
        worker' = [worker EXCEPT !.pc = "record", !.reply = reply, !.cue = CueOf]
  BY DEF CallModel
<1>2. CueOf \in Cue
  BY <1>0, DecisionType DEF CueOf, NoCue, Cue, Window
<1>3. worker' \in Worker /\ RetryInv'
  <2>1. reply \in Reply
    BY <1>1, DecisionType
  <2>2. QED
    BY <1>0, <1>1, <1>2, <2>1 DEF Worker, WorkerStep, RetryInv
<1>4. /\ window' \in Window /\ window'.case = window.case
      /\ window'.case # NoCase => window'.cursor <= Len(Schedule[window'.case])
  <2>1. CASE Decision \in Registered
    <3>1. PICK b \in BOOLEAN : window' = [window EXCEPT !.cursor = @ + 1, !.closed = b]
      <4>1. window' = [window EXCEPT !.cursor = @ + 1, !.closed = (Decision = "200")]
        BY <2>1 DEF CallModel, WindowAfter
      <4>2. (Decision = "200") \in BOOLEAN
        OBVIOUS
      <4>3. QED
        BY <4>1, <4>2
    <3>2. window.case \in Cases /\ window.cursor < Len(Schedule[window.case])
      BY <2>1, DecisionType
    <3>3. Len(Schedule[window.case]) \in Nat
      BY <3>2, ScheduleAssumption
    <3>4. window'.case = window.case /\ window'.cursor = window.cursor + 1 /\ window' \in Window
      <4>1. window.case \in Cases \cup {NoCase} /\ window.cursor + 1 \in Nat
        BY <1>0 DEF Window
      <4>2. PICK d \in BOOLEAN : window' = [case |-> window.case, cursor |-> window.cursor + 1,
                                          closed |-> d]
        BY <1>0, <3>1 DEF Window
      <4>3. QED
        BY <4>1, <4>2 DEF Window
    <3>5. QED
      BY <1>0, <3>2, <3>3, <3>4
  <2>2. CASE Decision \notin Registered
    BY <1>0, <2>2 DEF CallModel, WindowAfter, IInv, CursorInv
  <2>3. QED
    BY <2>1, <2>2
<1>5. UNCHANGED <<driver, run, turns, heard, expiries, crashes>>
  BY DEF CallModel
<1>6. TypeOK'
  BY <1>3, <1>4, <1>5 DEF IInv, TypeOK, driver
<1>7. WindowInv' /\ CursorInv' /\ LiveInv'
  BY <1>4, <1>5 DEF IInv, WindowInv, CursorInv, LiveInv, driver
<1>8. FreshInv' /\ QueuedInv'
  BY <1>5 DEF IInv, FreshInv, QueuedInv, driver
<1>9. QED
  BY <1>3, <1>6, <1>7, <1>8 DEF IInv

LEMMA FinishStep == ASSUME IInv, Finish PROVE IInv'
<1>0. worker' \in Worker /\ RetryInv'
  BY IdleType DEF Finish, RetryInv, Idle
<1>1. UNCHANGED <<driver, window, turns, heard, expiries, crashes>>
  BY DEF Finish
<1>2. CASE Current
  <2> DEFINE s == IF worker.pc = "complete" THEN "completed" ELSE "failed"
             r == [run[worker.run] EXCEPT !.leased = FALSE, !.status = s]
  <2>1. worker.run \in Cases /\ run[worker.run].status = "running"
    BY <1>2, CurrentRun DEF IInv
  <2>2. run[worker.run] \in Run
    BY <2>1 DEF IInv, TypeOK
  <2>3. r \in Run /\ r.status # "queued"
    BY <2>2 DEF Run, Terminal
  <2>4. run' = [run EXCEPT ![worker.run] = r]
    BY <1>2, <2>1 DEF Finish, IInv, TypeOK
  <2>5. expiries' \in 0..MaxExpiries /\ crashes' \in 0..MaxCrashes
    BY <1>1 DEF IInv, TypeOK
  <2> HIDE DEF r
  <2>6. QED
    BY <1>0, <1>1, <2>1, <2>3, <2>4, <2>5, OnlyLiveRun
<1>3. CASE ~Current
  <2>1. UNCHANGED run
    BY <1>3 DEF Finish
  <2>2. turns' \in [Cases -> Seq(Reply)] /\ heard' \in [Cases -> Seq(Cue)]
    BY <1>1 DEF IInv, TypeOK
  <2>3. QED
    BY <1>0, <1>1, <2>1, <2>2, OnlyWorker
<1>4. QED
  BY <1>2, <1>3

LEMMA CrashStep == ASSUME IInv, Crash PROVE IInv'
<1>1. worker' \in Worker /\ RetryInv' /\ crashes' \in 0..MaxCrashes
  BY IdleType, BoundsAssumption DEF Crash, RetryInv, Idle, IInv, TypeOK
<1>2. UNCHANGED <<driver, window, run, turns, heard, expiries>>
  BY DEF Crash
<1>3. QED
  BY <1>1, <1>2 DEF IInv, TypeOK, WindowInv, CursorInv, LiveInv, FreshInv, QueuedInv, driver

LEMMA RunStep ==
    ASSUME IInv, NEW c \in Cases, LoseDelivery(c) \/ Expire(c) \/ Sweep(c) PROVE IInv'
<1>0. run[c] \in Run /\ worker \in Worker /\ run[c].status \in {"queued", "running"}
  BY DEF IInv, TypeOK, LoseDelivery, Expire, Sweep
<1>1. /\ UNCHANGED <<driver, window, turns, heard, worker>>
      /\ expiries' \in 0..MaxExpiries /\ crashes' \in 0..MaxCrashes
  BY BoundsAssumption DEF IInv, TypeOK, LoseDelivery, Expire, Sweep
<1>2. worker' \in Worker /\ RetryInv'
  BY <1>0, <1>1 DEF IInv, RetryInv
<1>3. CASE LoseDelivery(c)
  <2> DEFINE r == [run[c] EXCEPT !.carried = FALSE]
  <2>1. r \in Run /\ (r.status = "queued" => r.attempt < MaxAttempts)
    BY <1>0 DEF Run, IInv, QueuedInv
  <2>2. run' = [run EXCEPT ![c] = r]
    BY <1>3 DEF LoseDelivery, IInv, TypeOK
  <2> HIDE DEF r
  <2>3. QED
    BY <1>0, <1>1, <1>2, <2>1, <2>2, OnlyLiveRun
<1>4. CASE Expire(c)
  <2> DEFINE r == [run[c] EXCEPT !.leased = FALSE]
  <2>1. r \in Run /\ (r.status = "queued" => r.attempt < MaxAttempts)
    BY <1>0 DEF Run, IInv, QueuedInv
  <2>2. run' = [run EXCEPT ![c] = r]
    BY <1>4 DEF Expire, IInv, TypeOK
  <2> HIDE DEF r
  <2>3. QED
    BY <1>0, <1>1, <1>2, <2>1, <2>2, OnlyLiveRun
<1>5. CASE Sweep(c) /\ run[c].attempt < MaxAttempts
  <2> DEFINE r == [run[c] EXCEPT !.status = "queued", !.carried = TRUE]
  <2>1. r \in Run /\ (r.status = "queued" => r.attempt < MaxAttempts)
    BY <1>0, <1>5 DEF Run
  <2>2. run' = [run EXCEPT ![c] = r]
    BY <1>5 DEF Sweep, IInv, TypeOK
  <2> HIDE DEF r
  <2>3. QED
    BY <1>0, <1>1, <1>2, <2>1, <2>2, OnlyLiveRun
<1>6. CASE Sweep(c) /\ ~(run[c].attempt < MaxAttempts)
  <2> DEFINE r == [run[c] EXCEPT !.status = "failed"]
  <2>1. r \in Run /\ (r.status = "queued" => r.attempt < MaxAttempts)
    BY <1>0 DEF Run, Terminal
  <2>2. run' = [run EXCEPT ![c] = r]
    BY <1>6 DEF Sweep, IInv, TypeOK
  <2> HIDE DEF r
  <2>3. QED
    BY <1>0, <1>1, <1>2, <2>1, <2>2, OnlyLiveRun
<1>7. QED
  BY <1>3, <1>4, <1>5, <1>6

LEMMA LoseLeaseStep == ASSUME IInv, LoseLease PROVE IInv'
<1> DEFINE r == [run[worker.run] EXCEPT !.leased = FALSE]
<1>1. worker.run \in Cases /\ run[worker.run].status = "running"
  BY CurrentRun DEF IInv, LoseLease
<1>2. run[worker.run] \in Run
  BY <1>1 DEF IInv, TypeOK
<1>3. r \in Run /\ r.status # "queued"
  BY <1>1, <1>2 DEF Run
<1>4. run' = [run EXCEPT ![worker.run] = r]
  BY <1>1 DEF LoseLease, IInv, TypeOK
<1>5. UNCHANGED <<driver, window, turns, heard, worker>>
  BY DEF LoseLease
<1>6. worker' \in Worker /\ RetryInv'
  BY <1>5 DEF IInv, TypeOK, RetryInv
<1>7. expiries' \in 0..MaxExpiries /\ crashes' \in 0..MaxCrashes
  BY BoundsAssumption DEF IInv, TypeOK, LoseLease
<1> HIDE DEF r
<1>8. QED
  BY <1>1, <1>3, <1>4, <1>5, <1>6, <1>7, OnlyLiveRun

LEMMA ArmStep == ASSUME IInv, Arm PROVE IInv'
<1>0. /\ pc = "arm" /\ at \in 1..Len(Case) /\ Here \in Cases
      /\ UNCHANGED <<at, proof, run, turns, worker, heard, expiries, crashes>>
  BY LenCase, CaseIsCase DEF Arm, IInv, TypeOK, Here
<1>1. CASE window.case = NoCase
  <2>1. window' = ArmedFor(Here) /\ pc' = "submit"
    BY <1>1 DEF Arm
  <2>2. window' \in Window /\ window'.case = Here /\ window'.cursor = 0
    BY <1>0, <2>1 DEF ArmedFor, Window
  <2>3. Len(Schedule[Here]) \in Nat
    BY <1>0, ScheduleAssumption
  <2>4. TypeOK'
    BY <1>0, <2>1, <2>2 DEF IInv, TypeOK
  <2>5. WindowInv' /\ CursorInv'
    BY <1>0, <2>1, <2>2, <2>3 DEF WindowInv, CursorInv, Here
  <2>6. LiveInv' /\ FreshInv' /\ QueuedInv' /\ RetryInv'
    BY <1>0, <2>1 DEF IInv, LiveInv, FreshInv, QueuedInv, RetryInv
  <2>7. QED
    BY <2>4, <2>5, <2>6 DEF IInv
<1>2. CASE window.case # NoCase
  <2>1. pc' = "aborted" /\ UNCHANGED window
    BY <1>2 DEF Arm, Abort
  <2>2. QED
    BY <1>0, <2>1 DEF IInv, TypeOK, WindowInv, AtCase, CursorInv, LiveInv, FreshInv, QueuedInv,
       RetryInv
<1>3. QED
  BY <1>1, <1>2

LEMMA SubmitStep == ASSUME IInv, Submit PROVE IInv'
<1>0. /\ pc = "submit" /\ at \in 1..Len(Case) /\ Here \in Cases /\ window.case = Here
      /\ pc' = "wait" /\ UNCHANGED <<at, proof, window, turns, worker, heard, expiries, crashes>>
  BY CaseIsCase DEF Submit, IInv, WindowInv, AtCase, Here
<1> DEFINE r == [run[Here] EXCEPT !.status = "queued", !.carried = TRUE]
<1>1. run[Here] \in Run /\ run[Here].attempt = 0
  BY <1>0 DEF IInv, TypeOK, FreshInv, Here
<1>2. r \in Run /\ r.attempt = 0
  BY <1>1 DEF Run
<1>3. run' = [run EXCEPT ![Here] = r]
  BY <1>0 DEF Submit, IInv, TypeOK
<1> HIDE DEF r
<1>4. TypeOK' /\ WindowInv' /\ CursorInv' /\ RetryInv'
  BY <1>0, <1>2, <1>3 DEF IInv, TypeOK, WindowInv, AtCase, CursorInv, RetryInv
<1>5. LiveInv'
  BY <1>0, <1>3 DEF IInv, TypeOK, LiveInv
<1>6. QueuedInv'
  BY <1>0, <1>2, <1>3, BoundsAssumption DEF IInv, TypeOK, QueuedInv
<1>7. FreshInv'
  <2> SUFFICES ASSUME NEW i \in 1..Len(Case), i > at PROVE run'[Case[i]].attempt = 0
    BY <1>0 DEF FreshInv
  <2>1. run[Case[i]].attempt = 0 /\ Case[i] \in Cases
    BY <1>0, CaseIsCase DEF IInv, FreshInv
  <2>2. QED
    BY <1>0, <1>2, <1>3, <2>1 DEF IInv, TypeOK
<1>8. QED
  BY <1>4, <1>5, <1>6, <1>7 DEF IInv

\* Steps of the driver that only move its pc, or give up.
LEMMA MoveStep ==
    ASSUME IInv, proof' \in [Cases -> Seq(Registered)],
           UNCHANGED <<at, window, run, turns, worker, heard, expiries, crashes>>,
           \/ pc' = "aborted"
           \/ /\ pc = "wait" /\ run[Here].status \in Terminal /\ pc' \in {"verify", "disarm"}
           \/ pc = "verify" /\ pc' = "disarm"
           \/ pc = "parity" /\ pc' = "accepted"
    PROVE  IInv'
<1>1. TypeOK' /\ CursorInv' /\ QueuedInv' /\ RetryInv'
  BY DEF IInv, TypeOK, CursorInv, QueuedInv, RetryInv
<1>2. WindowInv' /\ FreshInv'
  BY DEF IInv, WindowInv, AtCase, FreshInv
<1>3. LiveInv'
  <2> SUFFICES ASSUME NEW c \in Cases, run[c].status \in {"queued", "running"}
               PROVE  pc' \in {"wait", "aborted"} /\ window.case = c
    BY DEF LiveInv
  <2>1. pc \in {"wait", "aborted"} /\ window.case = c
    BY DEF IInv, LiveInv
  <2>2. CASE pc' = "aborted"
    BY <2>1, <2>2
  <2>3. CASE pc = "wait" /\ run[Here].status \in Terminal
    BY <2>1, <2>3 DEF IInv, WindowInv, AtCase, Here, Terminal
  <2>4. QED
    BY <2>1, <2>2, <2>3
<1>4. QED
  BY <1>1, <1>2, <1>3 DEF IInv

LEMMA VerifyStep == ASSUME IInv, VerifySchedule PROVE IInv'
<1>0. /\ pc = "verify" /\ Here \in Cases /\ window.case = Here
      /\ UNCHANGED <<at, window, run, turns, worker, heard, expiries, crashes>>
      /\ pc' \in {"disarm", "aborted"}
  BY CaseIsCase DEF VerifySchedule, Abort, IInv, WindowInv, AtCase, Here
<1>1. Served \in Seq(Registered)
  <2>1. /\ Schedule[Here] \in Seq(Registered) /\ Here # NoCase
        /\ window.cursor \in Nat /\ window.cursor <= Len(Schedule[Here])
    BY <1>0, ScheduleAssumption, CaseAssumption DEF IInv, TypeOK, Window, CursorInv
  <2>2. \A i \in 1..window.cursor : Schedule[Here][i] \in Registered
    BY <2>1
  <2>3. SubSeq(Schedule[Here], 1, window.cursor) \in Seq(Registered)
    BY <2>1, <2>2
  <2>4. QED
    BY <1>0, <2>1, <2>3 DEF Served
<1>2. proof' \in [Cases -> Seq(Registered)]
  BY <1>0, <1>1 DEF VerifySchedule, IInv, TypeOK
<1>3. QED
  BY <1>0, <1>2, MoveStep

LEMMA DisarmStep == ASSUME IInv, Disarm PROVE IInv'
<1>0. /\ pc = "disarm" /\ at \in 1..Len(Case) /\ window.case = Case[at]
      /\ UNCHANGED <<proof, run, turns, worker, heard, expiries, crashes>>
  BY DEF Disarm, IInv, WindowInv, AtCase
<1>1. CASE MayDisarm
  <2>1. window' = NoWindow /\ at' = at + 1 /\ pc' \in {"arm", "parity"}
    BY <1>1 DEF Disarm
  <2>2. window' \in Window /\ window'.case = NoCase
    BY <2>1 DEF NoWindow, Window
  <2>3. at' \in 1..Len(Case) + 1
    BY <1>0, <2>1, LenCase
  <2>4. TypeOK'
    BY <1>0, <2>1, <2>2, <2>3 DEF IInv, TypeOK
  <2>5. WindowInv' /\ CursorInv' /\ LiveInv' /\ QueuedInv' /\ RetryInv'
    BY <1>0, <2>1, <2>2 DEF IInv, WindowInv, AtCase, CursorInv, LiveInv, QueuedInv, RetryInv
  <2>6. FreshInv'
    BY <1>0, <2>1, LenCase DEF IInv, FreshInv
  <2>7. QED
    BY <2>4, <2>5, <2>6 DEF IInv
<1>2. CASE ~MayDisarm
  <2>1. pc' = "aborted" /\ UNCHANGED <<window, at>>
    BY <1>2 DEF Disarm, Abort
  <2>2. proof' \in [Cases -> Seq(Registered)]
    BY <1>0 DEF IInv, TypeOK
  <2>3. QED
    BY <1>0, <2>1, <2>2, MoveStep
<1>3. QED
  BY <1>1, <1>2

LEMMA StepInv == ASSUME IInv, [Next]_vars PROVE IInv'
<1>1. CASE Arm \/ Submit \/ VerifySchedule \/ Disarm
  BY <1>1, ArmStep, SubmitStep, VerifyStep, DisarmStep
<1>2. CASE AwaitTerminal \/ GiveUp \/ CheckParity
  <2>1. UNCHANGED <<at, proof, window, run, turns, worker, heard, expiries, crashes>>
    BY <1>2 DEF AwaitTerminal, GiveUp, CheckParity
  <2>2. proof' \in [Cases -> Seq(Registered)]
    BY <2>1 DEF IInv, TypeOK
  <2>3. QED
    BY <1>2, <2>1, <2>2, MoveStep DEF AwaitTerminal, GiveUp, CheckParity, Abort
<1>3. CASE Work
  BY <1>3, WorkerStepInv, CallStep, RecordStep, FinishStep, ClaimStep DEF Work
<1>4. CASE Crash \/ LoseLease \/ \E c \in Cases : LoseDelivery(c) \/ Expire(c) \/ Sweep(c)
  BY <1>4, CrashStep, LoseLeaseStep, RunStep
<1>5. CASE UNCHANGED vars
  BY <1>5 DEF vars, IInv, TypeOK, WindowInv, CursorInv, LiveInv, FreshInv, QueuedInv, RetryInv
<1>6. QED
  BY <1>1, <1>2, <1>3, <1>4, <1>5 DEF Next, Driver

LEMMA Invariance == Spec => []IInv
BY InitInv, StepInv, PTL DEF Spec

\* The state of the driver, the proxy, the worker and the runs stays well typed: no
\* attempt beyond the retries, no cursor behind the schedule, whatever is lost.
THEOREM TypeCorrect == Spec => []TypeOK
<1>1. IInv => TypeOK
  BY DEF IInv
<1>2. QED
  BY <1>1, Invariance, PTL

\* A run that may still be executed finds its own schedule armed, for any catalog and
\* any number of lost leases, lost deliveries and crashes.
THEOREM WindowOfTheLiveRun == Spec => []LiveRunOwnsWindow
<1>1. IInv => LiveRunOwnsWindow
  BY DEF IInv, LiveInv, LiveRunOwnsWindow
<1>2. QED
  BY <1>1, Invariance, PTL

-----------------------------------------------------------------------------
(* An accepted cohort is sound.  The model server itself does not fail here: a timeout *)
(* of its own is recorded like an injected one, and the gate cannot tell them apart.   *)

Fault == {"429", "timeout", "503"}
\* What the worker of c gets for the decision cue: the registered one, or, without one, a
\* turn or a refusal.
Explained(c, reply, cue) ==
    \/ cue.case = c /\ cue.n \in 1..Len(Schedule[c]) /\ reply = Schedule[c][cue.n]
    \/ cue = NoCue /\ reply \in {"200", "internal"}
\* The proxy has no fault left to give.
Over == window.closed \/ window.cursor = Len(Schedule[window.case])

BornInv ==
    \A c \in Cases : /\ run[c].attempt = 0 => heard[c] = <<>>
                     /\ run[c].status = "running" => run[c].attempt > 0
                     /\ Len(turns[c]) = Len(heard[c])
HeardInv == \A c \in Cases : \A i \in 1..Len(heard[c]) : Explained(c, turns[c][i], heard[c][i])
\* Recorded faults keep the order of the schedule: the distance between a fault's place in
\* the schedule and its place on record never shrinks.
OrderInv ==
    \A c \in Cases : \A i \in 1..Len(heard[c]) : turns[c][i] \in Fault =>
        /\ heard[c][i].n >= i
        /\ \A j \in i..Len(heard[c]) :
              turns[c][j] \in Fault => heard[c][j].n + i >= heard[c][i].n + j
\* What is on record for the armed case has been served, and after anything but a fault no
\* fault follows.
AskedInv ==
    window.case # NoCase => \A i \in 1..Len(heard[window.case]) :
        /\ turns[window.case][i] \in Fault => heard[window.case][i].n <= window.cursor
        /\ turns[window.case][i] \notin Fault => Over
\* The same of the reply that the worker is about to record, if it still may.
PendingInv ==
    worker.pc = "record" /\ Current =>
        /\ Explained(worker.run, worker.reply, worker.cue)
        /\ worker.reply \in Fault =>
              /\ worker.cue.n <= window.cursor
              /\ \A i \in 1..Len(heard[worker.run]) :
                    /\ turns[worker.run][i] \in Fault
                    /\ heard[worker.run][i].n < worker.cue.n
        /\ worker.reply \notin Fault => Over
AcceptInv == pc = "accepted" => \A c \in Cases : IsEnvironment(c) => Parity(c)

HInv == IInv /\ BornInv /\ HeardInv /\ OrderInv /\ AskedInv /\ PendingInv /\ AcceptInv

LEMMA Types ==
    ASSUME IInv
    PROVE  /\ run \in [Cases -> Run] /\ worker \in Worker /\ window \in Window
           /\ turns \in [Cases -> Seq(Reply)] /\ heard \in [Cases -> Seq(Cue)]
           /\ window.case \in Cases \cup {NoCase} /\ window.cursor \in Nat
           /\ window.closed \in BOOLEAN
           /\ \A c \in Cases : /\ Schedule[c] \in Seq(Registered) /\ Len(Schedule[c]) \in Nat
                               /\ Len(turns[c]) \in Nat /\ Len(heard[c]) \in Nat
                               /\ run[c].attempt \in Nat /\ c # NoCase
<1>1. /\ run \in [Cases -> Run] /\ worker \in Worker /\ window \in Window
      /\ turns \in [Cases -> Seq(Reply)] /\ heard \in [Cases -> Seq(Cue)]
  BY DEF IInv, TypeOK
<1>2. \A c \in Cases : run[c].attempt \in Nat
  BY <1>1, Bounds DEF Run
<1>3. \A c \in Cases : Schedule[c] \in Seq(Registered) /\ c # NoCase
  BY ScheduleAssumption, CaseAssumption
<1> QED
  BY <1>1, <1>2, <1>3 DEF Window

\* A run that is current is the one whose schedule is armed, and the driver waits for it.
LEMMA CurrentCase ==
    ASSUME IInv, Current
    PROVE  /\ worker.run \in Cases /\ window.case = worker.run /\ pc \in {"wait", "aborted"}
BY CurrentRun DEF IInv, LiveInv

LEMMA CursorBound ==
    ASSUME IInv, window.case # NoCase
    PROVE  window.case \in Cases /\ window.cursor <= Len(Schedule[window.case])
BY Types DEF IInv, CursorInv

\* One call to the proxy, with a model server that answers: nothing left to inject, or the
\* next decision of the schedule.
LEMMA Calls ==
    ASSUME IInv, UpstreamFaults = {}, CallModel, window.case # NoCase
    PROVE  \/ /\ Over /\ window' = window
              /\ \E reply \in {"200", "internal"} :
                    worker' = [worker EXCEPT !.pc = "record", !.reply = reply, !.cue = NoCue]
           \/ /\ ~window.closed /\ window.cursor + 1 \in 1..Len(Schedule[window.case])
              /\ window' = [window EXCEPT !.cursor = @ + 1,
                              !.closed = (Schedule[window.case][window.cursor + 1] = "200")]
              /\ worker' = [worker EXCEPT !.pc = "record",
                              !.reply = Schedule[window.case][window.cursor + 1],
                              !.cue = [case |-> window.case, n |-> window.cursor + 1]]
<1>1. /\ window.case \in Cases /\ window.cursor \in Nat
      /\ Len(Schedule[window.case]) \in Nat /\ Schedule[window.case] \in Seq(Registered)
      /\ window.cursor <= Len(Schedule[window.case]) /\ window.closed \in BOOLEAN
  BY Types, CursorBound
<1>2. PICK reply \in Replies :
        worker' = [worker EXCEPT !.pc = "record", !.reply = reply, !.cue = CueOf]
  BY DEF CallModel
<1>3. window' = WindowAfter
  BY DEF CallModel
<1>4. CASE window.closed
  <2>1. Decision = "forward"
    BY <1>4 DEF Decision
  <2>2. reply = "200" /\ CueOf = NoCue /\ window' = window
    BY <1>2, <1>3, <2>1 DEF Replies, CueOf, WindowAfter, Registered
  <2> QED
    BY <1>2, <1>4, <2>2 DEF Over
<1>5. CASE ~window.closed /\ window.cursor = Len(Schedule[window.case])
  <2>1. Decision = "exhausted"
    BY <1>1, <1>5 DEF Decision
  <2>2. reply = "internal" /\ CueOf = NoCue /\ window' = window
    BY <1>2, <1>3, <2>1 DEF Replies, CueOf, WindowAfter, Registered
  <2> QED
    BY <1>2, <1>5, <2>2 DEF Over
<1>6. CASE ~window.closed /\ window.cursor < Len(Schedule[window.case])
  <2> DEFINE d == Schedule[window.case][window.cursor + 1]
  <2>1. window.cursor + 1 \in 1..Len(Schedule[window.case]) /\ d \in Registered
    BY <1>1, <1>6
  <2>2. Decision = d
    BY <1>1, <1>6 DEF Decision
  <2>3. Replies = {d}
    BY <2>1, <2>2 DEF Replies, Registered
  <2>4. /\ CueOf = [case |-> window.case, n |-> window.cursor + 1]
        /\ window' = [window EXCEPT !.cursor = @ + 1, !.closed = (d = "200")]
    BY <1>3, <2>1, <2>2 DEF CueOf, WindowAfter
  <2>5. reply = d
    BY <1>2, <2>3
  <2> QED
    BY <1>2, <1>6, <2>1, <2>4, <2>5
<1> QED
  BY <1>1, <1>4, <1>5, <1>6

\* Steps that record nothing.
LEMMA Unrecorded ==
    ASSUME HInv, UNCHANGED <<turns, heard>>,
           \A c \in Cases : /\ run'[c].attempt = 0 => run[c].attempt = 0
                            /\ run'[c].status = "running" => run'[c].attempt > 0
    PROVE  BornInv' /\ HeardInv' /\ OrderInv'
<1>1. BornInv'
  BY DEF HInv, BornInv
<1>2. HeardInv'
  BY DEF HInv, HeardInv, Explained
<1>3. OrderInv'
  BY DEF HInv, OrderInv
<1> QED
  BY <1>1, <1>2, <1>3

LEMMA SameWindow ==
    ASSUME HInv, UNCHANGED <<window, turns, heard>>
    PROVE  AskedInv' /\ Over' = Over
BY DEF HInv, AskedInv, Over

\* Steps of the driver that leave the window alone.
LEMMA DriverHears ==
    ASSUME HInv, AwaitTerminal \/ GiveUp \/ VerifySchedule \/ CheckParity
    PROVE  HInv'
<1>1. IInv'
  BY StepInv DEF HInv, Next, Driver
<1>2. UNCHANGED <<window, run, turns, worker, heard>>
  BY DEF AwaitTerminal, GiveUp, VerifySchedule, CheckParity
<1>3. BornInv' /\ HeardInv' /\ OrderInv' /\ AskedInv' /\ Over' = Over
  BY <1>2, Unrecorded, SameWindow DEF HInv, BornInv
<1>4. PendingInv'
  BY <1>2, <1>3 DEF HInv, PendingInv, Current, Explained
<1>5. AcceptInv'
  <2> SUFFICES ASSUME pc' = "accepted", NEW c \in Cases, IsEnvironment(c) PROVE Parity(c)'
    BY DEF AcceptInv
  <2>1. CheckParity /\ proof' = proof
    BY DEF AwaitTerminal, GiveUp, VerifySchedule, CheckParity, Abort
  <2>2. Parity(c)
    BY <2>1 DEF CheckParity, Abort
  <2> QED
    BY <1>2, <2>1, <2>2 DEF Parity, Observed
<1> QED
  BY <1>1, <1>3, <1>4, <1>5 DEF HInv

LEMMA ArmHears == ASSUME HInv, Arm \/ Disarm PROVE HInv'
<1>1. IInv'
  BY StepInv DEF HInv, Next, Driver
<1>2. UNCHANGED <<run, turns, worker, heard>> /\ pc \in {"arm", "disarm"} /\ pc' # "accepted"
  BY DEF Arm, Disarm, Abort
<1>3. BornInv' /\ HeardInv' /\ OrderInv'
  BY <1>2, Unrecorded DEF HInv, BornInv
<1>4. PendingInv'
  <2>1. ~Current
    BY <1>2, CurrentCase DEF HInv
  <2> QED
    BY <1>2, <2>1 DEF PendingInv, Current
<1>5. AskedInv'
  <2>1. CASE UNCHANGED window
    BY <1>2, <2>1, SameWindow
  <2>2. CASE window' = NoWindow
    BY <2>2 DEF AskedInv, NoWindow
  <2>3. CASE pc = "arm" /\ window' = ArmedFor(Here) /\ at <= Len(Case)
    <3>1. at \in 1..Len(Case) /\ Here \in Cases
      BY <2>3, LenCase, CaseIsCase DEF HInv, IInv, TypeOK, Here
    <3>2. heard[Here] = <<>>
      BY <2>3, <3>1 DEF HInv, IInv, FreshInv, BornInv, Here
    <3> QED
      BY <1>2, <2>3, <3>2 DEF AskedInv, ArmedFor
  <2> QED
    BY <2>1, <2>2, <2>3 DEF Arm, Disarm
<1> QED
  BY <1>1, <1>2, <1>3, <1>4, <1>5 DEF HInv, AcceptInv

\* Steps that change runs or leave the worker with nothing to record, and neither the window
\* nor the records.
LEMMA RunHears ==
    ASSUME HInv, IInv', UNCHANGED <<window, turns, heard, proof>>,
           pc' = "accepted" => pc = "accepted",
           \A c \in Cases : /\ run'[c].attempt = 0 => run[c].attempt = 0
                            /\ run'[c].status = "running" => run'[c].attempt > 0,
           worker'.pc = "record" => UNCHANGED worker /\ (Current' => Current)
    PROVE  HInv'
<1>1. BornInv' /\ HeardInv' /\ OrderInv' /\ AskedInv' /\ Over' = Over
  BY Unrecorded, SameWindow
<1>2. PendingInv'
  <2> SUFFICES ASSUME worker'.pc = "record", Current' PROVE PendingInv'
    BY DEF PendingInv
  <2>1. UNCHANGED worker /\ Current
    OBVIOUS
  <2> QED
    BY <1>1, <2>1 DEF HInv, PendingInv, Explained
<1>3. AcceptInv'
  BY DEF HInv, AcceptInv, Parity, Observed
<1> QED
  BY <1>1, <1>2, <1>3 DEF HInv

LEMMA SubmitHears == ASSUME HInv, Submit PROVE HInv'
<1>1. IInv'
  BY StepInv DEF HInv, Next, Driver
<1>2. /\ pc = "submit" /\ pc' = "wait" /\ UNCHANGED <<window, turns, heard, proof, worker>>
      /\ run' = [run EXCEPT ![Here].status = "queued", ![Here].carried = TRUE]
  BY DEF Submit
<1>3. ~Current
  BY <1>2, CurrentCase DEF HInv
<1>4. \A c \in Cases : /\ run'[c].attempt = run[c].attempt /\ run'[c].leased = run[c].leased
                       /\ run'[c].status = "running" => run[c].status = "running"
  BY <1>2, Types DEF HInv, Run
<1>5. Current' => Current
  BY <1>2, <1>4, Types DEF Current, HInv, Worker
<1> QED
  BY <1>1, <1>2, <1>4, <1>5, RunHears DEF HInv, BornInv

\* Steps on which a run moves on without being claimed.
LEMMA MovedRun ==
    ASSUME HInv, NEW c \in Cases,
           \/ LoseDelivery(c) \/ Expire(c) \/ Sweep(c)
           \/ LoseLease /\ c = worker.run
           \/ Finish /\ Current /\ c = worker.run
    PROVE  \A d \in Cases : /\ run'[d].attempt = run[d].attempt
                            /\ run'[d].leased => run[d].leased
                            /\ run'[d].status = "running" => run[d].status = "running"
<1>0. run \in [Cases -> Run]
  BY Types DEF HInv
<1>1. CASE LoseDelivery(c)
  BY <1>0, <1>1 DEF LoseDelivery, Run
<1>2. CASE Expire(c)
  BY <1>0, <1>2 DEF Expire, Run
<1>3. CASE Sweep(c)
  BY <1>0, <1>3 DEF Sweep, Run
<1>4. CASE LoseLease /\ c = worker.run
  BY <1>0, <1>4 DEF LoseLease, Run
<1>5. CASE Finish /\ Current /\ c = worker.run
  BY <1>0, <1>5 DEF Finish, Run
<1> QED
  BY <1>1, <1>2, <1>3, <1>4, <1>5

LEMMA OthersHear ==
    ASSUME HInv, NEW c \in Cases, LoseDelivery(c) \/ Expire(c) \/ Sweep(c) PROVE HInv'
<1>1. IInv'
  BY StepInv DEF HInv, Next
<1>2. UNCHANGED <<window, turns, heard, proof, worker, pc>>
  BY DEF LoseDelivery, Expire, Sweep, driver
<1>3. \A d \in Cases : /\ run'[d].attempt = run[d].attempt
                       /\ run'[d].leased => run[d].leased
                       /\ run'[d].status = "running" => run[d].status = "running"
  BY MovedRun
<1>4. Current' => Current
  BY <1>2, <1>3, Types DEF Current, HInv, Worker
<1> QED
  BY <1>1, <1>2, <1>3, <1>4, RunHears DEF HInv, BornInv

LEMMA LoseLeaseHears == ASSUME HInv, LoseLease PROVE HInv'
<1>1. IInv'
  BY StepInv DEF HInv, Next
<1>2. UNCHANGED <<window, turns, heard, proof, worker, pc>> /\ worker.run \in Cases
  BY CurrentCase DEF LoseLease, driver, HInv
<1>3. \A d \in Cases : /\ run'[d].attempt = run[d].attempt
                       /\ run'[d].leased => run[d].leased
                       /\ run'[d].status = "running" => run[d].status = "running"
  BY <1>2, MovedRun
<1>4. Current' => Current
  BY DEF LoseLease
<1> QED
  BY <1>1, <1>2, <1>3, <1>4, RunHears DEF HInv, BornInv

LEMMA WorkerHears ==
    ASSUME HInv, BeginStep \/ Retry \/ UseTurn \/ Crash \/ Finish \/ \E c \in Cases : Claim(c)
    PROVE  HInv'
<1>1. IInv'
  BY StepInv DEF HInv, Next, Work
<1>2. UNCHANGED <<window, turns, heard, proof, pc>>
  BY DEF BeginStep, Retry, UseTurn, Crash, Finish, Claim, driver
<1>3. worker'.pc # "record"
  <2>0. worker \in Worker /\ Idle.pc = "idle"
    BY Types DEF HInv, Idle
  <2>1. CASE worker' = Idle
    BY <2>0, <2>1
  <2>2. CASE BeginStep /\ worker' # Idle
    BY <2>0, <2>2 DEF BeginStep, Dropped, Goto, Worker
  <2>3. CASE Retry /\ worker' # Idle
    BY <2>0, <2>3 DEF Retry, Dropped, Worker
  <2>4. CASE UseTurn /\ worker' # Idle
    BY <2>0, <2>4 DEF UseTurn, Dropped, Goto, Worker
  <2>5. CASE \E c \in Cases : Claim(c)
    BY <2>5 DEF Claim, Idle
  <2> QED
    BY <2>1, <2>2, <2>3, <2>4, <2>5 DEF Crash, Finish
<1>4. \A d \in Cases : /\ run'[d].attempt = 0 => run[d].attempt = 0
                       /\ run'[d].status = "running" => run'[d].attempt > 0
  <2>1. CASE UNCHANGED run
    BY <2>1 DEF HInv, BornInv
  <2>2. CASE Finish /\ Current
    BY <2>2, MovedRun, CurrentCase DEF HInv, BornInv
  <2>3. ASSUME NEW c \in Cases, Claim(c)
        PROVE  \A d \in Cases : /\ run'[d].attempt = 0 => run[d].attempt = 0
                                /\ run'[d].status = "running" => run'[d].attempt > 0
    <3> DEFINE r == [status |-> "running", attempt |-> run[c].attempt + 1,
                     leased |-> TRUE, carried |-> FALSE]
    <3>1. run' = [run EXCEPT ![c] = r] /\ run[c].attempt \in Nat
      BY <2>3, Types DEF Claim, HInv
    <3>2. r.attempt = run[c].attempt + 1
      OBVIOUS
    <3> HIDE DEF r
    <3> QED
      BY <3>1, <3>2, Types DEF HInv, BornInv
  <2> QED
    BY <2>1, <2>2, <2>3 DEF BeginStep, Retry, UseTurn, Crash, Finish
<1> QED
  BY <1>1, <1>2, <1>3, <1>4, RunHears

\* A call, also one by a worker that has lost its run.
LEMMA CallHears == ASSUME HInv, UpstreamFaults = {}, CallModel PROVE HInv'
<1>1. IInv'
  BY StepInv DEF HInv, Next, Work
<1>2. UNCHANGED <<pc, proof, run, turns, heard>>
  BY DEF CallModel, driver
<1>3. BornInv' /\ HeardInv' /\ OrderInv'
  BY <1>2, Unrecorded DEF HInv, BornInv
<1>4. AcceptInv'
  BY <1>2 DEF HInv, AcceptInv, Parity, Observed
<1>5. /\ run \in [Cases -> Run] /\ worker \in Worker /\ window \in Window
      /\ window.cursor \in Nat /\ window.case \in Cases \cup {NoCase}
  BY Types DEF HInv
<1>6. CASE window.case = NoCase
  <2>1. Decision = "refused"
    BY <1>6 DEF Decision
  <2>2. window' = window
    BY <2>1 DEF CallModel, WindowAfter, Registered
  <2>3. AskedInv'
    BY <1>6, <2>2 DEF AskedInv
  <2>4. worker'.run = worker.run /\ worker'.gen = worker.gen
    BY <1>5 DEF CallModel, Worker
  <2>5. ~Current'
    BY <1>2, <1>6, <2>4, CurrentCase, Types DEF HInv, Current
  <2> QED
    BY <1>1, <1>3, <1>4, <2>3, <2>5 DEF HInv, PendingInv
<1>7. CASE window.case # NoCase
  <2> DEFINE c == window.case
             n == window.cursor + 1
  <2>0. c \in Cases /\ Len(heard[c]) \in Nat /\ Len(Schedule[c]) \in Nat
    BY <1>5, <1>7, Types DEF HInv
  <2>1. CASE /\ Over /\ window' = window
             /\ \E reply \in {"200", "internal"} :
                   worker' = [worker EXCEPT !.pc = "record", !.reply = reply, !.cue = NoCue]
    <3>1. PICK reply \in {"200", "internal"} :
                   worker' = [worker EXCEPT !.pc = "record", !.reply = reply, !.cue = NoCue]
      BY <2>1
    <3>2. worker'.reply = reply /\ worker'.cue = NoCue /\ reply \notin Fault
      BY <1>5, <3>1 DEF Worker, Fault
    <3>3. AskedInv' /\ Over'
      BY <1>2, <2>1, SameWindow
    <3>4. PendingInv'
      BY <3>2, <3>3 DEF PendingInv, Explained
    <3> QED
      BY <1>1, <1>3, <1>4, <3>3, <3>4 DEF HInv
  <2>2. CASE /\ ~window.closed /\ n \in 1..Len(Schedule[c])
             /\ window' = [window EXCEPT !.cursor = @ + 1, !.closed = (Schedule[c][n] = "200")]
             /\ worker' = [worker EXCEPT !.pc = "record", !.reply = Schedule[c][n],
                                         !.cue = [case |-> c, n |-> n]]
    <3>1. window'.case = c /\ window'.cursor = n /\ window'.closed = (Schedule[c][n] = "200")
      BY <1>5, <2>2 DEF Window
    <3>2. /\ worker'.run = worker.run /\ worker'.gen = worker.gen
          /\ worker'.reply = Schedule[c][n] /\ worker'.cue = [case |-> c, n |-> n]
      BY <1>5, <2>2 DEF Worker
    <3>3. ~Over
      BY <1>5, <2>0, <2>2 DEF Over
    <3>4. \A i \in 1..Len(heard[c]) : turns[c][i] \in Fault /\ heard[c][i].n <= window.cursor
      BY <1>7, <3>3 DEF HInv, AskedInv
    <3>5. \A i \in 1..Len(heard[c]) : heard[c][i].n < n /\ heard[c][i].n <= n
      <4> SUFFICES ASSUME NEW i \in 1..Len(heard[c]) PROVE heard[c][i].n < n /\ heard[c][i].n <= n
        OBVIOUS
      <4>1. heard[c] \in Seq(Cue)
        BY <2>0, Types DEF HInv
      <4>2. heard[c][i] \in Cue
        BY <2>0, <4>1
      <4>3. heard[c][i].n \in Nat
        BY <4>2 DEF Cue
      <4> QED
        BY <1>5, <3>4, <4>3
    <3>6. AskedInv'
      BY <1>2, <3>1, <3>4, <3>5 DEF AskedInv
    <3>7. PendingInv'
      <4> SUFFICES ASSUME Current' PROVE PendingInv'
        BY DEF PendingInv
      <4>1. worker.run = c /\ worker'.run = c
        BY <1>2, <3>2, CurrentCase DEF HInv, Current
      <4>2. Explained(c, worker'.reply, worker'.cue)
        BY <2>2, <3>2 DEF Explained
      <4>3. worker'.reply \notin Fault => Over'
        <5>1. Schedule[c][n] \in Registered
          BY <2>0, <2>2, Types DEF HInv
        <5> QED
          BY <3>1, <3>2, <5>1 DEF Over, Registered, Fault
      <4>4. worker'.cue.n = n /\ n <= n
        BY <1>5, <3>2
      <4> HIDE DEF c, n
      <4>5. /\ Explained(worker.run, worker.reply, worker.cue)'
            /\ (worker.reply \notin Fault)' => Over'
        BY <4>1, <4>2, <4>3 DEF Explained
      <4>6. /\ worker'.cue.n <= window'.cursor
            /\ \A i \in 1..Len(heard'[worker'.run]) :
                 turns'[worker'.run][i] \in Fault /\ heard'[worker'.run][i].n < worker'.cue.n
        BY <1>2, <3>1, <3>4, <3>5, <4>1, <4>4
      <4> QED
        BY <4>5, <4>6 DEF PendingInv
    <3> QED
      BY <1>1, <1>3, <1>4, <3>6, <3>7 DEF HInv
  <2> QED
    BY <1>7, <2>1, <2>2, Calls DEF HInv
<1> QED
  BY <1>6, <1>7

\* The worker records what it was told, or learns that the run is no longer its own.
LEMMA RecordHears == ASSUME HInv, RecordTurn PROVE HInv'
<1>1. IInv'
  BY StepInv DEF HInv, Next, Work
<1>2. UNCHANGED <<pc, at, proof, window, run>> /\ worker.pc = "record"
  BY DEF RecordTurn, driver
<1>3. worker'.pc # "record"
  BY Types DEF RecordTurn, Goto, Dropped, AfterRecord, Idle, HInv, Worker
<1>4. CASE UNCHANGED <<turns, heard>>
  BY <1>1, <1>2, <1>3, <1>4, RunHears DEF HInv, BornInv
<1>5. CASE /\ Current
           /\ turns' = [turns EXCEPT ![worker.run] = Append(@, worker.reply)]
           /\ heard' = [heard EXCEPT ![worker.run] = Append(@, worker.cue)]
  <2> DEFINE c == worker.run
             k == Len(heard[worker.run])
  <2>0. /\ c \in Cases /\ window.case = c /\ pc # "accepted"
        /\ k \in Nat /\ Len(turns[c]) = k /\ c # NoCase
        /\ turns[c] \in Seq(Reply) /\ heard[c] \in Seq(Cue)
        /\ worker.reply \in Reply /\ worker.cue \in Cue /\ window.cursor \in Nat
    BY <1>5, CurrentCase, Types DEF HInv, BornInv, Worker
  <2>1. /\ Explained(c, worker.reply, worker.cue)
        /\ worker.reply \in Fault =>
              /\ worker.cue.n <= window.cursor
              /\ \A i \in 1..k : turns[c][i] \in Fault /\ heard[c][i].n < worker.cue.n
        /\ worker.reply \notin Fault => Over
    BY <1>2, <1>5 DEF HInv, PendingInv
  <2>2. /\ \A d \in Cases : d # c => turns'[d] = turns[d] /\ heard'[d] = heard[d]
        /\ turns'[c] = Append(turns[c], worker.reply) /\ heard'[c] = Append(heard[c], worker.cue)
    BY <1>5, <2>0, Types DEF HInv
  <2>3. /\ Len(turns'[c]) = k + 1 /\ Len(heard'[c]) = k + 1
        /\ turns'[c][k + 1] = worker.reply /\ heard'[c][k + 1] = worker.cue
        /\ \A i \in 1..k : turns'[c][i] = turns[c][i] /\ heard'[c][i] = heard[c][i]
    BY <2>0, <2>2
  <2>4. \A i \in 1..k : heard[c][i].n \in Nat
    <3>1. \A i \in 1..k : heard[c][i] \in Cue
      BY <2>0
    <3> QED
      BY <3>1 DEF Cue
  <2>5. worker.cue.n \in Nat
    BY <2>0 DEF Cue
  <2>6. k + 1 \notin 1..k /\ \A i \in 1..k + 1 : i \in 1..k \/ i = k + 1
    BY <2>0
  <2>7. run[c].status = "running" /\ run[c].attempt > 0
    BY <1>5, <2>0 DEF Current, HInv, BornInv
  <2> HIDE DEF c, k
  <2>8. BornInv'
    <3> SUFFICES ASSUME NEW d \in Cases
                 PROVE  /\ run'[d].attempt = 0 => heard'[d] = <<>>
                        /\ run'[d].status = "running" => run'[d].attempt > 0
                        /\ Len(turns'[d]) = Len(heard'[d])
      BY DEF BornInv
    <3>1. CASE d # c
      BY <1>2, <2>2, <3>1 DEF HInv, BornInv
    <3>2. CASE d = c
      BY <1>2, <2>3, <2>7, <3>2
    <3> QED
      BY <3>1, <3>2
  <2>9. HeardInv'
    <3> SUFFICES ASSUME NEW d \in Cases, NEW i \in 1..Len(heard'[d])
                 PROVE  Explained(d, turns'[d][i], heard'[d][i])
      BY DEF HeardInv, Explained
    <3>1. CASE d # c
      BY <2>2, <3>1 DEF HInv, HeardInv
    <3>2. CASE d = c /\ i \in 1..k
      BY <2>3, <3>2 DEF HInv, HeardInv, k, c
    <3>3. CASE d = c /\ i = k + 1
      BY <2>1, <2>3, <3>3
    <3> QED
      BY <2>3, <2>6, <3>1, <3>2, <3>3
  <2>10. OrderInv'
    <3> SUFFICES ASSUME NEW d \in Cases, NEW i \in 1..Len(heard'[d]), turns'[d][i] \in Fault
                 PROVE  /\ heard'[d][i].n >= i
                        /\ \A j \in i..Len(heard'[d]) : turns'[d][j] \in Fault =>
                              heard'[d][j].n + i >= heard'[d][i].n + j
      BY DEF OrderInv
    <3>1. CASE d # c
      BY <2>2, <3>1 DEF HInv, OrderInv
    <3>2. \A h \in 1..k : turns[c][h] \in Fault =>
              /\ heard[c][h].n >= h
              /\ \A j \in h..k : turns[c][j] \in Fault =>
                    heard[c][j].n + h >= heard[c][h].n + j
      BY <2>0 DEF HInv, OrderInv, k, c
    <3>3. CASE d = c /\ i = k + 1
      <4>1. worker.reply \in Fault /\ worker.cue.n \in 1..Len(Schedule[c])
        BY <2>1, <2>3, <3>3 DEF Explained, Fault
      <4>2. worker.cue.n >= k + 1
        <5>1. CASE k = 0
          BY <2>5, <4>1, <5>1
        <5>2. CASE k # 0
          <6>1. k \in 1..k
            BY <2>0, <5>2
          <6>2. heard[c][k].n >= k /\ heard[c][k].n < worker.cue.n
            BY <2>1, <3>2, <4>1, <6>1
          <6> QED
            BY <2>0, <2>4, <2>5, <6>1, <6>2
        <5> QED
          BY <5>1, <5>2
      <4>3. \A j \in i..Len(heard'[d]) : j = i
        BY <2>0, <2>3, <3>3
      <4> QED
        BY <2>0, <2>3, <2>5, <3>3, <4>2, <4>3
    <3>4. CASE d = c /\ i \in 1..k
      <4>1. turns[c][i] \in Fault /\ heard'[d][i] = heard[c][i]
        BY <2>3, <3>4
      <4>2. heard'[d][i].n >= i
        BY <3>2, <3>4, <4>1
      <4>3. ASSUME NEW j \in i..Len(heard'[d]), turns'[d][j] \in Fault
            PROVE  heard'[d][j].n + i >= heard'[d][i].n + j
        <5>1. CASE j \in 1..k
          BY <2>3, <3>2, <3>4, <4>1, <4>3, <5>1
        <5>2. CASE j = k + 1
          <6>1. worker.reply \in Fault /\ heard'[d][j] = worker.cue
            BY <2>3, <3>4, <4>3, <5>2
          <6>2. k \in 1..k /\ k \in i..k
            BY <2>0, <3>4
          <6>3. turns[c][k] \in Fault /\ heard[c][k].n < worker.cue.n
            BY <2>1, <6>1, <6>2
          <6>4. heard[c][k].n + i >= heard[c][i].n + k
            BY <3>2, <3>4, <4>1, <6>2, <6>3
          <6>5. heard[c][i].n \in Nat /\ heard[c][k].n \in Nat
            BY <2>4, <3>4, <6>2
          <6>6. \A x, y, z \in Nat : x < y /\ x + i >= z + k => y + i >= z + (k + 1)
            BY <2>0, <3>4
          <6>7. worker.cue.n + i >= heard[c][i].n + (k + 1)
            BY <2>5, <6>3, <6>4, <6>5, <6>6
          <6> QED
            BY <4>1, <5>2, <6>1, <6>7
        <5>3. j \in 1..k + 1
          BY <2>0, <2>3, <3>4, <4>3
        <5> QED
          BY <2>6, <5>1, <5>2, <5>3
      <4> QED
        BY <4>2, <4>3
    <3> QED
      BY <2>3, <2>6, <3>1, <3>3, <3>4
  <2>11. AskedInv'
    <3> SUFFICES ASSUME NEW i \in 1..k + 1
                 PROVE  /\ turns'[c][i] \in Fault => heard'[c][i].n <= window.cursor
                        /\ turns'[c][i] \notin Fault => Over
      BY <1>2, <2>0, <2>3 DEF AskedInv, Over
    <3>1. CASE i = k + 1
      BY <2>1, <2>3, <3>1
    <3>2. CASE i \in 1..k
      BY <2>0, <2>3, <3>2 DEF HInv, AskedInv, k, c
    <3> QED
      BY <2>6, <3>1, <3>2
  <2>12. PendingInv' /\ AcceptInv'
    BY <1>2, <1>3, <2>0 DEF PendingInv, AcceptInv
  <2> QED
    BY <1>1, <2>8, <2>9, <2>10, <2>11, <2>12 DEF HInv
<1> QED
  BY <1>4, <1>5 DEF RecordTurn

LEMMA HearStep == ASSUME HInv, UpstreamFaults = {}, [Next]_vars PROVE HInv'
<1>1. CASE Driver
  BY <1>1, DriverHears, ArmHears, SubmitHears DEF Driver
<1>2. CASE Work
  BY <1>2, WorkerHears, CallHears, RecordHears DEF Work
<1>3. CASE Crash \/ LoseLease \/ \E c \in Cases : LoseDelivery(c) \/ Expire(c) \/ Sweep(c)
  BY <1>3, WorkerHears, LoseLeaseHears, OthersHear
<1>4. CASE UNCHANGED vars
  BY <1>4 DEF vars, HInv, IInv, TypeOK, WindowInv, CursorInv, LiveInv, FreshInv, QueuedInv,
     RetryInv, BornInv, HeardInv, OrderInv, AskedInv, Over, PendingInv, Current, Explained,
     AcceptInv, Parity, Observed
<1> QED
  BY <1>1, <1>2, <1>3, <1>4 DEF Next

LEMMA HearInit == Init => HInv
<1> SUFFICES ASSUME Init PROVE HInv
  OBVIOUS
<1>1. /\ \A c \in Cases : heard[c] = <<>> /\ turns[c] = <<>> /\ run[c].status = "absent"
      /\ window.case = NoCase /\ worker.pc = "idle" /\ pc # "accepted"
  BY DEF Init, NoWindow, Idle
<1>2. Len(<<>>) = 0
  OBVIOUS
<1>3. BornInv
  BY <1>1 DEF BornInv
<1>4. HeardInv /\ OrderInv
  BY <1>1, <1>2 DEF HeardInv, OrderInv
<1>5. AskedInv /\ PendingInv /\ AcceptInv
  BY <1>1 DEF AskedInv, PendingInv, AcceptInv
<1> QED
  BY <1>3, <1>4, <1>5, InitInv DEF HInv

\* With every fault of its schedule on record in order, a run has got each from the proxy:
\* k faults that keep their order fill k places only one way.
LEMMA ParityIsHeard ==
    ASSUME HInv, NEW c \in Cases, Parity(c), IsEnvironment(c),
           NEW i \in 1..Len(Schedule[c]), Schedule[c][i] # "200"
    PROVE  i <= Len(heard[c]) /\ heard[c][i] = [case |-> c, n |-> i]
<1> DEFINE s == Schedule[c]
           m == Len(Schedule[c])
           k == IF s[m] = "200" THEN m - 1 ELSE m
<1>0. /\ s \in Seq(Registered) /\ m \in Nat /\ m # 0 /\ Len(turns[c]) \in Nat
      /\ heard[c] \in Seq(Cue) /\ turns[c] \in Seq(Reply)
  BY Types DEF HInv, IsEnvironment
<1>1. \A j \in 1..m : j < m => s[j] # "200"
  BY ScheduleAssumption
<1>2. k \in 1..m /\ i <= k /\ s[k] # "200" /\ k \in i..m
  BY <1>0, <1>1
<1>3. Len(turns[c]) >= m /\ \A j \in 1..m : turns[c][j] = s[j]
  <2> DEFINE l == IF Len(turns[c]) < m THEN Len(turns[c]) ELSE m
  <2>1. Observed(c) = s
    BY DEF Parity
  <2>2. Observed(c) = SubSeq(turns[c], 1, l) /\ l \in Nat /\ l <= Len(turns[c])
    BY <1>0 DEF Observed
  <2>3. Len(SubSeq(turns[c], 1, l)) = l /\ \A j \in 1..l : SubSeq(turns[c], 1, l)[j] = turns[c][j]
    BY <1>0, <2>2
  <2> QED
    BY <1>0, <2>1, <2>2, <2>3
<1>4. Len(heard[c]) = Len(turns[c])
  BY DEF HInv, BornInv
<1>5. i \in 1..Len(heard[c]) /\ k \in 1..Len(heard[c]) /\ k \in i..Len(heard[c])
  BY <1>0, <1>2, <1>3, <1>4
<1>6. turns[c][i] = s[i] /\ turns[c][k] = s[k] /\ s[i] \in Fault /\ s[k] \in Fault
  BY <1>0, <1>2, <1>3 DEF Registered, Fault
<1>7. Explained(c, turns[c][i], heard[c][i]) /\ Explained(c, turns[c][k], heard[c][k])
  BY <1>5 DEF HInv, HeardInv
<1>8. /\ heard[c][i].case = c /\ heard[c][i].n \in 1..m
      /\ heard[c][k].n \in 1..m /\ s[heard[c][k].n] # "200"
  BY <1>6, <1>7 DEF Explained, Fault
<1>9. heard[c][k].n <= k
  BY <1>0, <1>2, <1>8
<1>10. heard[c][i].n >= i /\ heard[c][k].n + i >= heard[c][i].n + k
  BY <1>5, <1>6 DEF HInv, OrderInv
<1>11. heard[c][i].n = i
  <2> HIDE DEF s, m, k
  <2>1. heard[c][i].n \in Nat /\ heard[c][k].n \in Nat /\ k \in Nat
    BY <1>0, <1>2, <1>8
  <2>2. \A x, y \in Nat : y <= k /\ x >= i /\ y + i >= x + k => x = i
    BY <2>1
  <2> QED
    BY <1>9, <1>10, <2>1, <2>2
<1>12. heard[c][i] \in Cue
  BY <1>0, <1>5
<1> QED
  BY <1>5, <1>8, <1>11, <1>12 DEF Cue

\* An accepted cohort is sound for every catalog and any number of lost leases and dead
\* workers: what each run recorded is what the proxy gave that run, fault by fault, although
\* zombies take decisions from the same schedule.
THEOREM AcceptedCohortsAreSound ==
    ASSUME UpstreamFaults = {} PROVE Spec => []AcceptedMeansHeard
<1>1. Init => HInv
  BY HearInit
<1>2. HInv /\ [Next]_vars => HInv'
  BY HearStep
<1>3. HInv => AcceptedMeansHeard
  <2> SUFFICES ASSUME HInv, pc = "accepted", NEW c \in Cases, NEW i \in 1..Len(Schedule[c]),
                      Schedule[c][i] # "200"
               PROVE  i <= Len(heard[c]) /\ heard[c][i] = [case |-> c, n |-> i]
    BY DEF AcceptedMeansHeard
  <2>1. IsEnvironment(c)
    BY DEF IsEnvironment
  <2> QED
    BY <2>1, ParityIsHeard DEF HInv, AcceptInv
<1> QED
  BY <1>1, <1>2, <1>3, PTL DEF Spec

-----------------------------------------------------------------------------
(* No false alarm: as long as no lease is lost and no worker dies, the worker and the     *)
(* schedule move in step.                                                                 *)

Calm == expiries = 0 /\ crashes = 0
\* What is on record agrees with the schedule as far as both go.
Prefix(c) == \A j \in 1..Len(Schedule[c]) : j <= Len(turns[c]) => turns[c][j] = Schedule[c][j]
AllHeard(c) == Len(turns[c]) >= Len(Schedule[c]) /\ Prefix(c)

\* A worker that is not idle holds its run.
BusyInv == worker.pc # "idle" => Current
RunsInv ==
    \A c \in Cases :
        /\ run[c].status = "running" =>
              worker.run = c /\ worker.gen = run[c].attempt /\ run[c].leased
        /\ run[c].status = "queued" =>
              run[c].attempt = 0 /\ worker.pc = "idle" /\ window = ArmedFor(c)
        /\ run[c].status \in Terminal => AllHeard(c)
\* Where the worker is tells how much of the schedule is consumed and recorded.
InStep ==
    LET c == worker.run
        n == window.cursor
        got == Len(turns[worker.run])
    IN  IF window.closed
        THEN /\ n = Len(Schedule[c])
             /\ \/ got >= n
                \/ worker.pc = "record" /\ got + 1 = n /\ worker.reply = Schedule[c][n]
        ELSE /\ IsEnvironment(c)
             /\ n > 0 => Schedule[c][n] # "200"
             /\ worker.pc \in {"begin", "call", "record", "retry", "fail"}
             /\ worker.pc \in {"begin", "call"} => got = n /\ worker.try = n
             /\ worker.pc = "record" =>
                   got + 1 = n /\ worker.try = got /\ worker.reply = Schedule[c][n]
             /\ worker.pc = "retry" => got = n /\ worker.try + 1 = n
             /\ worker.pc = "fail" => got = n /\ n = Len(Schedule[c])
TrackInv == worker.pc # "idle" => Prefix(worker.run) /\ InStep
EndedInv ==
    pc \in {"wait", "verify", "disarm"} /\ run[Here].status \in Terminal =>
        window.cursor = Len(Schedule[Here])
PlaceInv ==
    /\ pc # "aborted"
    /\ pc \in {"arm", "parity"} => window.case = NoCase
    /\ pc = "submit" => window = ArmedFor(Here)
    /\ pc \in {"verify", "disarm"} => run[Here].status \in Terminal
    /\ pc = "parity" => at > Len(Case)
\* The cases behind the driver are done and their proofs are complete.
DoneInv ==
    \A i \in 1..Len(Case) : IsEnvironment(Case[i]) /\ (i < at \/ (i = at /\ pc = "disarm")) =>
        proof[Case[i]] = Schedule[Case[i]] /\ run[Case[i]].status \in Terminal

Steady == BusyInv /\ RunsInv /\ TrackInv /\ EndedInv /\ PlaceInv /\ DoneInv

\* While the driver does not wait nobody works, and no run is live.
LEMMA Resting ==
    ASSUME HInv, Steady, pc \notin {"wait", "aborted"}
    PROVE  worker.pc = "idle" /\ \A c \in Cases : run[c].status \notin {"queued", "running"}
<1>1. ~Current
  BY CurrentCase DEF HInv
<1>2. \A c \in Cases : run[c].status \notin {"queued", "running"}
  BY DEF HInv, IInv, LiveInv
<1> QED
  BY <1>1, <1>2 DEF Steady, BusyInv

\* Where the driver is while a worker works.
LEMMA Working ==
    ASSUME HInv, Steady, worker.pc # "idle"
    PROVE  /\ Current /\ worker.run \in Cases /\ window.case = worker.run
           /\ run[worker.run].status = "running"
           /\ pc = "wait" /\ at \in 1..Len(Case) /\ Here = worker.run
<1>1. Current
  BY DEF Steady, BusyInv
<1>2. worker.run \in Cases /\ window.case = worker.run /\ pc = "wait"
  BY <1>1, CurrentCase DEF HInv, Steady, PlaceInv
<1> QED
  BY <1>1, <1>2 DEF HInv, IInv, WindowInv, AtCase, Here, Current

LEMMA ArmCalm == ASSUME HInv, Steady, Arm PROVE Steady'
<1>1. /\ pc = "arm" /\ window' = ArmedFor(Here) /\ pc' = "submit"
      /\ UNCHANGED <<at, proof, run, turns, worker, heard>>
  BY DEF Arm, Steady, PlaceInv
<1>2. worker.pc = "idle" /\ \A c \in Cases : run[c].status \notin {"queued", "running"}
  BY <1>1, Resting
<1>3. BusyInv' /\ TrackInv' /\ EndedInv'
  BY <1>1, <1>2 DEF BusyInv, TrackInv, EndedInv
<1>4. RunsInv'
  BY <1>1, <1>2 DEF Steady, RunsInv, AllHeard, Prefix
<1>5. PlaceInv' /\ DoneInv'
  BY <1>1 DEF Steady, PlaceInv, DoneInv, Here
<1> QED
  BY <1>3, <1>4, <1>5 DEF Steady

LEMMA SubmitCalm == ASSUME HInv, Steady, Submit PROVE Steady'
<1>1. /\ pc = "submit" /\ pc' = "wait" /\ window = ArmedFor(Here)
      /\ UNCHANGED <<at, proof, window, turns, worker, heard>>
      /\ run' = [run EXCEPT ![Here].status = "queued", ![Here].carried = TRUE]
  BY DEF Submit, Steady, PlaceInv
<1>2. worker.pc = "idle" /\ \A c \in Cases : run[c].status \notin {"queued", "running"}
  BY <1>1, Resting
<1>3. at \in 1..Len(Case) /\ Here \in Cases /\ run[Here].attempt = 0
  BY <1>1, CaseIsCase DEF HInv, IInv, WindowInv, AtCase, FreshInv, Here
<1>4. /\ run'[Here].status = "queued" /\ run'[Here].attempt = 0
      /\ \A c \in Cases : c # Here => run'[c] = run[c]
  BY <1>1, <1>3, Types DEF HInv, Run
<1>5. BusyInv' /\ TrackInv'
  BY <1>1, <1>2 DEF BusyInv, TrackInv
<1>6. RunsInv'
  <2> SUFFICES ASSUME NEW c \in Cases
               PROVE  /\ run'[c].status # "running"
                      /\ run'[c].status = "queued" =>
                            run'[c].attempt = 0 /\ worker'.pc = "idle" /\ window' = ArmedFor(c)
                      /\ run'[c].status \in Terminal => AllHeard(c)'
    BY DEF RunsInv, ArmedFor, IsEnvironment
  <2>1. CASE c = Here
    BY <1>1, <1>2, <1>4, <2>1 DEF Terminal
  <2>2. CASE c # Here
    BY <1>1, <1>2, <1>4, <2>2 DEF Steady, RunsInv, AllHeard, Prefix
  <2> QED
    BY <2>1, <2>2
<1>7. EndedInv'
  BY <1>1, <1>4 DEF EndedInv, Terminal, Here
<1>8. PlaceInv'
  BY <1>1 DEF PlaceInv
<1>9. DoneInv'
  <2> SUFFICES ASSUME NEW i \in 1..Len(Case), IsEnvironment(Case[i]), i < at
               PROVE  proof[Case[i]] = Schedule[Case[i]] /\ run'[Case[i]].status \in Terminal
    BY <1>1 DEF DoneInv, IsEnvironment
  <2>1. Case[i] # Here /\ Case[i] \in Cases
    BY <1>3, CaseAssumption, CaseIsCase DEF Here
  <2> QED
    BY <1>4, <2>1 DEF Steady, DoneInv
<1> QED
  BY <1>5, <1>6, <1>7, <1>8, <1>9 DEF Steady

\* A driver that waits is not the one to give up.
LEMMA AwaitCalm ==
    ASSUME HInv, Steady, Calm, UpstreamFaults = {}, AwaitTerminal \/ GiveUp PROVE Steady'
<1>1. AwaitTerminal
  BY Bounds DEF GiveUp, Disturbed, Calm
<1>2. /\ pc = "wait" /\ run[Here].status \in Terminal /\ pc' \in {"verify", "disarm"}
      /\ pc' = "disarm" => ~IsEnvironment(Here)
      /\ UNCHANGED <<at, proof, window, run, turns, worker, heard>>
  BY <1>1 DEF AwaitTerminal
<1>3. BusyInv' /\ TrackInv' /\ RunsInv'
  BY <1>2 DEF Steady, BusyInv, TrackInv, RunsInv, InStep, AllHeard, Prefix, Current
<1>4. EndedInv' /\ PlaceInv'
  BY <1>2 DEF Steady, EndedInv, PlaceInv, Here
<1>5. DoneInv'
  BY <1>2 DEF Steady, DoneInv, Here
<1> QED
  BY <1>3, <1>4, <1>5 DEF Steady

LEMMA VerifyCalm == ASSUME HInv, Steady, VerifySchedule PROVE Steady'
<1>1. /\ pc = "verify" /\ UNCHANGED <<at, window, run, turns, worker, heard>>
      /\ proof' = [proof EXCEPT ![Here] = Served]
      /\ run[Here].status \in Terminal
  BY DEF VerifySchedule, Steady, PlaceInv
<1>2. at \in 1..Len(Case) /\ Here \in Cases /\ window.case = Here
  BY <1>1, CaseIsCase DEF HInv, IInv, WindowInv, AtCase, Here
<1>3. window.cursor = Len(Schedule[Here]) /\ Schedule[Here] \in Seq(Registered)
  BY <1>1, <1>2, Types DEF Steady, EndedInv, HInv
<1>4. Served = Schedule[Here]
  <2>1. SubSeq(Schedule[Here], 1, Len(Schedule[Here])) = Schedule[Here]
    BY <1>3
  <2> QED
    BY <1>2, <1>3, <2>1, Types DEF Served, HInv
<1>5. pc' = "disarm"
  BY <1>1, <1>2, <1>3, <1>4 DEF VerifySchedule, ScheduleVerified
<1>6. BusyInv' /\ TrackInv' /\ RunsInv'
  BY <1>1 DEF Steady, BusyInv, TrackInv, RunsInv, InStep, AllHeard, Prefix, Current
<1>7. EndedInv' /\ PlaceInv'
  BY <1>1, <1>5 DEF Steady, EndedInv, PlaceInv, Here
<1>8. DoneInv'
  <2> SUFFICES ASSUME NEW i \in 1..Len(Case), IsEnvironment(Case[i]), i < at \/ i = at
               PROVE  proof'[Case[i]] = Schedule[Case[i]] /\ run[Case[i]].status \in Terminal
    BY <1>1 DEF DoneInv, IsEnvironment
  <2>1. proof \in [Cases -> Seq(Registered)] /\ Case[i] \in Cases
    BY CaseIsCase DEF HInv, IInv, TypeOK
  <2>2. CASE i = at
    BY <1>1, <1>2, <1>4, <2>1, <2>2 DEF Here
  <2>3. CASE i < at
    <3>1. Case[i] # Here
      BY <1>2, <2>3, CaseAssumption DEF Here
    <3> QED
      BY <1>1, <1>2, <2>1, <2>3, <3>1 DEF Steady, DoneInv
  <2> QED
    BY <2>2, <2>3
<1> QED
  BY <1>6, <1>7, <1>8 DEF Steady

LEMMA DisarmCalm == ASSUME HInv, Steady, Disarm PROVE Steady'
<1>1. /\ pc = "disarm" /\ UNCHANGED <<proof, run, turns, worker, heard>>
      /\ run[Here].status \in Terminal
  BY DEF Disarm, Steady, PlaceInv
<1>2. at \in 1..Len(Case) /\ Here \in Cases /\ window.case = Here
  BY <1>1, CaseIsCase DEF HInv, IInv, WindowInv, AtCase, Here
<1>3. MayDisarm
  BY <1>1, <1>2 DEF Steady, EndedInv, MayDisarm
<1>4. /\ window' = NoWindow /\ at' = at + 1
      /\ pc' = IF at = Len(Case) THEN "parity" ELSE "arm"
  BY <1>3 DEF Disarm
<1>5. worker.pc = "idle" /\ \A c \in Cases : run[c].status \notin {"queued", "running"}
  BY <1>1, Resting
<1>6. BusyInv' /\ TrackInv' /\ EndedInv'
  BY <1>1, <1>4, <1>5 DEF BusyInv, TrackInv, EndedInv
<1>7. RunsInv'
  BY <1>1, <1>5 DEF Steady, RunsInv, AllHeard, Prefix
<1>8. PlaceInv'
  BY <1>2, <1>4, LenCase DEF PlaceInv, NoWindow
<1>9. DoneInv'
  <2> SUFFICES ASSUME NEW i \in 1..Len(Case), IsEnvironment(Case[i]), i < at \/ i = at
               PROVE  proof[Case[i]] = Schedule[Case[i]] /\ run[Case[i]].status \in Terminal
    BY <1>1, <1>2, <1>4 DEF DoneInv, IsEnvironment
  <2> QED
    BY <1>1 DEF Steady, DoneInv
<1> QED
  BY <1>6, <1>7, <1>8, <1>9 DEF Steady

LEMMA ParityCalm == ASSUME HInv, Steady, CheckParity PROVE Steady'
<1>1. /\ pc = "parity" /\ UNCHANGED <<at, proof, window, run, turns, worker, heard>>
      /\ at > Len(Case)
  BY DEF CheckParity, Steady, PlaceInv
<1>2. ASSUME NEW c \in Cases, IsEnvironment(c) PROVE Parity(c)
  <2>1. PICK i \in 1..Len(Case) : c = Case[i]
    BY DEF Cases
  <2>2. i < at
    BY <1>1, <2>1, LenCase DEF HInv, IInv, TypeOK
  <2>3. proof[c] = Schedule[c] /\ AllHeard(c)
    BY <1>2, <2>1, <2>2 DEF Steady, DoneInv, RunsInv
  <2>4. turns[c] \in Seq(Reply) /\ Schedule[c] \in Seq(Registered)
    BY Types DEF HInv
  <2>5. Observed(c) = SubSeq(turns[c], 1, Len(Schedule[c]))
    BY <2>3, <2>4 DEF Observed, AllHeard
  <2>6. SubSeq(turns[c], 1, Len(Schedule[c])) = Schedule[c]
    <3> DEFINE o == SubSeq(turns[c], 1, Len(Schedule[c]))
    <3>1. Len(Schedule[c]) \in Nat /\ Len(Schedule[c]) <= Len(turns[c]) /\ Len(turns[c]) \in Nat
      BY <2>3, <2>4 DEF AllHeard
    <3>2. /\ o = [j \in 1..Len(Schedule[c]) |-> turns[c][j]]
      BY <2>4, <3>1
    <3>3. \A j \in 1..Len(Schedule[c]) : turns[c][j] = Schedule[c][j]
      BY <2>3, <3>1 DEF AllHeard, Prefix
    <3>4. Schedule[c] = [j \in 1..Len(Schedule[c]) |-> Schedule[c][j]]
      BY <2>4
    <3> QED
      BY <3>2, <3>3, <3>4
  <2> QED
    BY <2>3, <2>5, <2>6 DEF Parity
<1>3. pc' = "accepted"
  BY <1>2 DEF CheckParity
<1>4. BusyInv' /\ TrackInv' /\ RunsInv'
  BY <1>1 DEF Steady, BusyInv, TrackInv, RunsInv, InStep, AllHeard, Prefix, Current
<1>5. EndedInv' /\ PlaceInv' /\ DoneInv'
  BY <1>1, <1>3 DEF Steady, EndedInv, PlaceInv, DoneInv
<1> QED
  BY <1>4, <1>5 DEF Steady

LEMMA ClaimCalm == ASSUME HInv, Steady, NEW c \in Cases, Claim(c) PROVE Steady'
<1> DEFINE r == [status |-> "running", attempt |-> run[c].attempt + 1,
                 leased |-> TRUE, carried |-> FALSE]
<1>1. /\ run[c].status = "queued" /\ run[c].attempt = 0 /\ window = ArmedFor(c)
      /\ UNCHANGED <<pc, at, proof, window, turns, heard>>
  BY DEF Claim, Steady, RunsInv, driver
<1>2. /\ pc = "wait" /\ Here = c
      /\ \A d \in Cases : d # c => run[d].status \notin {"queued", "running"}
  BY <1>1 DEF HInv, IInv, LiveInv, WindowInv, AtCase, Here, Steady, PlaceInv
<1>3. run' = [run EXCEPT ![c] = r]
  BY Types DEF Claim, HInv
<1>4. worker' = [pc |-> "begin", run |-> c, gen |-> run[c].attempt + 1, step |-> 1, try |-> 0,
                 reply |-> "200", cue |-> NoCue]
  BY DEF Claim, Idle
<1>5. /\ r.status = "running" /\ r.attempt = run[c].attempt + 1 /\ r.leased
      /\ worker'.pc = "begin" /\ worker'.run = c /\ worker'.gen = run[c].attempt + 1
      /\ worker'.try = 0
  BY <1>4
<1> HIDE DEF r
<1>6. run'[c] = r /\ (\A d \in Cases : d # c => run'[d] = run[d]) /\ c # NoCase
  BY <1>3, Types DEF HInv
<1>7. Len(turns[c]) = 0 /\ Len(Schedule[c]) \in Nat /\ Schedule[c] \in Seq(Registered)
  BY <1>1, Types DEF HInv, BornInv
<1>8. BusyInv'
  BY <1>5, <1>6 DEF BusyInv, Current
<1>9. RunsInv'
  <2> SUFFICES ASSUME NEW d \in Cases
               PROVE  /\ run'[d].status = "running" =>
                            worker'.run = d /\ worker'.gen = run'[d].attempt /\ run'[d].leased
                      /\ run'[d].status # "queued"
                      /\ run'[d].status \in Terminal => AllHeard(d)'
    BY DEF RunsInv, ArmedFor, IsEnvironment
  <2>1. CASE d = c
    BY <1>5, <1>6, <2>1 DEF Terminal
  <2>2. CASE d # c
    BY <1>1, <1>2, <1>6, <2>2 DEF Steady, RunsInv, AllHeard, Prefix
  <2> QED
    BY <2>1, <2>2
<1>10. TrackInv'
  <2>1. Prefix(c)'
    BY <1>1, <1>7 DEF Prefix
  <2>2. window'.cursor = 0 /\ window'.closed = ~IsEnvironment(c)
    BY <1>1 DEF ArmedFor
  <2>3. Schedule[c] = <<>> => Len(Schedule[c]) = 0
    OBVIOUS
  <2>4. /\ worker'.run = c /\ worker'.pc = "begin" /\ worker'.try = 0
        /\ Len(turns'[c]) = 0 /\ window'.cursor = 0
    BY <1>1, <1>5, <1>7, <2>2
  <2>5. CASE IsEnvironment(c)
    <3>1. ~window'.closed
      BY <2>2, <2>5
    <3> QED
      BY <2>1, <2>4, <2>5, <3>1 DEF TrackInv, InStep
  <2>6. CASE ~IsEnvironment(c)
    <3>1. window'.closed /\ Len(Schedule[c]) = 0
      BY <1>7, <2>2, <2>3, <2>6 DEF IsEnvironment
    <3> QED
      BY <2>1, <2>4, <3>1 DEF TrackInv, InStep
  <2> QED
    BY <2>5, <2>6
<1>11. EndedInv' /\ PlaceInv'
  BY <1>1, <1>2, <1>5, <1>6 DEF EndedInv, PlaceInv, Here, Terminal
<1>12. DoneInv'
  BY <1>1, <1>6, CaseIsCase DEF Steady, DoneInv, Terminal
<1> QED
  BY <1>8, <1>9, <1>10, <1>11, <1>12 DEF Steady

\* Steps of a worker that keeps its run, and leaves runs and driver alone.
LEMMA WorkCalm ==
    ASSUME HInv, Steady, worker.pc # "idle",
           UNCHANGED <<pc, at, proof, run>>, window'.cursor \in Nat,
           worker'.run = worker.run, worker'.gen = worker.gen,
           \A d \in Cases : d # worker.run => turns'[d] = turns[d],
           Prefix(worker.run)', InStep'
    PROVE  Steady'
<1>1. /\ Current /\ run[worker.run].status = "running" /\ worker.run \in Cases
      /\ pc = "wait" /\ Here = worker.run
  BY Working
<1>2. \A d \in Cases : run[d].status \notin {"queued"} /\
                       (run[d].status \in Terminal => d # worker.run)
  BY <1>1 DEF Steady, RunsInv, Terminal
<1>3. BusyInv' /\ TrackInv'
  BY <1>1 DEF BusyInv, TrackInv, Current, Prefix
<1>4. RunsInv'
  BY <1>1, <1>2 DEF Steady, RunsInv, AllHeard, Prefix
<1>5. EndedInv' /\ PlaceInv' /\ DoneInv'
  BY <1>1 DEF Steady, EndedInv, PlaceInv, DoneInv, Here, Terminal
<1> QED
  BY <1>3, <1>4, <1>5 DEF Steady

LEMMA StepCalm ==
    ASSUME HInv, Steady, BeginStep \/ Retry \/ UseTurn PROVE Steady'
<1>0. worker.pc # "idle" /\ UNCHANGED <<pc, at, proof, window, run, turns, heard>>
  BY DEF BeginStep, Retry, UseTurn, driver
<1>1. Current /\ worker.run \in Cases /\ worker \in Worker
  BY <1>0, Working, Types DEF HInv
<1>2. Prefix(worker.run) /\ InStep
  BY <1>0 DEF Steady, TrackInv
<1>3. CASE BeginStep
  <2>1. worker' = [worker EXCEPT !.pc = "call"] /\ worker.pc = "begin"
    BY <1>1, <1>3 DEF BeginStep, Dropped, Goto
  <2>2. /\ worker'.pc = "call" /\ worker'.run = worker.run /\ worker'.gen = worker.gen
        /\ worker'.try = worker.try
    BY <1>1, <2>1 DEF Worker
  <2>3. InStep' /\ Prefix(worker.run)'
    BY <1>0, <1>2, <2>1, <2>2 DEF InStep, Prefix
  <2> QED
    BY <1>0, <2>2, <2>3, WorkCalm, Types DEF HInv
<1>4. CASE Retry
  <2>1. worker' = [worker EXCEPT !.pc = "call", !.try = @ + 1] /\ worker.pc = "retry"
    BY <1>1, <1>4 DEF Retry, Dropped
  <2>2. /\ worker'.pc = "call" /\ worker'.run = worker.run /\ worker'.gen = worker.gen
        /\ worker'.try = worker.try + 1
    BY <1>1, <2>1 DEF Worker
  <2>3. InStep' /\ Prefix(worker.run)'
    BY <1>0, <1>2, <2>1, <2>2 DEF InStep, Prefix
  <2> QED
    BY <1>0, <2>2, <2>3, WorkCalm, Types DEF HInv
<1>5. CASE UseTurn
  <2>1. worker.pc = "turn" /\ window.closed
    BY <1>2, <1>5 DEF UseTurn, InStep
  <2>2. Len(turns[worker.run]) >= window.cursor /\ window.cursor = Len(Schedule[worker.run])
    BY <1>2, <2>1 DEF InStep
  <2>3. worker'.pc # "record" /\ worker'.run = worker.run /\ worker'.gen = worker.gen
    <3>1. CASE worker' = [worker EXCEPT !.pc = "complete"] \/ worker' = [worker EXCEPT !.pc = "fail"]
      BY <1>1, <3>1 DEF Worker
    <3>2. CASE \E p \in {"fail", "begin"} :
                 worker' = [worker EXCEPT !.pc = p, !.step = @ + 1, !.try = 0]
      BY <1>1, <3>2 DEF Worker
    <3> QED
      BY <1>1, <1>5, <3>1, <3>2 DEF UseTurn, Dropped, Goto
  <2>4. InStep' /\ Prefix(worker.run)'
    BY <1>0, <1>2, <2>1, <2>2, <2>3 DEF InStep, Prefix
  <2> QED
    BY <1>0, <2>3, <2>4, WorkCalm, Types DEF HInv
<1> QED
  BY <1>3, <1>4, <1>5

LEMMA ScheduleShape ==
    ASSUME NEW c \in Cases, IsEnvironment(c)
    PROVE  /\ Len(Schedule[c]) \in Nat \ {0} /\ Len(Schedule[c]) <= Retries + 1
           /\ \A i \in 1..Len(Schedule[c]) :
                 /\ Schedule[c][i] \in Registered
                 /\ Schedule[c][i] = "200" => i = Len(Schedule[c])
           /\ Schedule[c][Len(Schedule[c])] # "200" => Len(Schedule[c]) = Retries + 1
<1>1. Schedule[c] \in Seq(Registered) /\ Schedule[c] # <<>>
  BY ScheduleAssumption DEF IsEnvironment
<1>2. Len(Schedule[c]) \in Nat \ {0}
  BY <1>1
<1>3. \A i \in 1..Len(Schedule[c]) : Schedule[c][i] = "200" => i = Len(Schedule[c])
  BY <1>2, ScheduleAssumption
<1>4. /\ Len(Schedule[c]) <= Retries + 1
      /\ Schedule[c][Len(Schedule[c])] # "200" => Len(Schedule[c]) = Retries + 1
  BY Bounds, ScheduleAssumption
<1> QED
  BY <1>1, <1>2, <1>3, <1>4

LEMMA CallCalm == ASSUME HInv, Steady, UpstreamFaults = {}, CallModel PROVE Steady'
<1>0. worker.pc = "call" /\ UNCHANGED <<pc, at, proof, run, turns, heard>>
  BY DEF CallModel, driver
<1> DEFINE c == worker.run
           n == window.cursor
<1>1. /\ c \in Cases /\ window.case = c /\ c # NoCase /\ worker \in Worker /\ window \in Window
      /\ n \in Nat /\ Len(turns[c]) \in Nat /\ Len(Schedule[c]) \in Nat
      /\ window.closed \in BOOLEAN /\ worker.try \in 0..Retries
  BY <1>0, Working, Types DEF HInv, Worker
<1>2. Prefix(c) /\ InStep
  BY <1>0 DEF Steady, TrackInv
<1>3. Prefix(c)'
  <2>1. worker'.run = worker.run
    BY <1>1 DEF CallModel, Worker
  <2> QED
    BY <1>0, <1>2, <2>1 DEF Prefix
<1>4. CASE /\ Over /\ window' = window
           /\ \E reply \in {"200", "internal"} :
                 worker' = [worker EXCEPT !.pc = "record", !.reply = reply, !.cue = NoCue]
  <2>1. window.closed
    <3> SUFFICES ASSUME ~window.closed PROVE FALSE
      OBVIOUS
    <3>1. IsEnvironment(c) /\ n = Len(Schedule[c]) /\ worker.try = n
      BY <1>0, <1>1, <1>2, <1>4 DEF InStep, Over
    <3>2. Schedule[c][n] # "200"
      BY <1>0, <1>1, <1>2, <3>1, ScheduleShape DEF InStep
    <3> QED
      BY <1>1, <3>1, <3>2, ScheduleShape, Bounds
  <2>2. worker'.run = c /\ worker'.gen = worker.gen
    BY <1>1, <1>4 DEF Worker
  <2>3. Len(turns[c]) >= n /\ n = Len(Schedule[c])
    BY <1>0, <1>2, <2>1 DEF InStep
  <2>4. InStep'
    BY <1>0, <1>4, <2>1, <2>2, <2>3 DEF InStep
  <2> QED
    BY <1>0, <1>1, <1>3, <1>4, <2>2, <2>4, WorkCalm
<1>5. CASE /\ ~window.closed /\ n + 1 \in 1..Len(Schedule[c])
           /\ window' = [window EXCEPT !.cursor = @ + 1, !.closed = (Schedule[c][n + 1] = "200")]
           /\ worker' = [worker EXCEPT !.pc = "record", !.reply = Schedule[c][n + 1],
                                       !.cue = [case |-> c, n |-> n + 1]]
  <2>1. window'.cursor = n + 1 /\ window'.closed = (Schedule[c][n + 1] = "200")
    BY <1>1, <1>5 DEF Window
  <2>2. /\ worker'.run = c /\ worker'.gen = worker.gen /\ worker'.pc = "record"
        /\ worker'.reply = Schedule[c][n + 1] /\ worker'.try = worker.try
    BY <1>1, <1>5 DEF Worker
  <2>3. IsEnvironment(c) /\ Len(turns[c]) = n /\ worker.try = n
    BY <1>0, <1>2, <1>5 DEF InStep
  <2>4. Schedule[c][n + 1] = "200" => n + 1 = Len(Schedule[c])
    BY <1>5, <2>3, <1>1, ScheduleShape
  <2> HIDE DEF c, n
  <2>5. /\ turns' = turns /\ worker'.run = c /\ window'.cursor = n + 1
        /\ Len(turns[c]) + 1 = n + 1
    BY <1>0, <2>1, <2>2, <2>3
  <2>6. InStep'
    BY <2>1, <2>2, <2>3, <2>4, <2>5 DEF InStep
  <2> QED
    BY <1>0, <1>1, <1>3, <2>1, <2>2, <2>6, WorkCalm DEF c, n
<1> QED
  BY <1>1, <1>4, <1>5, Calls DEF HInv

LEMMA RecordCalm == ASSUME HInv, Steady, RecordTurn PROVE Steady'
<1>0. worker.pc = "record" /\ UNCHANGED <<pc, at, proof, window, run>>
  BY DEF RecordTurn, driver
<1> DEFINE c == worker.run
           n == window.cursor
           got == Len(turns[worker.run])
<1>1. /\ Current /\ c \in Cases /\ window.case = c /\ c # NoCase /\ worker \in Worker
      /\ n \in Nat /\ got \in Nat /\ Len(Schedule[c]) \in Nat /\ turns[c] \in Seq(Reply)
      /\ turns \in [Cases -> Seq(Reply)]
      /\ window.closed \in BOOLEAN /\ worker.try \in 0..Retries /\ worker.reply \in Reply
  BY <1>0, Working, Types DEF HInv, Worker
<1>2. Prefix(c) /\ InStep
  BY <1>0 DEF Steady, TrackInv
<1>3. /\ worker' = [worker EXCEPT !.pc = AfterRecord]
      /\ turns' = [turns EXCEPT ![c] = Append(@, worker.reply)]
  BY <1>1 DEF RecordTurn, Goto, Dropped
<1>4. /\ worker'.run = c /\ worker'.gen = worker.gen /\ worker'.pc = AfterRecord
      /\ worker'.try = worker.try
  BY <1>1, <1>3 DEF Worker
<1>5. /\ turns'[c] = Append(turns[c], worker.reply)
      /\ \A d \in Cases : d # c => turns'[d] = turns[d]
  BY <1>1, <1>3
<1>6. /\ Len(turns'[c]) = got + 1 /\ turns'[c][got + 1] = worker.reply
      /\ \A j \in 1..got : turns'[c][j] = turns[c][j]
  BY <1>1, <1>5
<1>7. AfterRecord \in {"turn", "fail", "retry"}
  BY DEF AfterRecord
<1>8. got + 1 \in 1..Len(Schedule[c]) =>
          n = got + 1 /\ worker.reply = Schedule[c][got + 1]
  BY <1>0, <1>1, <1>2 DEF InStep
<1>9. Prefix(c)'
  <2> SUFFICES ASSUME NEW j \in 1..Len(Schedule[c]), j <= got + 1
               PROVE  turns'[c][j] = Schedule[c][j]
    BY <1>4, <1>6 DEF Prefix
  <2>1. CASE j = got + 1
    BY <1>6, <1>8, <2>1
  <2>2. CASE j \in 1..got
    BY <1>1, <1>2, <1>6, <2>2 DEF Prefix
  <2> QED
    BY <1>1, <2>1, <2>2
<1>10. CASE window.closed
  <2>1. n = Len(Schedule[c]) /\ got + 1 >= n
    BY <1>0, <1>1, <1>2, <1>10 DEF InStep
  <2> HIDE DEF n, got, c
  <2>2. /\ window'.closed /\ window'.cursor = n /\ Len(turns'[worker'.run]) >= n
        /\ worker'.run = c /\ n = Len(Schedule[c])
    BY <1>0, <1>4, <1>6, <1>10, <2>1 DEF n
  <2>3. InStep'
    BY <2>2 DEF InStep
  <2> QED
    BY <1>0, <1>1, <1>4, <1>5, <1>9, <2>3, WorkCalm DEF n, c
<1>11. CASE ~window.closed
  <2>1. /\ IsEnvironment(c) /\ n > 0 /\ Schedule[c][n] # "200" /\ got + 1 = n
        /\ worker.try = got /\ worker.reply = Schedule[c][n]
    BY <1>0, <1>1, <1>2, <1>11 DEF InStep
  <2>2. n \in 1..Len(Schedule[c])
    BY <1>1, <2>1, CursorBound DEF HInv
  <2>3. worker.reply \in {"429", "timeout", "503"}
    BY <2>1, <2>2, <1>1, ScheduleShape DEF Registered
  <2>4. AfterRecord = IF worker.try >= Retries THEN "fail" ELSE "retry"
    BY <2>3 DEF AfterRecord
  <2>5. AfterRecord = "fail" => n = Len(Schedule[c])
    BY <1>1, <2>1, <2>2, <2>4, ScheduleShape, Bounds
  <2> HIDE DEF n, got, c
  <2>6. /\ ~window'.closed /\ window'.cursor = n /\ Len(turns'[worker'.run]) = n
        /\ worker'.run = c /\ worker'.try + 1 = n /\ worker'.pc \in {"fail", "retry"}
        /\ worker'.pc = "fail" => n = Len(Schedule[c])
    BY <1>0, <1>4, <1>6, <1>11, <2>1, <2>4, <2>5 DEF n
  <2>7. InStep'
    BY <2>1, <2>6 DEF InStep
  <2> QED
    BY <1>0, <1>1, <1>4, <1>5, <1>9, <2>7, WorkCalm DEF n, c
<1> QED
  BY <1>1, <1>10, <1>11

LEMMA FinishCalm == ASSUME HInv, Steady, Finish PROVE Steady'
<1>0. /\ worker.pc \in {"complete", "fail"} /\ worker' = Idle
      /\ UNCHANGED <<pc, at, proof, window, turns, heard>>
  BY DEF Finish, driver
<1> DEFINE c == worker.run
<1>1. /\ Current /\ c \in Cases /\ window.case = c /\ run[c].status = "running"
      /\ pc = "wait" /\ Here = c /\ run \in [Cases -> Run]
      /\ Len(turns[c]) \in Nat /\ Len(Schedule[c]) \in Nat
  BY <1>0, Working, Types DEF HInv
<1>2. Prefix(c) /\ InStep
  BY <1>0 DEF Steady, TrackInv
<1>3. AllHeard(c) /\ window.cursor = Len(Schedule[c])
  BY <1>0, <1>1, <1>2 DEF InStep, AllHeard
<1>4. run'[c].status \in Terminal /\ \A d \in Cases : d # c => run'[d] = run[d]
  BY <1>0, <1>1 DEF Finish, Terminal, Run
<1>5. worker'.pc = "idle"
  BY <1>0 DEF Idle
<1> HIDE DEF c
<1>6. BusyInv' /\ TrackInv'
  BY <1>5 DEF BusyInv, TrackInv
<1>7. RunsInv'
  <2> SUFFICES ASSUME NEW d \in Cases
               PROVE  /\ run'[d].status \notin {"running", "queued"}
                      /\ run'[d].status \in Terminal => AllHeard(d)
    BY <1>0 DEF RunsInv, AllHeard, Prefix
  <2>1. CASE d = c
    BY <1>3, <1>4, <2>1 DEF Terminal
  <2>2. CASE d # c
    <3>1. run[d].status \notin {"running", "queued"}
      BY <1>1, <2>2 DEF HInv, IInv, LiveInv
    <3> QED
      BY <1>4, <2>2, <3>1 DEF Steady, RunsInv
  <2> QED
    BY <2>1, <2>2
<1>8. EndedInv' /\ PlaceInv'
  BY <1>0, <1>1, <1>3 DEF EndedInv, PlaceInv, Here
<1>9. DoneInv'
  BY <1>0, <1>4, CaseIsCase DEF Steady, DoneInv
<1> QED
  BY <1>6, <1>7, <1>8, <1>9 DEF Steady

LEMMA CalmStep ==
    ASSUME HInv, UpstreamFaults = {}, Calm => Steady, [Next]_vars, Calm' PROVE Steady'
<1>1. Calm
  <2>1. /\ expiries' = expiries \/ expiries' = expiries + 1
        /\ crashes' = crashes \/ crashes' = crashes + 1
    BY DEF Next, Driver, Arm, Submit, AwaitTerminal, GiveUp, VerifySchedule, Disarm, CheckParity,
       Work, BeginStep, CallModel, RecordTurn, Retry, UseTurn, Finish, Claim, Crash, LoseLease,
       LoseDelivery, Expire, Sweep, vars
  <2> QED
    BY <2>1, Bounds DEF Calm, HInv, IInv, TypeOK
<1>2. Steady
  BY <1>1
<1>3. CASE Driver
  BY <1>1, <1>2, <1>3, ArmCalm, SubmitCalm, AwaitCalm, VerifyCalm, DisarmCalm, ParityCalm
     DEF Driver
<1>4. CASE Work
  BY <1>2, <1>4, ClaimCalm, StepCalm, CallCalm, RecordCalm, FinishCalm DEF Work
<1>5. ASSUME Crash \/ LoseLease \/ \E c \in Cases : LoseDelivery(c) PROVE FALSE
  BY <1>1, <1>5 DEF Calm, Crash, LoseLease, LoseDelivery
<1>6. ASSUME NEW c \in Cases, Expire(c) \/ Sweep(c) PROVE FALSE
  BY <1>2, <1>6 DEF Steady, RunsInv, Expire, Sweep
<1>7. CASE UNCHANGED vars
  BY <1>2, <1>7 DEF vars, Steady, BusyInv, Current, RunsInv, AllHeard, Prefix, TrackInv, InStep,
     EndedInv, PlaceInv, DoneInv, Here
<1> QED
  BY <1>3, <1>4, <1>5, <1>6, <1>7 DEF Next

LEMMA CalmInit == Init => Steady
<1> SUFFICES ASSUME Init PROVE Steady
  OBVIOUS
<1>1. /\ worker.pc = "idle" /\ window.case = NoCase /\ at = 1
      /\ pc = IF Case = <<>> THEN "parity" ELSE "arm"
      /\ \A c \in Cases : run[c].status = "absent"
  BY DEF Init, Idle, NoWindow
<1>2. Case = <<>> => Len(Case) = 0
  OBVIOUS
<1>3. BusyInv /\ TrackInv /\ RunsInv
  BY <1>1 DEF BusyInv, TrackInv, RunsInv, Terminal
<1>4. EndedInv /\ PlaceInv
  BY <1>1, <1>2 DEF EndedInv, PlaceInv
<1>5. DoneInv
  BY <1>1, LenCase DEF DoneInv
<1> QED
  BY <1>3, <1>4, <1>5 DEF Steady

\* The gate is complete: for every catalog and any number of retries, without a lost lease, a
\* crash or a fault of the model server itself it does not abort.
THEOREM NoAlarmWithoutCause == Spec => []NoFalseAlarm
<1>1. CASE UpstreamFaults # {}
  <2>1. NoFalseAlarm
    BY <1>1 DEF NoFalseAlarm, Disturbed
  <2> QED
    BY <2>1, PTL
<1>2. CASE UpstreamFaults = {}
  <2> DEFINE I == HInv /\ (Calm => Steady)
  <2>1. Init => I
    BY HearInit, CalmInit
  <2>2. I /\ [Next]_vars => I'
    BY <1>2, HearStep, CalmStep
  <2>3. I => NoFalseAlarm
    BY Bounds DEF Steady, PlaceInv, Calm, NoFalseAlarm, Disturbed, HInv, IInv, TypeOK
  <2> QED
    BY <2>1, <2>2, <2>3, PTL DEF Spec
<1> QED
  BY <1>1, <1>2
=============================================================================
