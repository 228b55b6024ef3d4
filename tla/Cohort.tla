------------------------------- MODULE Cohort -------------------------------
(***************************************************************************)
(* The registered evaluation cohort (M4).  A driver takes the cases of the *)
(* frozen catalog one at a time: it arms the fault schedule of the case in *)
(* the chaos proxy, submits the case as a run, waits until the run is      *)
(* terminal, verifies the schedule and disarms it.  When every case is     *)
(* done it compares, per environment case, the model turns the worker      *)
(* recorded with the registered decisions, and accepts or aborts.          *)
(*                                                                         *)
(* The proxy does not know runs: it hands the next decision of the armed   *)
(* schedule to whoever asks.  That may be a worker whose lease has expired *)
(* and whose run somebody else has ended: it learns of it only at its next *)
(* fenced write, which is after the call.                                  *)
(*                                                                         *)
(* One worker process executes runs (the gate scales it to one), so        *)
(* delivery is only: an idle worker takes a queued run.  What the tools do *)
(* to the campaigns is BudgetTools' subject, and the sweeper's timing is   *)
(* RunLifecycle's: here a lease is valid or not.                           *)
(***************************************************************************)
EXTENDS Naturals, Sequences

CONSTANTS
    Case,          \* EvalCatalog.cases: a sequence of distinct case ids
    Schedule,      \* case id -> registered decisions, <<>> unless environment
    NoCase,        \* "no schedule is armed", "no run"
    Retries,       \* settings.llm_max_retries
    MaxRounds,     \* run_agent's max_rounds
    MaxAttempts,   \* settings.max_attempts
    UpstreamFaults,\* what the model server itself may answer besides a turn
    MaxExpiries,   \* bound: leases that expire although the worker is alive
    MaxCrashes     \* bound: worker processes that die

Cases == {Case[i] : i \in 1..Len(Case)}
Registered == {"200", "429", "timeout", "503"}
IsEnvironment(c) == Schedule[c] # <<>>

ASSUME CaseAssumption ==
    /\ Case \in Seq(Cases) /\ NoCase \notin Cases
    /\ \A i, j \in 1..Len(Case) : Case[i] = Case[j] => i = j
\* The frozen schedules: errors that the retries outlast and then a 200, or errors
\* that exhaust the retries exactly.
ASSUME ScheduleAssumption ==
    /\ Schedule \in [Cases -> Seq(Registered)]
    /\ \A c \in Cases : \A i \in 1..Len(Schedule[c]) :
          i < Len(Schedule[c]) => Schedule[c][i] # "200"
    /\ \A c \in Cases : IsEnvironment(c) =>
          IF Schedule[c][Len(Schedule[c])] = "200" THEN Len(Schedule[c]) <= Retries + 1
                                       ELSE Len(Schedule[c]) = Retries + 1
ASSUME BoundsAssumption ==
    /\ {Retries, MaxExpiries, MaxCrashes} \subseteq Nat
    /\ {MaxRounds, MaxAttempts} \subseteq Nat \ {0}
    /\ UpstreamFaults \subseteq {"timeout", "503"}

VARIABLES
    pc,      \* where the driver is
    at,      \* the case it is at: an index of Case
    window,  \* RegisteredFaultWindow
    run,     \* agent_runs: the run of each case
    turns,   \* model_turns: per run, the outcomes in the order of their keys
    worker,  \* the worker process
    proof,   \* the manifest: schedule_state's registered_decisions per case
    heard,   \* history: per run, where each recorded turn's decision came from
    expiries, crashes

driver == <<pc, at, proof>>
vars == <<pc, at, window, run, turns, worker, proof, heard, expiries, crashes>>

-----------------------------------------------------------------------------
(* Types *)

Terminal == {"completed", "failed"}
Run == [status: {"absent", "queued", "running"} \cup Terminal, attempt: 0..MaxAttempts,
        leased: BOOLEAN,   \* the lease has not expired
        carried: BOOLEAN]  \* queued: a delivery is on its way
Window == [case: Cases \cup {NoCase}, cursor: Nat, closed: BOOLEAN]
\* Which decision of which schedule a call got: the n-th of the case, 0 for none.
Cue == [case: Cases \cup {NoCase}, n: Nat]
\* "internal" is any answer that run_agent neither uses nor retries (MODEL_INTERNAL).
Reply == {"200", "429", "timeout", "503", "internal"}
WorkerStep == {"idle", "begin", "call", "record", "retry", "turn", "complete", "fail"}
Worker == [pc: WorkerStep, run: Cases \cup {NoCase}, gen: 0..MaxAttempts,
           step: 0..MaxRounds + 1, try: 0..Retries, reply: Reply, cue: Cue]

TypeOK ==
    /\ pc \in {"arm", "submit", "wait", "verify", "disarm", "parity", "accepted", "aborted"}
    /\ at \in 1..Len(Case) + 1
    /\ window \in Window
    /\ run \in [Cases -> Run]
    /\ turns \in [Cases -> Seq(Reply)]
    /\ worker \in Worker
    /\ proof \in [Cases -> Seq(Registered)]
    /\ heard \in [Cases -> Seq(Cue)]
    /\ expiries \in 0..MaxExpiries /\ crashes \in 0..MaxCrashes

NoCue == [case |-> NoCase, n |-> 0]
Idle == [pc |-> "idle", run |-> NoCase, gen |-> 0, step |-> 0, try |-> 0, reply |-> "200",
         cue |-> NoCue]
NoWindow == [case |-> NoCase, cursor |-> 0, closed |-> FALSE]

-----------------------------------------------------------------------------
(* The chaos proxy *)

\* registered_decisions: always the first cursor decisions of the armed case.
Served == IF window.case = NoCase THEN <<>>
          ELSE SubSeq(Schedule[window.case], 1, window.cursor)

\* arm: refused while a schedule is active.  Only environment cases inject.
ArmedFor(c) == [case |-> c, cursor |-> 0, closed |-> ~IsEnvironment(c)]

\* What decide answers: "refused" without a schedule, "exhausted" behind its end.
Decision ==
    CASE window.case = NoCase -> "refused"
      [] window.case # NoCase /\ window.closed -> "forward"
      [] OTHER -> IF window.cursor >= Len(Schedule[window.case]) THEN "exhausted"
                  ELSE Schedule[window.case][window.cursor + 1]
\* A registered decision is consumed, and a 200 closes the window for faults.
WindowAfter ==
    IF Decision \in Registered
    THEN [window EXCEPT !.cursor = @ + 1, !.closed = (Decision = "200")] ELSE window

CueOf == IF Decision \in Registered
         THEN [case |-> window.case, n |-> window.cursor + 1] ELSE NoCue

\* What the client of the proxy gets: both schedule errors are a 409; a 200 and a
\* forward are answered by the model server.
Replies ==
    CASE Decision \in {"refused", "exhausted"} -> {"internal"}
      [] Decision \in {"200", "forward"} -> {"200"} \cup UpstreamFaults
      [] OTHER -> {Decision}

\* disarm without force: refused while the schedule is only partially consumed.
MayDisarm == window.case # NoCase =>
    window.closed \/ window.cursor = Len(Schedule[window.case])

-----------------------------------------------------------------------------
(* The worker *)

\* lock_current_run with the worker's fence.
Current == /\ worker.run # NoCase
           /\ run[worker.run].status = "running" /\ run[worker.run].leased
           /\ run[worker.run].attempt = worker.gen

\* A fenced write that finds the lease gone raises, and the run is left alone.
Dropped == ~Current /\ worker' = Idle
Goto(p) == worker' = [worker EXCEPT !.pc = p]

Claim(c) ==
    /\ worker.pc = "idle" /\ run[c].status = "queued" /\ run[c].carried
    /\ run' = [run EXCEPT ![c] = [status |-> "running", attempt |-> @.attempt + 1,
                                  leased |-> TRUE, carried |-> FALSE]]
    /\ worker' = [Idle EXCEPT !.pc = "begin", !.run = c, !.gen = run[c].attempt + 1, !.step = 1]
    /\ UNCHANGED <<driver, window, turns, heard, expiries, crashes>>

\* run.started or step.model_call: fenced events before the first call of a step.
BeginStep ==
    /\ worker.pc = "begin"
    /\ \/ Current /\ Goto("call")
       \/ Dropped
    /\ UNCHANGED <<driver, window, run, turns, heard, expiries, crashes>>

\* client.complete: nothing checks the lease here.
CallModel ==
    /\ worker.pc = "call"
    /\ \E reply \in Replies :
         worker' = [worker EXCEPT !.pc = "record", !.reply = reply, !.cue = CueOf]
    /\ window' = WindowAfter
    /\ UNCHANGED <<driver, run, turns, heard, expiries, crashes>>

\* Mutant: one retry too many.
AfterRecord_OneMore ==
    CASE worker.reply = "200" -> "turn"
      [] worker.reply = "internal" -> "fail"
      [] OTHER -> IF worker.try > Retries THEN "fail" ELSE "retry"
\* Where run_agent goes once the attempt is on record.
AfterRecord ==
    CASE worker.reply = "200" -> "turn"
      [] worker.reply = "internal" -> "fail"
      [] OTHER -> IF worker.try >= Retries THEN "fail" ELSE "retry"

\* record_model_turn: every attempt, failed ones included, behind the fence.
RecordTurn ==
    /\ worker.pc = "record"
    /\ \/ /\ Current /\ Goto(AfterRecord)
          /\ turns' = [turns EXCEPT ![worker.run] = Append(@, worker.reply)]
          /\ heard' = [heard EXCEPT ![worker.run] = Append(@, worker.cue)]
       \/ Dropped /\ UNCHANGED <<turns, heard>>
    /\ UNCHANGED <<driver, window, run, expiries, crashes>>

\* step.model_retry, then the backoff.
Retry ==
    /\ worker.pc = "retry"
    /\ \/ Current /\ worker' = [worker EXCEPT !.pc = "call", !.try = @ + 1]
       \/ Dropped
    /\ UNCHANGED <<driver, window, run, turns, heard, expiries, crashes>>

\* The turn calls tools (behind the fence) and another step follows, up to
\* max_rounds; or it is the answer; or it is no use (BadOutput, ToolError).
UseTurn ==
    /\ worker.pc = "turn"
    /\ \/ /\ Current /\ worker.step <= MaxRounds
          /\ worker' = [worker EXCEPT !.pc = IF worker.step = MaxRounds THEN "fail" ELSE "begin",
                                      !.step = @ + 1, !.try = 0]
       \/ Goto("complete") \/ Goto("fail")
       \/ Dropped
    /\ UNCHANGED <<driver, window, run, turns, heard, expiries, crashes>>

\* finish_run, which writes nothing when the fence has passed on.
Finish ==
    /\ worker.pc \in {"complete", "fail"}
    /\ run' = IF Current
              THEN [run EXCEPT ![worker.run].leased = FALSE, ![worker.run].status =
                      IF worker.pc = "complete" THEN "completed" ELSE "failed"]
              ELSE run
    /\ worker' = Idle
    /\ UNCHANGED <<driver, window, turns, heard, expiries, crashes>>

Crash ==
    /\ worker.pc # "idle" /\ crashes < MaxCrashes
    /\ worker' = Idle /\ crashes' = crashes + 1
    /\ UNCHANGED <<driver, window, run, turns, heard, expiries>>

\* The worker dies between taking the delivery from Redis and claiming the run.
LoseDelivery(c) ==
    /\ worker.pc = "idle" /\ run[c].status = "queued" /\ run[c].carried
    /\ crashes < MaxCrashes /\ crashes' = crashes + 1
    /\ run' = [run EXCEPT ![c].carried = FALSE]
    /\ UNCHANGED <<driver, window, turns, worker, heard, expiries>>

-----------------------------------------------------------------------------
(* Leases *)

\* The lease of a run that nobody renews any more.
Expire(c) ==
    /\ run[c].status = "running" /\ run[c].leased
    /\ ~(worker.run = c /\ worker.gen = run[c].attempt)
    /\ run' = [run EXCEPT ![c].leased = FALSE]
    /\ UNCHANGED <<driver, window, turns, worker, heard, expiries, crashes>>

\* The lease of a live worker whose renewals fail: it goes on as a zombie.
LoseLease ==
    /\ Current /\ expiries < MaxExpiries
    /\ run' = [run EXCEPT ![worker.run].leased = FALSE]
    /\ expiries' = expiries + 1
    /\ UNCHANGED <<driver, window, turns, worker, heard, crashes>>

\* The sweeper requeues the run or, out of attempts, fails it.
Sweep(c) ==
    /\ run[c].status = "running" /\ ~run[c].leased
    /\ run' = IF run[c].attempt < MaxAttempts
              THEN [run EXCEPT ![c].status = "queued", ![c].carried = TRUE]
              ELSE [run EXCEPT ![c].status = "failed"]
    /\ UNCHANGED <<driver, window, turns, worker, heard, expiries, crashes>>

-----------------------------------------------------------------------------
(* The driver *)

Here == Case[at]
Abort == pc' = "aborted"

\* restore_fixture, then arm: the proxy refuses while a schedule is active.
Arm ==
    /\ pc = "arm" /\ at <= Len(Case)
    /\ IF window.case = NoCase
       THEN window' = ArmedFor(Here) /\ pc' = "submit"
       ELSE Abort /\ UNCHANGED window
    /\ UNCHANGED <<at, proof, run, turns, worker, heard, expiries, crashes>>

Submit ==
    /\ pc = "submit"
    /\ run' = [run EXCEPT ![Here].status = "queued", ![Here].carried = TRUE]
    /\ pc' = "wait"
    /\ UNCHANGED <<at, proof, window, turns, worker, heard, expiries, crashes>>

\* Mutant: the driver moves on as soon as a worker has the run.
AwaitTerminal_Started ==
    /\ pc = "wait" /\ run[Here].status # "queued"
    /\ pc' = IF IsEnvironment(Here) THEN "verify" ELSE "disarm"
    /\ UNCHANGED <<at, proof, window, run, turns, worker, heard, expiries, crashes>>
AwaitTerminal ==
    /\ pc = "wait" /\ run[Here].status \in Terminal
    /\ pc' = IF IsEnvironment(Here) THEN "verify" ELSE "disarm"
    /\ UNCHANGED <<at, proof, window, run, turns, worker, heard, expiries, crashes>>

\* Mutant: the driver waits without a deadline.
GiveUp_Never == FALSE /\ UNCHANGED vars
\* 240 seconds hold four timeouts of 30 and the backoff, so an undisturbed run with
\* a prompt model ends in time.
Disturbed == expiries + crashes > 0 \/ UpstreamFaults # {}
GiveUp ==
    /\ pc = "wait" /\ run[Here].status \notin Terminal /\ Disturbed
    /\ Abort
    /\ UNCHANGED <<at, proof, window, run, turns, worker, heard, expiries, crashes>>

Times(d, s) == Len(SelectSeq(s, LAMBDA x : x = d))
ScheduleVerified(c) ==
    /\ window.case = c
    /\ window.cursor = Len(Schedule[c])
    /\ \A d \in Registered : Times(d, Served) = Times(d, Schedule[c])
VerifySchedule ==
    /\ pc = "verify"
    /\ proof' = [proof EXCEPT ![Here] = Served]
    /\ IF ScheduleVerified(Here) THEN pc' = "disarm" ELSE Abort
    /\ UNCHANGED <<at, window, run, turns, worker, heard, expiries, crashes>>

Disarm ==
    /\ pc = "disarm"
    /\ IF MayDisarm
       THEN /\ window' = NoWindow /\ at' = at + 1
            /\ pc' = IF at = Len(Case) THEN "parity" ELSE "arm"
       ELSE Abort /\ UNCHANGED <<window, at>>
    /\ UNCHANGED <<proof, run, turns, worker, heard, expiries, crashes>>

\* Mutant: the gate compares every recorded attempt, the rounds after the tools too.
Observed_All(c) == turns[c]
\* verify_fault_attempt_parity: the first recorded attempts of the run against the
\* schedule, and what the proxy said it served against them.
Observed(c) == SubSeq(turns[c], 1, IF Len(turns[c]) < Len(Schedule[c]) THEN Len(turns[c])
                                                                       ELSE Len(Schedule[c]))
\* Mutant: the gate believes the proxy.
Parity_ProxyOnly(c) == proof[c] = Schedule[c]
Parity(c) == Observed(c) = Schedule[c] /\ proof[c] = Observed(c)
CheckParity ==
    /\ pc = "parity"
    /\ IF \A c \in Cases : IsEnvironment(c) => Parity(c) THEN pc' = "accepted" ELSE Abort
    /\ UNCHANGED <<at, proof, window, run, turns, worker, heard, expiries, crashes>>

-----------------------------------------------------------------------------
(* The specification *)

Init ==
    /\ pc = IF Case = <<>> THEN "parity" ELSE "arm"
    /\ at = 1
    /\ window = NoWindow
    /\ run = [c \in Cases |-> [status |-> "absent", attempt |-> 0, leased |-> FALSE, carried |-> FALSE]]
    /\ turns = [c \in Cases |-> <<>>]
    /\ worker = Idle
    /\ proof = [c \in Cases |-> <<>>]
    /\ heard = [c \in Cases |-> <<>>]
    /\ expiries = 0 /\ crashes = 0

Driver == Arm \/ Submit \/ AwaitTerminal \/ GiveUp \/ VerifySchedule \/ Disarm \/ CheckParity
Work == \/ BeginStep \/ CallModel \/ RecordTurn \/ Retry \/ UseTurn \/ Finish
        \/ \E c \in Cases : Claim(c)

Next ==
    \/ Driver \/ Work \/ Crash \/ LoseLease
    \/ \E c \in Cases : LoseDelivery(c) \/ Expire(c) \/ Sweep(c)

\* The driver and the worker go on; a lease that nobody renews expires, and the
\* sweeper comes round.
Fairness ==
    /\ WF_vars(Driver) /\ WF_vars(Work)
    /\ \A c \in Cases : WF_vars(Expire(c)) /\ WF_vars(Sweep(c))

Spec == Init /\ [][Next]_vars
FairSpec == Spec /\ Fairness

-----------------------------------------------------------------------------
(* Properties *)

\* A run that may still be executed finds its own schedule armed: the driver never
\* moves the window while the run it belongs to is unfinished.
LiveRunOwnsWindow ==
    \A c \in Cases : run[c].status \in {"queued", "running"} => window.case = c

\* An accepted cohort is sound: the i-th recorded attempt of every run got the i-th
\* registered fault of its own case, whatever workers lost their lease or died
\* meanwhile.  (A 200 is no fault: who gets it does not matter to the case.)
AcceptedMeansHeard ==
    pc = "accepted" => \A c \in Cases : \A i \in 1..Len(Schedule[c]) :
        Schedule[c][i] # "200" => i <= Len(heard[c]) /\ heard[c][i] = [case |-> c, n |-> i]

\* And it is complete: without a lost lease, a crash or a fault of the model server
\* itself the gate does not abort, whatever the model says.
NoFalseAlarm == pc = "aborted" => Disturbed

\* The cohort ends.
CohortEnds == <>(pc \in {"accepted", "aborted"})

=============================================================================
