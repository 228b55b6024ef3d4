-------------------------- MODULE TrajectoryProofs --------------------------
(***************************************************************************)
(* Proofs about Trajectory, for every set of cases and tool calls and any  *)
(* number of retries, rounds and attempts.                                 *)
(***************************************************************************)
EXTENDS Trajectory, TLAPS

\* Who works on the run, and how far its attempts have come.
StatusInv ==
    /\ worker.pc # "idle" => status = "running"
    /\ status = "running" => gen >= 1
    /\ status = "queued" => gen < MaxAttempts
\* The turns so far lie behind the attempt the worker is about to make.
ProgressInv == \A i \in 1..Len(turns) :
    /\ turns[i].gen <= gen
    /\ turns[i].gen = gen =>
         /\ worker.pc = "begin" => turns[i].step < worker.step
         /\ worker.pc = "ask" => \/ turns[i].step < worker.step
                                 \/ turns[i].step = worker.step /\ turns[i].try < worker.try
         /\ worker.pc = "tools" => turns[i].step <= worker.step
BeginInv == worker.pc = "begin" => worker.try = 0
\* What the worker is about to make the outcome is backed by the last turn.
VerdictInv ==
    /\ worker.pc # "fail" => worker.fate = "none"
    /\ worker.pc = "complete" =>
         /\ turns # <<>> /\ turns[Len(turns)].gen = gen /\ turns[Len(turns)].said # "nothing"
    /\ worker.pc = "fail" /\ worker.fate \in EnvironmentErrors =>
         turns # <<>> /\ turns[Len(turns)].error = worker.fate
\* A run has no error before it ends.
ErrorInv == status \in {"queued", "running"} => error = "none"

IInv == /\ TypeOK /\ StatusInv /\ ProgressInv /\ BeginInv /\ TurnsInKeyOrder
        /\ VerdictInv /\ ErrorInv /\ OutcomeBacked

-----------------------------------------------------------------------------
LEMMA Bounds == Retries \in Nat /\ MaxRounds \in Nat \ {0} /\ MaxAttempts \in Nat \ {0}
BY BoundAssumption

LEMMA TurnTyped ==
    ASSUME TypeOK, NEW i \in 1..Len(turns)
    PROVE  turns[i] \in Turn /\ turns[i].gen \in Nat /\ turns[i].step \in Nat /\ turns[i].try \in Nat
<1>1. turns[i] \in Turn
  BY DEF TypeOK
<1> QED BY <1>1, Bounds DEF Turn

LEMMA GenTyped == TypeOK => gen \in Nat /\ gen \in 0..MaxAttempts
BY Bounds DEF TypeOK

LEMMA IdleTyped == Idle \in Worker /\ Idle.pc = "idle" /\ Idle.fate = "none"
<1>1. <<>> \in Seq(Call)
  OBVIOUS
<1>2. 1 \in 1..MaxRounds /\ 0 \in 0..Retries /\ "none" \in RunErrors
  BY Bounds DEF RunErrors
<1>3. Idle = [pc |-> "idle", step |-> 1, try |-> 0, todo |-> <<>>, fate |-> "none"]
  BY DEF Idle
<1> QED BY <1>1, <1>2, <1>3 DEF Worker

\* What record_model_turn writes is a turn.
LEMMA TurnWritten ==
    ASSUME TypeOK, StatusInv, worker.pc = "ask",
           NEW calls \in Seq(Call), NEW said \in Said,
           NEW code \in EnvironmentErrors \cup {"none", "MODEL_INTERNAL"}
    PROVE  [gen |-> gen, step |-> worker.step, try |-> worker.try,
            calls |-> calls, said |-> said, error |-> code] \in Turn
<1>1. gen \in 1..MaxAttempts
  BY Bounds DEF TypeOK, StatusInv
<1>2. worker.step \in 1..MaxRounds /\ worker.try \in 0..Retries
  BY DEF TypeOK, Worker
<1> QED BY <1>1, <1>2 DEF Turn

\* A recorded turn becomes the last one and lies behind all earlier ones, and the
\* earlier ones stay what they were.
LEMMA TurnRecorded ==
    ASSUME IInv, worker.pc = "ask",
           NEW calls \in Seq(Call), NEW said \in Said,
           NEW code \in EnvironmentErrors \cup {"none", "MODEL_INTERNAL"},
           turns' = Recorded(calls, said, code)
    PROVE  /\ turns' \in Seq(Turn)
           /\ Len(turns') = Len(turns) + 1 /\ turns' # <<>>
           /\ turns'[Len(turns')].gen = gen /\ turns'[Len(turns')].step = worker.step
           /\ turns'[Len(turns')].try = worker.try
           /\ turns'[Len(turns')].said = said /\ turns'[Len(turns')].error = code
           /\ \A i \in 1..Len(turns) : turns'[i] = turns[i]
           /\ \A i \in 1..Len(turns') : turns'[i].gen <= gen
           /\ \A i \in 1..Len(turns') : turns'[i].gen = gen =>
                 turns'[i].step < worker.step
                 \/ (turns'[i].step = worker.step /\ turns'[i].try <= worker.try)
           /\ TurnsInKeyOrder'
<1> DEFINE t == [gen |-> gen, step |-> worker.step, try |-> worker.try,
                 calls |-> calls, said |-> said, error |-> code]
<1>1. t \in Turn
  BY TurnWritten DEF IInv
<1>2. turns' = Append(turns, t)
  BY DEF Recorded
<1>3. /\ t.gen = gen /\ t.step = worker.step /\ t.try = worker.try
      /\ t.said = said /\ t.error = code
  OBVIOUS
<1> HIDE DEF t
<1>4. turns \in Seq(Turn)
  BY DEF IInv, TypeOK
<1>5. /\ turns' \in Seq(Turn) /\ Len(turns') = Len(turns) + 1 /\ turns' # <<>>
      /\ turns'[Len(turns')] = t
      /\ \A i \in 1..Len(turns) : turns'[i] = turns[i]
  BY <1>1, <1>2, <1>4
<1>6. \A i \in 1..Len(turns) : Before(turns[i], t) /\ turns[i].gen <= gen
  <2> SUFFICES ASSUME NEW i \in 1..Len(turns)
               PROVE  Before(turns[i], t) /\ turns[i].gen <= gen
    OBVIOUS
  <2>1. turns[i].gen \in Nat /\ gen \in Nat
    BY TurnTyped, GenTyped DEF IInv
  <2> QED BY <2>1, <1>3 DEF IInv, ProgressInv, Before
<1>7. TurnsInKeyOrder'
  <2> SUFFICES ASSUME NEW i \in 1..Len(turns'), NEW j \in 1..Len(turns'), i < j
               PROVE  Before(turns'[i], turns'[j])
    BY DEF TurnsInKeyOrder, Before
  <2>1. CASE j = Len(turns')
    BY <2>1, <1>4, <1>5, <1>6
  <2>2. CASE j # Len(turns')
    <3>1. i \in 1..Len(turns) /\ j \in 1..Len(turns)
      BY <2>2, <1>4, <1>5
    <3> QED BY <3>1, <1>5 DEF IInv, TurnsInKeyOrder
  <2> QED BY <2>1, <2>2
<1>8. \A i \in 1..Len(turns') :
        /\ turns'[i].gen <= gen
        /\ turns'[i].gen = gen =>
             turns'[i].step < worker.step
             \/ (turns'[i].step = worker.step /\ turns'[i].try <= worker.try)
  <2> SUFFICES ASSUME NEW i \in 1..Len(turns')
               PROVE  /\ turns'[i].gen <= gen
                      /\ turns'[i].gen = gen =>
                           turns'[i].step < worker.step
                           \/ (turns'[i].step = worker.step /\ turns'[i].try <= worker.try)
    OBVIOUS
  <2>0. gen \in Nat /\ worker.try \in Nat /\ worker.step \in Nat
    BY Bounds DEF IInv, TypeOK, Worker
  <2>1. CASE i = Len(turns')
    BY <2>0, <2>1, <1>3, <1>5
  <2>2. CASE i # Len(turns')
    <3>1. i \in 1..Len(turns)
      BY <2>2, <1>4, <1>5
    <3>2. turns'[i] = turns[i] /\ turns[i] \in Turn
      BY <3>1, <1>4, <1>5
    <3>3. turns[i].try \in Nat /\ turns[i].gen \in Nat
      BY <3>2, Bounds DEF Turn
    <3> QED BY <3>1, <3>2, <3>3, <2>0, <1>6 DEF IInv, ProgressInv
  <2> QED BY <2>1, <2>2
<1> QED BY <1>3, <1>5, <1>7, <1>8

-----------------------------------------------------------------------------
LEMMA InitInv == Init => IInv
<1> SUFFICES ASSUME Init PROVE IInv
  OBVIOUS
<1>1. Idle \in Worker
  BY IdleTyped
<1>2. TypeOK
  <2>1. <<>> \in Seq(Turn)
    OBVIOUS
  <2>2. 0 \in 0..MaxAttempts /\ 0 \in Nat
    BY Bounds
  <2>3. "none" \in RunErrors
    BY DEF RunErrors
  <2> QED BY <1>1, <2>1, <2>2, <2>3 DEF Init, TypeOK
<1>3. Len(turns) = 0 /\ worker.pc = "idle" /\ worker.fate = "none"
  BY IdleTyped DEF Init
<1>4. StatusInv /\ BeginInv /\ VerdictInv /\ ErrorInv
  BY <1>3, Bounds DEF Init, StatusInv, BeginInv, VerdictInv, ErrorInv
<1>5. ProgressInv /\ TurnsInKeyOrder
  BY <1>3 DEF ProgressInv, TurnsInKeyOrder
<1>6. OutcomeBacked
  BY DEF Init, OutcomeBacked, EnvironmentErrors
<1> QED BY <1>2, <1>4, <1>5, <1>6 DEF IInv

\* The worker makes up its mind in a step that records no turn and leaves the run row.
LEMMA TurnsKept ==
    ASSUME TurnsInKeyOrder, OutcomeBacked, ErrorInv, UNCHANGED <<record, turns>>
    PROVE  TurnsInKeyOrder' /\ OutcomeBacked' /\ ErrorInv'
BY DEF TurnsInKeyOrder, Before, OutcomeBacked, ErrorInv, record

LEMMA StepClaim == ASSUME IInv, Claim PROVE IInv'
<1> USE DEF Claim
<1>0. worker' \in Worker /\ worker'.pc = "begin" /\ worker'.try = 0 /\ worker'.fate = "none"
  <2>1. Idle.try = 0
    BY DEF Idle
  <2> QED BY <2>1, IdleTyped DEF Worker
<1>1. gen \in Nat /\ gen < MaxAttempts /\ gen' = gen + 1
  BY Bounds DEF IInv, TypeOK, StatusInv
<1>2. TypeOK'
  <2>1. gen' \in 0..MaxAttempts
    BY <1>1, Bounds
  <2> QED BY <1>0, <2>1 DEF IInv, TypeOK
<1>3. StatusInv' /\ BeginInv' /\ VerdictInv'
  BY <1>0, <1>1 DEF StatusInv, BeginInv, VerdictInv
<1>4. ProgressInv'
  <2> SUFFICES ASSUME NEW i \in 1..Len(turns)
               PROVE  turns[i].gen <= gen' /\ turns[i].gen # gen'
    BY DEF ProgressInv
  <2>1. turns[i].gen \in Nat /\ turns[i].gen <= gen
    BY TurnTyped DEF IInv, ProgressInv
  <2> QED BY <2>1, <1>1
<1>5. TurnsInKeyOrder'
  BY DEF IInv, TurnsInKeyOrder, Before
<1>6. ErrorInv' /\ OutcomeBacked'
  BY DEF IInv, ErrorInv, OutcomeBacked, EnvironmentErrors
<1> QED BY <1>2, <1>3, <1>4, <1>5, <1>6 DEF IInv

LEMMA StepBegin == ASSUME IInv, BeginStep PROVE IInv'
<1> USE DEF BeginStep
<1>1. worker' \in Worker /\ worker'.pc = "ask" /\ worker'.step = worker.step
  BY DEF IInv, TypeOK, Worker
<1>2. TypeOK'
  BY <1>1 DEF IInv, TypeOK, record
<1>3. StatusInv' /\ BeginInv' /\ VerdictInv'
  BY <1>1 DEF IInv, StatusInv, BeginInv, VerdictInv, record
<1>4. ProgressInv'
  BY <1>1 DEF IInv, ProgressInv, record
<1> QED BY <1>2, <1>3, <1>4, TurnsKept DEF IInv

\* A step that records a turn and then retries, fails, completes or calls tools.
LEMMA StepTurn ==
    ASSUME IInv, worker.pc = "ask",
           NEW calls \in Seq(Call), NEW said \in Said,
           NEW code \in EnvironmentErrors \cup {"none", "MODEL_INTERNAL"},
           turns' = Recorded(calls, said, code),
           UNCHANGED <<kind, record, events, rows, audits, blocked>>,
           worker' \in Worker, worker'.pc \in {"ask", "tools", "complete", "fail"},
           worker'.pc \in {"ask", "tools"} => worker'.step = worker.step,
           worker'.pc = "ask" => worker'.try = worker.try + 1,
           worker'.pc = "complete" => said # "nothing",
           worker'.pc # "fail" => worker'.fate = "none",
           worker'.pc = "fail" /\ worker'.fate \in EnvironmentErrors => code = worker'.fate
    PROVE  IInv'
<1>1. /\ turns' \in Seq(Turn)
      /\ turns' # <<>>
      /\ turns'[Len(turns')].gen = gen
      /\ turns'[Len(turns')].said = said /\ turns'[Len(turns')].error = code
      /\ \A i \in 1..Len(turns') : turns'[i].gen <= gen
      /\ \A i \in 1..Len(turns') : turns'[i].gen = gen =>
                 turns'[i].step < worker.step
                 \/ (turns'[i].step = worker.step /\ turns'[i].try <= worker.try)
      /\ TurnsInKeyOrder'
  BY TurnRecorded
<1>2. TypeOK'
  BY <1>1 DEF IInv, TypeOK, record
<1>3. status = "running" /\ status' = status /\ error' = error /\ gen' = gen
  BY DEF IInv, StatusInv, record
<1>4. StatusInv' /\ BeginInv'
  BY <1>3 DEF IInv, StatusInv, BeginInv
<1>5. VerdictInv'
  BY <1>1, <1>3 DEF VerdictInv
<1>6. ProgressInv'
  <2> SUFFICES ASSUME NEW i \in 1..Len(turns')
               PROVE  /\ turns'[i].gen <= gen'
                      /\ turns'[i].gen = gen' =>
                           /\ worker'.pc = "ask" =>
                                \/ turns'[i].step < worker'.step
                                \/ turns'[i].step = worker'.step /\ turns'[i].try < worker'.try
                           /\ worker'.pc = "tools" => turns'[i].step <= worker'.step
    BY DEF ProgressInv
  <2>1. turns'[i].step \in Nat /\ turns'[i].try \in Nat /\ worker.step \in Nat /\ worker.try \in Nat
    <3>1. turns'[i] \in Turn
      BY <1>1
    <3>2. turns'[i].step \in 1..MaxRounds /\ turns'[i].try \in 0..Retries
      BY <3>1 DEF Turn
    <3>3. worker.step \in 1..MaxRounds /\ worker.try \in 0..Retries
      BY DEF IInv, TypeOK, Worker
    <3> QED BY <3>2, <3>3, Bounds
  <2>2. turns'[i].gen <= gen /\ (turns'[i].gen = gen =>
                 turns'[i].step < worker.step
                 \/ (turns'[i].step = worker.step /\ turns'[i].try <= worker.try))
    BY <1>1
  <2> QED BY <2>1, <2>2, <1>3
<1>7. ErrorInv' /\ OutcomeBacked'
  BY <1>3 DEF IInv, ErrorInv, OutcomeBacked, EnvironmentErrors
<1> QED BY <1>1, <1>2, <1>4, <1>5, <1>6, <1>7 DEF IInv

LEMMA StepModelFails ==
    ASSUME IInv, NEW code \in Faults, ModelFails(code) PROVE IInv'
<1> USE DEF ModelFails, Fail
<1>1. code \in EnvironmentErrors /\ code \in RunErrors
  BY FaultAssumption DEF EnvironmentErrors, RunErrors
<1>2. worker \in Worker /\ worker.try \in Nat /\ Retries \in Nat
  BY Bounds DEF IInv, TypeOK, Worker
<1>3. /\ worker' \in Worker
      /\ \/ worker'.pc = "fail" /\ worker'.fate = code
         \/ /\ worker'.pc = "ask" /\ worker'.step = worker.step
            /\ worker'.try = worker.try + 1 /\ worker'.fate = worker.fate
  <2>1. CASE worker.try >= Retries
    BY <2>1, <1>1, <1>2 DEF Worker
  <2>2. CASE ~(worker.try >= Retries)
    BY <2>2, <1>2 DEF Worker
  <2> QED BY <2>1, <2>2
<1>4. <<>> \in Seq(Call) /\ "nothing" \in Said
  BY DEF Said
<1>5. worker.fate = "none"
  BY DEF IInv, VerdictInv
<1> QED BY <1>1, <1>3, <1>4, <1>5, StepTurn

LEMMA StepModelBreaks == ASSUME IInv, ModelBreaks PROVE IInv'
<1> USE DEF ModelBreaks, Fail
<1>1. worker' \in Worker /\ worker'.pc = "fail" /\ worker'.fate = "INTERNAL_ERROR"
  BY DEF IInv, TypeOK, Worker, RunErrors
<1>2. <<>> \in Seq(Call) /\ "nothing" \in Said
  BY DEF Said
<1>3. worker'.fate \notin EnvironmentErrors
  BY <1>1 DEF EnvironmentErrors
<1> QED BY <1>1, <1>2, <1>3, StepTurn

LEMMA StepModelSays == ASSUME IInv, NEW said \in Said, ModelSays(said) PROVE IInv'
<1> USE DEF ModelSays, Fail
<1>1. worker \in Worker
  BY DEF IInv, TypeOK
<1>2. <<>> \in Seq(Call)
  OBVIOUS
<1>3. CASE said = "nothing"
  <2>1. worker' \in Worker /\ worker'.pc = "fail" /\ worker'.fate = "BAD_OUTPUT"
    BY <1>1, <1>3 DEF Worker, RunErrors
  <2>2. worker'.fate \notin EnvironmentErrors
    BY <2>1 DEF EnvironmentErrors
  <2> QED BY <1>2, <2>1, <2>2, StepTurn
<1>4. CASE said # "nothing"
  <2>1. worker' \in Worker /\ worker'.pc = "complete" /\ worker'.fate = "none"
    BY <1>1, <1>4 DEF Worker, IInv, VerdictInv
  <2> QED BY <1>2, <1>4, <2>1, StepTurn
<1> QED BY <1>3, <1>4

LEMMA StepModelCalls ==
    ASSUME IInv, NEW turn \in Turns, ModelCalls(turn.calls, turn.said) PROVE IInv'
<1> USE DEF ModelCalls
<1>1. turn.calls \in Seq(Call) /\ turn.said \in Said
  BY TurnAssumption DEF Said
<1>2. /\ worker' \in Worker /\ worker'.pc = "tools" /\ worker'.step = worker.step
      /\ worker'.fate = "none"
  BY <1>1 DEF IInv, TypeOK, Worker, VerdictInv
<1> QED BY <1>1, <1>2, StepTurn

\* A tool leaves the run row and the turns alone; its row is well formed.
LEMMA StepCallTool == ASSUME IInv, CallTool PROVE IInv'
<1> USE DEF CallTool, Fail
<1>1. worker \in Worker /\ worker.todo \in Seq(Call) /\ worker.todo # <<>>
  BY DEF IInv, TypeOK, Worker
<1>2. Head(worker.todo) \in Call /\ Tail(worker.todo) \in Seq(Call)
  BY <1>1
<1>3. RowOf(Head(worker.todo)) \in [step: 1..MaxRounds, call: Call]
  BY <1>1, <1>2 DEF RowOf, Normalized, Worker, Call
<1>4. \/ worker' = [worker EXCEPT !.todo = Tail(worker.todo)]
      \/ \E code \in {"BAD_OUTPUT", "TOOL_ERROR", "INTERNAL_ERROR"} :
            worker' = [worker EXCEPT !.pc = "fail", !.fate = code]
  BY DEF ToolError
<1>5. /\ worker' \in Worker
      /\ \/ worker'.pc = "tools" /\ worker'.step = worker.step /\ worker'.fate = worker.fate
         \/ worker'.pc = "fail" /\ worker'.fate \in {"BAD_OUTPUT", "TOOL_ERROR", "INTERNAL_ERROR"}
  BY <1>1, <1>2, <1>4 DEF Worker, RunErrors
<1>6. /\ rows' \subseteq [step: 1..MaxRounds, call: Call]
      /\ audits' \in Nat /\ blocked' \in BOOLEAN
  <2>1. rows \subseteq [step: 1..MaxRounds, call: Call] /\ audits \in Nat /\ blocked \in BOOLEAN
    BY DEF IInv, TypeOK
  <2>2. rows' = rows \/ rows' = rows \cup {RowOf(Head(worker.todo))}
    OBVIOUS
  <2>3. audits' = audits \/ audits' = audits + 1
    OBVIOUS
  <2>4. blocked' = blocked \/ blocked' = (blocked \/ IsAdjustment(Head(worker.todo)))
    BY Zenon
  <2> HIDE DEF CallTool
  <2>5. rows' \subseteq [step: 1..MaxRounds, call: Call]
    BY <1>3, <2>1, <2>2
  <2>6. audits' \in Nat
    BY <2>1, <2>3
  <2>7. blocked' \in BOOLEAN
    <3>1. CASE blocked' = blocked
      BY <2>1, <3>1, Zenon
    <3>2. CASE blocked' = (blocked \/ IsAdjustment(Head(worker.todo)))
      BY <2>1, <3>2, Zenon
    <3> QED BY <2>4, <3>1, <3>2, Zenon
  <2> QED BY <2>5, <2>6, <2>7, Zenon
<1>7. TypeOK'
  BY <1>5, <1>6 DEF IInv, TypeOK, record
<1>8. StatusInv' /\ BeginInv' /\ VerdictInv'
  BY <1>5 DEF IInv, StatusInv, BeginInv, VerdictInv, EnvironmentErrors, record
<1>9. ProgressInv'
  BY <1>5 DEF IInv, ProgressInv, record
<1> QED BY <1>7, <1>8, <1>9, TurnsKept DEF IInv

LEMMA StepNextStep == ASSUME IInv, NextStep PROVE IInv'
<1> USE DEF NextStep, Fail
<1>1. worker \in Worker /\ worker.step \in 1..MaxRounds
  BY DEF IInv, TypeOK, Worker
<1>2. /\ worker' \in Worker
      /\ \/ worker'.pc = "fail" /\ worker'.fate = "BAD_OUTPUT"
         \/ /\ worker'.pc = "begin" /\ worker'.step = worker.step + 1
            /\ worker'.try = 0 /\ worker'.fate = worker.fate
  <2>1. CASE worker.step = MaxRounds
    BY <1>1, <2>1 DEF Worker, RunErrors
  <2>2. CASE worker.step # MaxRounds
    <3>1. worker.step + 1 \in 1..MaxRounds /\ 0 \in 0..Retries
      BY <1>1, <2>2, Bounds
    <3>2. worker' = [worker EXCEPT !.pc = "begin", !.step = worker.step + 1, !.try = 0]
      BY <2>2
    <3> QED BY <1>1, <3>1, <3>2 DEF Worker
  <2> QED BY <2>1, <2>2
<1>3. TypeOK'
  BY <1>2 DEF IInv, TypeOK, record
<1>4. StatusInv' /\ BeginInv' /\ VerdictInv'
  BY <1>2 DEF IInv, StatusInv, BeginInv, VerdictInv, EnvironmentErrors, record
<1>5. ProgressInv'
  <2> SUFFICES ASSUME NEW i \in 1..Len(turns)
               PROVE  /\ turns[i].gen <= gen
                      /\ turns[i].gen = gen => (worker'.pc = "begin" => turns[i].step < worker'.step)
    BY <1>2 DEF ProgressInv, record
  <2>1. turns[i].step \in Nat /\ worker.step \in Nat
    BY <1>1, TurnTyped, Bounds DEF IInv
  <2> QED BY <1>2, <2>1 DEF IInv, ProgressInv
<1> QED BY <1>3, <1>4, <1>5, TurnsKept DEF IInv

\* The row ends with what the worker made up its mind to.
LEMMA StepFinish == ASSUME IInv, Finish PROVE IInv'
<1> USE DEF Finish
<1>1. Idle \in Worker /\ Idle.pc = "idle" /\ Idle.fate = "none"
  BY IdleTyped
<1>2. TypeOK'
  BY <1>1 DEF IInv, TypeOK, Worker
<1>3. StatusInv' /\ BeginInv' /\ VerdictInv' /\ ErrorInv'
  BY <1>1 DEF IInv, StatusInv, BeginInv, VerdictInv, ErrorInv
<1>4. ProgressInv' /\ TurnsInKeyOrder'
  BY <1>1 DEF IInv, ProgressInv, TurnsInKeyOrder, Before
<1>5. OutcomeBacked'
  BY DEF IInv, VerdictInv, OutcomeBacked, EnvironmentErrors
<1> QED BY <1>2, <1>3, <1>4, <1>5 DEF IInv

LEMMA StepLoseWorker == ASSUME IInv, LoseWorker PROVE IInv'
<1> USE DEF LoseWorker
<1>1. Idle \in Worker /\ Idle.pc = "idle" /\ Idle.fate = "none"
  BY IdleTyped
<1>2. TypeOK'
  BY <1>1 DEF IInv, TypeOK, RunErrors
<1>3. StatusInv' /\ BeginInv' /\ VerdictInv' /\ ErrorInv'
  BY <1>1 DEF IInv, StatusInv, BeginInv, VerdictInv, ErrorInv
<1>4. ProgressInv' /\ TurnsInKeyOrder'
  BY <1>1 DEF IInv, ProgressInv, TurnsInKeyOrder, Before
<1>5. OutcomeBacked'
  BY DEF IInv, ErrorInv, OutcomeBacked, EnvironmentErrors
<1> QED BY <1>2, <1>3, <1>4, <1>5 DEF IInv

LEMMA StepInv == IInv /\ [Next]_vars => IInv'
<1> SUFFICES ASSUME IInv, [Next]_vars PROVE IInv'
  OBVIOUS
<1>1. CASE UNCHANGED vars
  BY <1>1 DEF vars, IInv, TypeOK, StatusInv, ProgressInv, BeginInv, VerdictInv, ErrorInv,
              TurnsInKeyOrder, Before, OutcomeBacked
<1>2. CASE Claim
  BY <1>2, StepClaim
<1>3. CASE BeginStep
  BY <1>3, StepBegin
<1>4. CASE ModelBreaks
  BY <1>4, StepModelBreaks
<1>5. CASE CallTool
  BY <1>5, StepCallTool
<1>6. CASE NextStep
  BY <1>6, StepNextStep
<1>7. CASE Finish
  BY <1>7, StepFinish
<1>8. CASE LoseWorker
  BY <1>8, StepLoseWorker
<1>9. CASE \E code \in Faults : ModelFails(code)
  BY <1>9, StepModelFails
<1>10. CASE \E said \in Said : ModelSays(said)
  BY <1>10, StepModelSays
<1>11. CASE \E turn \in Turns : ModelCalls(turn.calls, turn.said)
  BY <1>11, StepModelCalls
<1> QED BY <1>1, <1>2, <1>3, <1>4, <1>5, <1>6, <1>7, <1>8, <1>9, <1>10, <1>11 DEF Next

LEMMA Invariance == Spec => []IInv
BY InitInv, StepInv, PTL DEF Spec

-----------------------------------------------------------------------------
\* The evidence of a run is well typed (model_turns, tool_calls, agent_runs), and no
\* attempt is numbered beyond llm_max_retries or max_rounds.
THEOREM TypeCorrect == Spec => []TypeOK
<1>1. IInv => TypeOK
  BY DEF IInv
<1> QED BY <1>1, Invariance, PTL

\* The identities under which record_model_turn writes are unique, and the order in
\* which export and parity check put the turns is that in which they happened.
THEOREM TurnsKeepTheirOrder == Spec => []TurnsInKeyOrder
<1>1. IInv => TurnsInKeyOrder
  BY DEF IInv
<1> QED BY <1>1, Invariance, PTL

\* What finish_run writes is what the last recorded turn shows: a completed run ends
\* with the answer of its last generation, an environment error with that error.
THEOREM OutcomeHasEvidence == Spec => []OutcomeBacked
<1>1. IInv => OutcomeBacked
  BY DEF IInv
<1> QED BY <1>1, Invariance, PTL

-----------------------------------------------------------------------------
(* The lineage of the rows, and of what the tools refused. *)

\* The calls the worker still has to make are calls of the turn it recorded last.
TodoInv ==
    worker.pc = "tools" =>
        /\ turns # <<>> /\ turns[Len(turns)].step = worker.step
        /\ \A k \in 1..Len(worker.todo) : \E m \in 1..Len(turns[Len(turns)].calls) :
              turns[Len(turns)].calls[m] = worker.todo[k]
\* Every row was asked for by a recorded call.
RowsInv == \A r \in rows : \E s \in CallSites : KeyOf(s) = r
\* The call that was refused has no row, and what refused it will refuse it for good.
Hopeless(call) ==
    /\ IsAdjustment(call)
    /\ \/ kind # "normal" \/ Meaning(call) # "adjust"
       \/ \E r \in rows : IsAdjustment(r.call)
BlockedInv ==
    blocked => \E s \in CallSites : Hopeless(CallAt(s)) /\ KeyOf(s) \notin rows

\* Only reads and the authorized adjustment have rows, the adjustment one in the whole run.
WriteInv ==
    /\ \A r \in rows : Meaning(r.call) \in {"read", "adjust"}
    /\ \A r, q \in rows : IsAdjustment(r.call) /\ IsAdjustment(q.call) => r = q
\* Who got as far as to have an outcome has recorded a turn; only the sweeper ends a run
\* without one.
EmptyInv ==
    turns = <<>> => worker.pc \in {"idle", "begin", "ask"} /\ (Ended => error = "MAX_RETRY")

LInv == IInv /\ TodoInv /\ RowsInv /\ BlockedInv /\ WriteInv /\ EmptyInv

LEMMA Site ==
    ASSUME NEW i \in 1..Len(turns), NEW m \in 1..Len(turns[i].calls)
    PROVE  /\ <<i, m>> \in CallSites /\ CallAt(<<i, m>>) = turns[i].calls[m]
           /\ KeyOf(<<i, m>>) = [step |-> turns[i].step, call |-> Normalized(turns[i].calls[m])]
BY DEF CallSites, CallAt, KeyOf

\* The row a call was executed under is one the exporter finds for it.
LEMMA KeyMatches ==
    ASSUME NEW s \in CallSites, KeyOf(s) \in rows
    PROVE  KeyOf(s) \in Matches(s)
BY DEF KeyOf, Matches, Meaning, Normalized

LEMMA SiteTyped ==
    ASSUME TypeOK, NEW s \in CallSites
    PROVE  CallAt(s) \in Call
<1>1. PICK i \in 1..Len(turns) : s \in {i} \X (1..Len(turns[i].calls))
  BY DEF CallSites
<1>2. PICK m \in 1..Len(turns[i].calls) : s = <<i, m>>
  BY <1>1
<1>3. turns[i].calls \in Seq(Call)
  BY TurnTyped DEF Turn
<1> QED
  BY <1>2, <1>3 DEF CallAt

\* Of two calls one comes first.
LEMMA TwoSites ==
    ASSUME NEW e \in CallSites, NEW s \in CallSites, e # s
    PROVE  \/ ~(e[1] > s[1] \/ (e[1] = s[1] /\ e[2] >= s[2]))
           \/ ~(s[1] > e[1] \/ (s[1] = e[1] /\ s[2] >= e[2]))
<1>1. PICK i \in 1..Len(turns) : s \in {i} \X (1..Len(turns[i].calls))
  BY DEF CallSites
<1>2. PICK m \in 1..Len(turns[i].calls) : s = <<i, m>>
  BY <1>1
<1>3. PICK j \in 1..Len(turns) : e \in {j} \X (1..Len(turns[j].calls))
  BY DEF CallSites
<1>4. PICK n \in 1..Len(turns[j].calls) : e = <<j, n>>
  BY <1>3
<1> QED
  BY <1>2, <1>4

\* What is on record stays where it is.
LEMMA SitesStay ==
    ASSUME TypeOK, turns' = turns \/ \E t : turns' = Append(turns, t), NEW s \in CallSites
    PROVE  s \in CallSites' /\ CallAt(s)' = CallAt(s) /\ KeyOf(s)' = KeyOf(s)
<1>1. PICK i \in 1..Len(turns) : s \in {i} \X (1..Len(turns[i].calls))
  BY DEF CallSites
<1>2. PICK m \in 1..Len(turns[i].calls) : s = <<i, m>>
  BY <1>1
<1>3. i \in 1..Len(turns') /\ turns'[i] = turns[i]
  BY DEF TypeOK
<1>4. s \in CallSites'
  BY <1>2, <1>3 DEF CallSites
<1> QED
  BY <1>2, <1>3, <1>4 DEF CallAt, KeyOf

\* Steps that call no tool.
LEMMA RowsStay ==
    ASSUME LInv, turns' = turns \/ \E t : turns' = Append(turns, t),
           UNCHANGED <<kind, rows, blocked>>
    PROVE  RowsInv' /\ BlockedInv' /\ WriteInv'
<1>1. TypeOK
  BY DEF LInv, IInv
<1>2. RowsInv'
  <2> SUFFICES ASSUME NEW r \in rows PROVE \E s \in CallSites' : KeyOf(s)' = r
    BY DEF RowsInv
  <2>1. PICK s \in CallSites : KeyOf(s) = r
    BY DEF LInv, RowsInv
  <2> QED
    BY <1>1, <2>1, SitesStay
<1>3. BlockedInv'
  <2> SUFFICES ASSUME blocked
               PROVE  \E s \in CallSites' : Hopeless(CallAt(s))' /\ KeyOf(s)' \notin rows
    BY DEF BlockedInv
  <2>1. PICK s \in CallSites : Hopeless(CallAt(s)) /\ KeyOf(s) \notin rows
    BY DEF LInv, BlockedInv
  <2>2. s \in CallSites' /\ CallAt(s)' = CallAt(s) /\ KeyOf(s)' = KeyOf(s)
    BY <1>1, <2>1, SitesStay
  <2> QED
    BY <2>1, <2>2 DEF Hopeless
<1>4. WriteInv'
  BY DEF LInv, WriteInv
<1> QED
  BY <1>2, <1>3, <1>4

\* A call that runs is a read or the authorized adjustment, and so is its row.
LEMMA Executed ==
    ASSUME NEW call \in Call, ToolError(call) = "none"
    PROVE  /\ RowOf(call).call \in Call /\ Meaning(RowOf(call).call) = Meaning(call)
           /\ IsAdjustment(RowOf(call).call) = IsAdjustment(call)
           /\ Meaning(call) \in {"read", "adjust"}
           /\ IsAdjustment(call) => Authorized(call)
<1>1. call \notin {"garbled", "no_number", "unknown"} /\ (IsAdjustment(call) => Authorized(call))
  BY DEF ToolError
<1>2. RowOf(call).call = Normalized(call)
  BY DEF RowOf
<1>3. call \in {"read", "read_respelled", "adjust", "adjust_respelled", "adjust_short", "overreach"}
  BY <1>1 DEF Call
<1>4. call # "overreach"
  BY <1>1 DEF Authorized, IsAdjustment, Meaning, Normalized
<1> QED
  BY <1>1, <1>2, <1>3, <1>4 DEF Normalized, Meaning, IsAdjustment, Call

LEMMA TodoHead ==
    ASSUME LInv, worker.pc = "tools", worker.todo # <<>>
    PROVE  /\ \E s \in CallSites : /\ CallAt(s) = Head(worker.todo)
                                   /\ KeyOf(s) = RowOf(Head(worker.todo))
           /\ Head(worker.todo) \in Call
           /\ Len(worker.todo) \in Nat /\ Len(Tail(worker.todo)) = Len(worker.todo) - 1
           /\ \A k \in 1..Len(Tail(worker.todo)) :
                 /\ k + 1 \in 1..Len(worker.todo)
                 /\ Tail(worker.todo)[k] = worker.todo[k + 1]
<1>1. worker.todo \in Seq(Call) /\ turns \in Seq(Turn) /\ turns # <<>>
  BY DEF LInv, IInv, TypeOK, Worker, TodoInv
<1>2. Len(turns) \in 1..Len(turns) /\ 1 \in 1..Len(worker.todo) /\ Head(worker.todo) = worker.todo[1]
  BY <1>1
<1>3. PICK m \in 1..Len(turns[Len(turns)].calls) : turns[Len(turns)].calls[m] = Head(worker.todo)
  BY <1>2 DEF LInv, TodoInv
<1>4. turns[Len(turns)].step = worker.step
  BY DEF LInv, TodoInv
<1>5. /\ <<Len(turns), m>> \in CallSites /\ CallAt(<<Len(turns), m>>) = Head(worker.todo)
      /\ KeyOf(<<Len(turns), m>>) = RowOf(Head(worker.todo))
  BY <1>2, <1>3, <1>4, Site DEF RowOf
<1> QED
  BY <1>1, <1>5

LEMMA CallToolLineage == ASSUME LInv, CallTool PROVE LInv'
<1>1. IInv'
  BY StepInv DEF LInv, Next
<1>2. /\ worker.pc = "tools" /\ worker.todo # <<>> /\ worker \in Worker
      /\ UNCHANGED <<kind, record, events, turns>>
  BY DEF CallTool, LInv, IInv, TypeOK
<1> DEFINE call == Head(worker.todo)
<1>3. PICK site \in CallSites : CallAt(site) = call /\ KeyOf(site) = RowOf(call)
  BY <1>2, TodoHead
<1>4. CallSites' = CallSites /\ \A s : CallAt(s)' = CallAt(s) /\ KeyOf(s)' = KeyOf(s)
  BY <1>2 DEF CallSites, CallAt, KeyOf
<1>5. TodoInv'
  <2>1. CASE worker'.pc # "tools"
    BY <2>1 DEF TodoInv
  <2>2. CASE worker' = [worker EXCEPT !.todo = Tail(@)]
    <3>1. worker'.todo = Tail(worker.todo) /\ worker'.step = worker.step
      BY <1>2, <2>2 DEF Worker
    <3>2. /\ turns' = turns /\ turns # <<>> /\ turns[Len(turns)].step = worker.step
          /\ \A k \in 1..Len(worker.todo) : \E m \in 1..Len(turns[Len(turns)].calls) :
                turns[Len(turns)].calls[m] = worker.todo[k]
      BY <1>2 DEF LInv, TodoInv
    <3>3. \A k \in 1..Len(worker'.todo) : \E m \in 1..Len(turns[Len(turns)].calls) :
                turns[Len(turns)].calls[m] = worker'.todo[k]
      BY <1>2, <3>1, <3>2, TodoHead
    <3> QED
      BY <3>1, <3>2, <3>3 DEF TodoInv
  <2>3. worker'.pc = "fail" \/ worker' = [worker EXCEPT !.todo = Tail(@)]
    BY <1>2 DEF CallTool, Fail, Worker
  <2> QED
    BY <2>1, <2>2, <2>3
<1>6. call \in Call
  BY <1>2, TodoHead
<1>7. EmptyInv'
  BY <1>2 DEF LInv, TodoInv, EmptyInv
<1>8. CASE rows' = rows /\ blocked' = blocked
  <2>1. RowsInv' /\ BlockedInv' /\ WriteInv'
    BY <1>2, <1>8, RowsStay
  <2> QED
    BY <1>1, <1>5, <1>7, <2>1 DEF LInv
<1>9. CASE ToolError(call) = "none" /\ rows' = rows \cup {RowOf(call)} /\ blocked' = blocked
  <2> DEFINE row == RowOf(call)
  <2>0. /\ Meaning(row.call) = Meaning(call) /\ Meaning(call) \in {"read", "adjust"}
        /\ IsAdjustment(row.call) = IsAdjustment(call)
        /\ IsAdjustment(call) => Authorized(call)
    BY <1>6, <1>9, Executed
  <2> HIDE DEF call, row
  <2>1. RowsInv'
    BY <1>3, <1>4, <1>9 DEF LInv, RowsInv, row
  <2>2. BlockedInv'
    <3> SUFFICES ASSUME blocked
                 PROVE  \E s \in CallSites' : Hopeless(CallAt(s))' /\ KeyOf(s)' \notin rows'
      BY <1>9 DEF BlockedInv
    <3>1. PICK s \in CallSites : Hopeless(CallAt(s)) /\ KeyOf(s) \notin rows
      BY DEF LInv, BlockedInv
    <3>2. Hopeless(CallAt(s))'
      BY <1>2, <1>4, <1>9, <3>1 DEF Hopeless
    <3>3. KeyOf(s) # row
      <4> SUFFICES ASSUME KeyOf(s) = row PROVE FALSE
        OBVIOUS
      <4>1. Normalized(CallAt(s)) = Normalized(call)
        BY DEF KeyOf, RowOf, row
      <4>2. Meaning(CallAt(s)) = Meaning(call)
        BY <4>1 DEF Meaning
      <4>3. IsAdjustment(call)
        BY <3>1, <4>1 DEF Hopeless, IsAdjustment, Normalized
      <4> QED
        BY <2>0, <3>1, <4>2, <4>3 DEF Authorized, Hopeless
    <3> QED
      BY <1>4, <1>9, <3>1, <3>2, <3>3 DEF row
  <2>3. WriteInv'
    <3>1. \A r \in rows' : r \in rows \/ r = row
      BY <1>9 DEF row
    <3>2. \A r \in rows' : Meaning(r.call) \in {"read", "adjust"}
      BY <2>0, <3>1 DEF LInv, WriteInv
    <3>3. ASSUME NEW r \in rows', NEW q \in rows', IsAdjustment(r.call), IsAdjustment(q.call)
          PROVE  r = q
      BY <2>0, <3>1, <3>3 DEF LInv, WriteInv, Authorized
    <3> QED
      BY <3>2, <3>3 DEF WriteInv
  <2> QED
    BY <1>1, <1>5, <1>7, <2>1, <2>2, <2>3 DEF LInv
<1>10. CASE /\ RowOf(call) \notin rows /\ ToolError(call) # "none" /\ rows' = rows
            /\ blocked' = (blocked \/ IsAdjustment(call))
  <2>1. RowsInv' /\ WriteInv'
    BY <1>4, <1>10 DEF LInv, RowsInv, WriteInv
  <2>2. CASE ~IsAdjustment(call)
    <3>1. blocked' = blocked
      BY <1>10, <2>2 DEF LInv, IInv, TypeOK
    <3>2. BlockedInv'
      BY <1>2, <1>10, <3>1, RowsStay
    <3> QED
      BY <1>1, <1>5, <1>7, <2>1, <3>2 DEF LInv
  <2>3. CASE IsAdjustment(call)
    <3>1. Hopeless(call)
      <4>1. call = "no_number" \/ ~Authorized(call)
        BY <1>6, <1>10, <2>3 DEF ToolError, IsAdjustment
      <4>2. call = "no_number" => Meaning(call) # "adjust"
        BY DEF Meaning, Normalized
      <4> QED
        BY <2>3, <4>1, <4>2 DEF Authorized, Hopeless
    <3>2. Hopeless(CallAt(site))' /\ KeyOf(site)' \notin rows'
      BY <1>2, <1>3, <1>4, <1>10, <3>1 DEF Hopeless
    <3>3. BlockedInv'
      BY <1>4, <3>2 DEF BlockedInv
    <3> QED
      BY <1>1, <1>5, <1>7, <2>1, <3>3 DEF LInv
  <2> QED
    BY <2>2, <2>3
<1> QED
  BY <1>8, <1>9, <1>10 DEF CallTool

LEMMA LineageStep == ASSUME LInv, [Next]_vars PROVE LInv'
<1>1. IInv'
  BY StepInv DEF LInv
<1>2. TypeOK
  BY DEF LInv, IInv
<1>3. CASE CallTool
  BY <1>3, CallToolLineage
<1>4. CASE \E turn \in Turns : ModelCalls(turn.calls, turn.said)
  <2>1. PICK turn \in Turns : ModelCalls(turn.calls, turn.said)
    BY <1>4
  <2> DEFINE t == [gen |-> gen, step |-> worker.step, try |-> worker.try,
                   calls |-> turn.calls, said |-> turn.said, error |-> "none"]
  <2>2. /\ turns' = Append(turns, t) /\ UNCHANGED <<kind, rows, blocked>>
        /\ worker'.todo = turn.calls /\ worker'.step = worker.step
    BY <1>2, <2>1 DEF ModelCalls, Recorded, TypeOK, Worker
  <2>3. RowsInv' /\ BlockedInv' /\ WriteInv'
    BY <2>2, RowsStay
  <2>4. turns' # <<>> /\ turns'[Len(turns')] = t
    BY <1>2, <2>2 DEF TypeOK
  <2>5. t.step = worker.step /\ t.calls = turn.calls
    OBVIOUS
  <2> HIDE DEF t
  <2>6. TodoInv' /\ EmptyInv'
    BY <2>2, <2>4, <2>5 DEF TodoInv, EmptyInv
  <2> QED
    BY <1>1, <2>3, <2>6 DEF LInv
<1>5. CASE /\ worker'.pc # "tools" /\ UNCHANGED <<kind, rows, blocked>>
           /\ turns' = turns \/ \E t : turns' = Append(turns, t)
           /\ EmptyInv'
  <2>1. TodoInv'
    BY <1>5 DEF TodoInv
  <2>2. RowsInv' /\ BlockedInv' /\ WriteInv'
    BY <1>5, RowsStay
  <2> QED
    BY <1>1, <1>5, <2>1, <2>2 DEF LInv
<1>6. CASE UNCHANGED vars
  BY <1>1, <1>6 DEF vars, LInv, TodoInv, RowsInv, BlockedInv, WriteInv, EmptyInv, Ended,
                    Hopeless, CallSites, CallAt, KeyOf
<1>7. Idle.pc = "idle" /\ worker \in Worker
  BY <1>2, IdleTyped DEF TypeOK
<1>8. CASE Claim \/ BeginStep \/ NextStep \/ Finish \/ LoseWorker
  <2>1. worker'.pc # "tools"
    BY <1>7, <1>8 DEF Claim, Idle, BeginStep, NextStep, Fail, Finish, LoseWorker, Worker
  <2>2. EmptyInv'
    <3> SUFFICES ASSUME turns = <<>>
                 PROVE  worker'.pc \in {"idle", "begin", "ask"} /\ (Ended' => error' = "MAX_RETRY")
      BY <1>8 DEF EmptyInv, Claim, BeginStep, NextStep, Finish, LoseWorker
    <3>1. worker.pc \in {"idle", "begin", "ask"} /\ (Ended => error = "MAX_RETRY")
      BY DEF LInv, EmptyInv
    <3>2. ~NextStep /\ ~Finish
      BY <3>1 DEF NextStep, Finish
    <3> QED
      BY <1>7, <1>8, <3>1, <3>2 DEF Claim, Idle, BeginStep, LoseWorker, Ended, record, Worker
  <2> QED
    BY <1>5, <1>8, <2>1, <2>2 DEF Claim, BeginStep, NextStep, Finish, LoseWorker
<1>9. CASE ModelBreaks \/ (\E code \in Faults : ModelFails(code)) \/ \E said \in Said : ModelSays(said)
  <2>1. worker'.pc # "tools"
    BY <1>7, <1>9 DEF ModelBreaks, ModelFails, ModelSays, Fail, Worker
  <2>2. \E t : turns' = Append(turns, t)
    BY <1>9 DEF ModelBreaks, ModelFails, ModelSays, Recorded
  <2>3. EmptyInv'
    <3>1. PICK t : turns' = Append(turns, t)
      BY <2>2
    <3>2. turns \in Seq(Turn)
      BY <1>2 DEF TypeOK
    <3>3. Len(turns') = Len(turns) + 1 /\ Len(turns) \in Nat
      BY <3>1, <3>2
    <3>4. turns' # <<>>
      BY <3>3
    <3> QED
      BY <3>4 DEF EmptyInv
  <2> QED
    BY <1>5, <1>9, <2>1, <2>2, <2>3 DEF ModelBreaks, ModelFails, ModelSays
<1> QED
  BY <1>3, <1>4, <1>6, <1>8, <1>9 DEF Next

LEMMA LineageInit == Init => LInv
<1> SUFFICES ASSUME Init PROVE LInv
  OBVIOUS
<1>1. worker.pc = "idle" /\ rows = {} /\ ~blocked /\ ~Ended
  BY IdleTyped DEF Init, Ended
<1> QED
  BY <1>1, InitInv DEF LInv, TodoInv, RowsInv, BlockedInv, WriteInv, EmptyInv

LEMMA LineageInvariance == Spec => []LInv
BY LineageInit, LineageStep, PTL DEF Spec

\* What can stop reconstruct_trajectory on the record of a run that ended, whatever was
\* lost, requeued, replayed, abbreviated or respelled: a record without turns, and then the
\* sweeper had given the run up; arguments that are no JSON object; two reads of one step in
\* two spellings.  Never a duplicate identity, never a row without a call, never two rows for
\* a budget write.
THEOREM LineageIsKept == Spec => []LineageHolds
<1>1. LInv => LineageHolds
  <2> SUFFICES ASSUME LInv, Ended, ReconstructionError
               PROVE  (NoTurns /\ error = "MAX_RETRY") \/ GarbledArguments \/ RespelledRead
    BY DEF LineageHolds
  <2>1. ~DuplicateIdentity
    <3> SUFFICES ASSUME NEW i \in 1..Len(turns), NEW j \in 1..Len(turns), i # j
                 PROVE  Before(turns[i], turns[j]) \/ Before(turns[j], turns[i])
      BY DEF DuplicateIdentity
    <3>1. i < j \/ j < i
      OBVIOUS
    <3> QED
      BY <3>1 DEF LInv, IInv, TurnsInKeyOrder
  <2>2. ~UnmatchedRow
    <3> SUFFICES ASSUME NEW r \in rows PROVE \E s \in CallSites : r \in Matches(s)
      BY DEF UnmatchedRow
    <3>1. PICK s \in CallSites : KeyOf(s) = r
      BY DEF LInv, RowsInv
    <3> QED
      BY <3>1, KeyMatches
  <2>3. CASE NoTurns
    <3>1. error = "MAX_RETRY"
      BY <2>3 DEF NoTurns, LInv, EmptyInv
    <3> QED
      BY <2>3, <3>1
  <2>4. CASE AmbiguousLineage
    <3>1. PICK s \in CallSites : \E r, q \in Matches(s) : r # q
      BY <2>4 DEF AmbiguousLineage
    <3>2. PICK r, q \in Matches(s) : r # q
      BY <3>1
    <3>3. /\ r \in rows /\ q \in rows /\ r.step = q.step
          /\ Meaning(r.call) = Meaning(q.call)
      BY <3>2 DEF Matches
    <3>4. r.call \in Call /\ q.call \in Call
      BY <3>3 DEF LInv, IInv, TypeOK
    <3>5. Meaning(r.call) # "adjust"
      <4> SUFFICES ASSUME Meaning(r.call) = "adjust" PROVE FALSE
        OBVIOUS
      <4>1. IsAdjustment(r.call) /\ IsAdjustment(q.call)
        BY <3>3, <3>4 DEF Meaning, Normalized, IsAdjustment, Call
      <4> QED
        BY <3>2, <3>3, <4>1 DEF LInv, WriteInv
    <3>6. Meaning(r.call) = "read" /\ Meaning(q.call) = "read"
      BY <3>3, <3>5 DEF LInv, WriteInv
    <3> QED
      BY <3>2, <3>3, <3>6 DEF RespelledRead
  <2> QED
    BY <2>1, <2>2, <2>3, <2>4 DEF ReconstructionError
<1> QED BY <1>1, LineageInvariance, PTL

\* A run whose adjustment the tools refused leaves a call behind that has no row, or shares
\* it with the call it was executed for: one adjustment stays without a row, and
\* classify_run never makes the run a positive example.
THEOREM RefusalsAreNotRewarded == Spec => []RefusalNotRewarded
<1>1. LInv => RefusalNotRewarded
  <2> SUFFICES ASSUME LInv, blocked PROVE Classification.eligibility # "positive"
    BY DEF RefusalNotRewarded
  <2>1. PICK s \in CallSites : IsAdjustment(CallAt(s)) /\ KeyOf(s) \notin rows
    BY DEF LInv, BlockedInv, Hopeless
  <2>2. DangerousIntent
    <3>1. CASE Matches(s) = {}
      BY <2>1, <3>1 DEF DangerousIntent, Linked
    <3>2. CASE Matches(s) # {}
      <4>1. PICK r \in rows : r.step = turns[s[1]].step /\ Meaning(r.call) = Meaning(CallAt(s))
        BY <3>2 DEF Matches
      <4>2. PICK e \in CallSites : KeyOf(e) = r
        BY DEF LInv, RowsInv
      <4>3. r.step = turns[e[1]].step /\ Meaning(r.call) = Meaning(CallAt(e))
        BY <4>2, KeyMatches DEF Matches
      <4>4. Matches(e) = Matches(s)
        BY <4>1, <4>3 DEF Matches
      <4>5. CallAt(e) \in Call /\ CallAt(s) \in Call
        BY SiteTyped DEF LInv, IInv
      <4>6. IsAdjustment(CallAt(e))
        BY <2>1, <4>1, <4>3, <4>5 DEF IsAdjustment, Meaning, Normalized, Call
      <4>7. e # s
        BY <2>1, <4>2
      <4>8. ~Linked(s) \/ ~Linked(e)
        BY <4>4, <4>7, TwoSites DEF Linked
      <4> QED
        BY <2>1, <4>6, <4>8 DEF DangerousIntent
    <3> QED
      BY <3>1, <3>2
  <2>3. \A owner, label, eligibility : Verdict(owner, label, eligibility).eligibility = eligibility
    BY DEF Verdict
  <2>4. Environment.eligibility # "positive"
    BY <2>3 DEF Environment
  <2>5. Safety.eligibility # "positive"
    BY <2>2, <2>3 DEF Safety
  <2>6. Normal.eligibility # "positive"
    BY <2>2, <2>3 DEF Normal
  <2> QED
    BY <2>3, <2>4, <2>5, <2>6 DEF Classification
<1> QED BY <1>1, LineageInvariance, PTL
=============================================================================
