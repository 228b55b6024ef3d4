--------------------------- MODULE IdempotentPost ---------------------------
(***************************************************************************)
(* What POST /runs promises its clients, whoever serves them and whatever  *)
(* dies: of all the requests with one Idempotency-Key one may create a run,*)
(* and every other one is answered with that run, or with nothing.  A      *)
(* request without a key creates a run of its own.  An answer may be lost  *)
(* on its way; the run it named stays.                                     *)
(***************************************************************************)

CONSTANTS Requests, NoKey, KeyOf, NoRun

VARIABLES
    open,     \* requests that are neither answered nor failed
    answer,   \* answer[q]: the run that request q was answered with, or NoRun
    runs      \* the runs that exist, each named after the request that created it

vars == <<open, answer, runs>>

Init == open = Requests /\ answer = [q \in Requests |-> NoRun] /\ runs = {}

\* The runs that were created with the key of q.
Known(q) == {p \in runs : KeyOf[p] = KeyOf[q] /\ KeyOf[q] # NoKey}

Closed(q) == q \in open /\ open' = open \ {q}
Answered(q, run) == answer' = [answer EXCEPT ![q] = run]

Create(q) == Closed(q) /\ Known(q) = {} /\ runs' = runs \cup {q} /\ Answered(q, q)

Repeat(q) == Closed(q) /\ (\E p \in Known(q) : Answered(q, p)) /\ UNCHANGED runs

Fail(q) == Closed(q) /\ UNCHANGED <<answer, runs>>

LoseAnswer(q) == Answered(q, NoRun) /\ UNCHANGED <<open, runs>>

Next == \E q \in Requests : Create(q) \/ Repeat(q) \/ Fail(q) \/ LoseAnswer(q)

Spec == Init /\ [][Next]_vars
=============================================================================
