---------------------------- MODULE RunContract -----------------------------
(***************************************************************************)
(* What Harness-Lab promises about a run, whoever executes it and whatever *)
(* dies: it is executed at most MaxAttempts times, one execution at a time *)
(* as far as PostgreSQL is concerned, an execution never stays in          *)
(* "running" for ever, and it ends once, as completed or as failed.  The   *)
(* one thing the program does not promise is to find a delivery again that *)
(* a worker took from Redis and died with: such a run may stay queued.     *)
(***************************************************************************)
EXTENDS Naturals

CONSTANTS Runs, MaxAttempts

VARIABLES status, attempt, lost

vars == <<status, attempt, lost>>

Init ==
    /\ status = [r \in Runs |-> "absent"]
    /\ attempt = [r \in Runs |-> 0]
    /\ lost = {}

Submit(r) ==
    /\ status[r] = "absent"
    /\ status' = [status EXCEPT ![r] = "queued"]
    /\ UNCHANGED <<attempt, lost>>

Execute(r) ==
    /\ status[r] = "queued" /\ attempt[r] < MaxAttempts
    /\ status' = [status EXCEPT ![r] = "running"]
    /\ attempt' = [attempt EXCEPT ![r] = @ + 1]
    /\ UNCHANGED lost

End(r, outcome) ==
    /\ status[r] = "running"
    /\ status' = [status EXCEPT ![r] = outcome]
    /\ UNCHANGED <<attempt, lost>>

\* Executions given up by their worker: another one if any is left, or failed.
GiveUp(given) ==
    /\ given # {} /\ \A r \in given : status[r] = "running"
    /\ status' = [r \in Runs |-> IF r \notin given THEN status[r]
                                 ELSE IF attempt[r] < MaxAttempts THEN "queued" ELSE "failed"]
    /\ UNCHANGED <<attempt, lost>>

Lose(r) ==
    /\ status[r] = "queued"
    /\ lost' = lost \cup {r}
    /\ UNCHANGED <<status, attempt>>

Leave(r) ==
    \/ \E outcome \in {"completed", "failed"} : End(r, outcome)
    \/ \E given \in SUBSET Runs : r \in given /\ GiveUp(given)

Next == \E r \in Runs : Submit(r) \/ Execute(r) \/ Leave(r) \/ Lose(r)

\* A queued run that is not lost is executed, an execution is left.
Spec == /\ Init /\ [][Next]_vars
        /\ \A r \in Runs : WF_vars(r \notin lost /\ Execute(r)) /\ WF_vars(Leave(r))
=============================================================================
