------------------------------ MODULE CreateRun ------------------------------
(***************************************************************************)
(* POST /runs.  A request is one PostgreSQL transaction in the API: with   *)
(* an Idempotency-Key it takes the advisory lock of the key's hash, looks  *)
(* the key up, and answers with the run it finds; otherwise it inserts the *)
(* run, its first event, its outbox job and the key together, commits and  *)
(* answers.  A client that got no answer sends the same key again, so any  *)
(* number of requests with one key may be in flight, in any API process,   *)
(* each of which may die.                                                  *)
(***************************************************************************)
EXTENDS Integers, FiniteSets

CONSTANTS
    Requests,   \* POSTs
    Keys,       \* Idempotency-Keys
    NoKey,      \* a POST without the header, or with an empty one
    KeyOf,      \* KeyOf[q]: the key that request q carries
    HashOf,     \* HashOf[k]: hashtextextended(k, 0)
    Nobody,     \* a lock that is free
    NoRun       \* no run

ASSUME RequestsAssumption ==
    /\ KeyOf \in [Requests -> Keys \cup {NoKey}] /\ NoKey \notin Keys
    /\ Nobody \notin Requests /\ NoRun \notin Requests

\* new_run_id never repeats a value: the run that request q creates is called q.
Runs == Requests
\* HashOf need not be injective: two keys may share a lock.
Locks == {HashOf[k] : k \in Keys}

VARIABLES
    pc,        \* pc[q]: where the transaction of request q is
    answer,    \* answer[q]: the run that q was answered with, or NoRun
    advisory,  \* advisory[l]: the request that holds advisory lock l
    keys,      \* idempotency_keys: keys[k] is the run of key k, or NoRun
    runs,      \* committed agent_runs, each with its event and its outbox job
    inserted   \* inserted[q]: q has flushed its rows and not committed them

vars == <<pc, answer, advisory, keys, runs, inserted>>

Phases == {"new", "locked", "absent", "inserted", "answered", "error", "dead"}

TypeOK ==
    /\ pc \in [Requests -> Phases]
    /\ answer \in [Requests -> Runs \cup {NoRun}]
    /\ advisory \in [Locks -> Requests \cup {Nobody}]
    /\ keys \in [Keys -> Runs \cup {NoRun}]
    /\ runs \subseteq Runs
    /\ inserted \in [Requests -> BOOLEAN]

-----------------------------------------------------------------------------

Goes(q, phase) == pc' = [pc EXCEPT ![q] = phase]

\* The end of a transaction frees its pg_advisory_xact_lock, whatever the end.
Unlocked_AfterInsert(q) ==
    advisory' = [l \in Locks |-> IF advisory[l] = q /\ inserted[q] THEN Nobody ELSE advisory[l]]
Unlocked(q) ==
    advisory' = [l \in Locks |-> IF advisory[l] = q THEN Nobody ELSE advisory[l]]

LockFree_None(l) == TRUE
LockFree(l) == advisory[l] = Nobody

\* pg_advisory_xact_lock waits until the lock is free.
TakeLock(q) ==
    /\ pc[q] = "new"
    /\ IF KeyOf[q] = NoKey
       THEN Goes(q, "absent") /\ UNCHANGED advisory
       ELSE /\ LockFree(HashOf[KeyOf[q]])
            /\ Goes(q, "locked")
            /\ advisory' = [advisory EXCEPT ![HashOf[KeyOf[q]]] = q]
    /\ UNCHANGED <<answer, keys, runs, inserted>>

\* The SELECT of the key, a statement of its own: it sees what was committed
\* before the lock was granted.
Found(q) == keys[KeyOf[q]] # NoRun

LookUp(q) ==
    /\ pc[q] = "locked"
    /\ IF Found(q)
       THEN /\ Goes(q, "answered")
            /\ answer' = [answer EXCEPT ![q] = keys[KeyOf[q]]]
            /\ Unlocked(q)
       ELSE Goes(q, "absent") /\ UNCHANGED <<answer, advisory>>
    /\ UNCHANGED <<keys, runs, inserted>>

\* The flush.  The primary key of idempotency_keys makes the INSERT wait for a
\* transaction that has inserted the same key, and fail if that one commits.
Rivals(q) == {p \in Requests \ {q} : KeyOf[p] = KeyOf[q] /\ inserted[p]}
KeyTaken(q) == KeyOf[q] # NoKey /\ keys[KeyOf[q]] # NoRun

Insert(q) ==
    /\ pc[q] = "absent"
    /\ KeyOf[q] # NoKey => Rivals(q) = {}
    /\ IF KeyTaken(q)
       THEN Goes(q, "error") /\ Unlocked(q) /\ UNCHANGED inserted
       ELSE /\ Goes(q, "inserted")
            /\ inserted' = [inserted EXCEPT ![q] = TRUE]
            /\ UNCHANGED advisory
    /\ UNCHANGED <<answer, keys, runs>>

\* The rows become visible together; the answer follows the commit.
KeyRow_Forgotten(q) == keys
KeyRow_Always(q) == [k \in Keys \cup {KeyOf[q]} |-> IF k = KeyOf[q] THEN q ELSE keys[k]]
KeyRow(q) == IF KeyOf[q] = NoKey THEN keys ELSE [keys EXCEPT ![KeyOf[q]] = q]

Commit(q) ==
    /\ pc[q] = "inserted"
    /\ runs' = runs \cup {q}
    /\ keys' = KeyRow(q)
    /\ inserted' = [inserted EXCEPT ![q] = FALSE]
    /\ answer' = [answer EXCEPT ![q] = q]
    /\ Goes(q, "answered")
    /\ Unlocked(q)

\* The API process dies before the commit, or after it and before the answer
\* has left; in the second case the client knows no more than in the first.
DieBefore(q) ==
    /\ pc[q] \in {"new", "locked", "absent", "inserted"}
    /\ Goes(q, "dead")
    /\ inserted' = [inserted EXCEPT ![q] = FALSE]
    /\ Unlocked(q)
    /\ UNCHANGED <<answer, keys, runs>>

DieUnheard(q) ==
    /\ pc[q] = "answered"
    /\ Goes(q, "dead")
    /\ answer' = [answer EXCEPT ![q] = NoRun]
    /\ UNCHANGED <<advisory, keys, runs, inserted>>

-----------------------------------------------------------------------------

Init ==
    /\ pc = [q \in Requests |-> "new"] /\ answer = [q \in Requests |-> NoRun]
    /\ advisory = [l \in Locks |-> Nobody] /\ keys = [k \in Keys |-> NoRun]
    /\ runs = {} /\ inserted = [q \in Requests |-> FALSE]

Transaction(q) == TakeLock(q) \/ LookUp(q) \/ Insert(q) \/ Commit(q)
Death(q) == DieBefore(q) \/ DieUnheard(q)

Next == \E q \in Requests : Transaction(q) \/ Death(q)

\* A transaction that is not interrupted goes on; PostgreSQL grants a free lock to
\* every waiter in turn.
Spec == Init /\ [][Next]_vars
FairSpec == Spec /\ \A q \in Requests : SF_vars(TakeLock(q)) /\ WF_vars(Transaction(q))

-----------------------------------------------------------------------------
(* Properties *)

\* One run for a key, however many requests carry it and whichever of them die, every
\* answer with it, and no answer before its commit: create_run is IdempotentPost.
Unanswered == {q \in Requests : pc[q] \in {"new", "locked", "absent", "inserted"}}
Post == INSTANCE IdempotentPost WITH open <- Unanswered
ImplementsPost == Post!Spec

\* No request fails on the primary key of idempotency_keys: its lock makes a second
\* request wait and find the run of the first.
NoDuplicateKey == \A q \in Requests : pc[q] # "error"

\* No request waits for ever, also when the holder of its lock dies.
RequestsEnd == \A q \in Requests : <>(pc[q] \in {"answered", "error", "dead"})
==============================================================================
