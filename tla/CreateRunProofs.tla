--------------------------- MODULE CreateRunProofs ---------------------------
(***************************************************************************)
(* Proofs about CreateRun, for every set of requests, keys and hashes.     *)
(***************************************************************************)
EXTENDS CreateRun, TLAPS

Working == {"locked", "absent", "inserted"}

\* A keyed request that has been granted its lock holds it until its transaction ends.
HoldsLock ==
    \A q \in Requests : pc[q] \in Working /\ KeyOf[q] # NoKey => advisory[HashOf[KeyOf[q]]] = q

\* Only a request with a key reaches the lookup.
LookUpIsKeyed == \A q \in Requests : pc[q] = "locked" => KeyOf[q] # NoKey

\* While a request that found no run is at work, nobody commits its key.
StillAbsent ==
    \A q \in Requests :
      pc[q] \in {"absent", "inserted"} /\ KeyOf[q] # NoKey => keys[KeyOf[q]] = NoRun

\* The rows of idempotency_keys and the runs that were created with a key are the same.
KeyRowsAreRuns ==
    /\ \A k \in Keys : keys[k] # NoRun => keys[k] \in runs /\ KeyOf[keys[k]] = k
    /\ \A r \in runs : KeyOf[r] # NoKey => keys[KeyOf[r]] = r

\* Every answer is the run of the key.
AnswersAreRows ==
    \A q \in Requests : answer[q] # NoRun =>
      answer[q] \in runs /\ (KeyOf[q] # NoKey => answer[q] = keys[KeyOf[q]])

IInv ==
    /\ TypeOK /\ HoldsLock /\ LookUpIsKeyed /\ StillAbsent
    /\ KeyRowsAreRuns /\ AnswersAreRows /\ NoDuplicateKey

\* The transaction that found no run keeps every other keyed request of its key
\* out until it ends: the lock has one holder.
LEMMA OneAtWork ==
    ASSUME HoldsLock, NEW p \in Requests, NEW q \in Requests,
           KeyOf[p] = KeyOf[q], KeyOf[p] # NoKey, pc[p] \in Working, pc[q] \in Working
    PROVE  p = q
BY DEF HoldsLock

LEMMA InvInit == Init => IInv
BY RequestsAssumption DEF Init, IInv, TypeOK, HoldsLock, LookUpIsKeyed, StillAbsent, KeyRowsAreRuns,
   AnswersAreRows, NoDuplicateKey, Working, Phases, Runs

\* What the end of the transaction of q does to the locks of the others: nothing.
LEMMA UnlockedLocks ==
    ASSUME TypeOK, HoldsLock, NEW q \in Requests, Unlocked(q)
    PROVE  /\ advisory' \in [Locks -> Requests \cup {Nobody}]
           /\ \A p \in Requests \ {q} : pc[p] \in Working /\ KeyOf[p] # NoKey =>
                advisory'[HashOf[KeyOf[p]]] = p
<1>1. advisory' \in [Locks -> Requests \cup {Nobody}]
  BY DEF Unlocked, TypeOK
<1>2. ASSUME NEW p \in Requests \ {q}, pc[p] \in Working, KeyOf[p] # NoKey
      PROVE  advisory'[HashOf[KeyOf[p]]] = p
  <2>1. HashOf[KeyOf[p]] \in Locks
    BY <1>2, RequestsAssumption DEF Locks
  <2>2. QED
    BY <1>2, <2>1 DEF Unlocked, HoldsLock
<1>3. QED
  BY <1>1, <1>2

LEMMA TakeLockStep ==
    ASSUME IInv, NEW q \in Requests, TakeLock(q)
    PROVE  IInv'
<1>1. CASE KeyOf[q] = NoKey
  BY <1>1 DEF IInv, TypeOK, HoldsLock, LookUpIsKeyed, StillAbsent, KeyRowsAreRuns, AnswersAreRows,
     NoDuplicateKey, TakeLock, Goes, Working, Phases
<1>2. CASE KeyOf[q] # NoKey
  <2>1. HashOf[KeyOf[q]] \in Locks
    BY <1>2, RequestsAssumption DEF Locks
  <2>2. /\ advisory[HashOf[KeyOf[q]]] = Nobody
        /\ pc' = [pc EXCEPT ![q] = "locked"]
        /\ advisory' = [advisory EXCEPT ![HashOf[KeyOf[q]]] = q]
        /\ UNCHANGED <<answer, keys, runs, inserted>>
    BY <1>2 DEF TakeLock, LockFree, Goes
  <2>3. TypeOK'
    BY <2>2 DEF IInv, TypeOK, Phases
  <2>4. HoldsLock'
    <3>1. ASSUME NEW p \in Requests, pc'[p] \in Working, KeyOf[p] # NoKey
          PROVE  advisory'[HashOf[KeyOf[p]]] = p
      <4>1. CASE p = q
        BY <4>1, <2>1, <2>2 DEF IInv, TypeOK
      <4>2. CASE p # q
        <5>1. pc[p] \in Working /\ HashOf[KeyOf[p]] \in Locks
          BY <3>1, <4>2, <2>2, RequestsAssumption DEF IInv, TypeOK, Locks
        <5>2. advisory[HashOf[KeyOf[p]]] = p
          BY <3>1, <5>1 DEF IInv, HoldsLock
        <5>3. HashOf[KeyOf[p]] # HashOf[KeyOf[q]]
          BY <5>2, <2>2, RequestsAssumption
        <5>4. QED
          BY <5>1, <5>2, <5>3, <2>2 DEF IInv, TypeOK
      <4>3. QED
        BY <4>1, <4>2
    <3>2. QED
      BY <3>1 DEF HoldsLock
  <2>5. LookUpIsKeyed' /\ StillAbsent' /\ KeyRowsAreRuns' /\ AnswersAreRows' /\ NoDuplicateKey'
    BY <1>2, <2>2 DEF IInv, TypeOK, LookUpIsKeyed, StillAbsent, KeyRowsAreRuns, AnswersAreRows, NoDuplicateKey
  <2>6. QED
    BY <2>3, <2>4, <2>5 DEF IInv
<1>3. QED
  BY <1>1, <1>2

LEMMA LookUpStep ==
    ASSUME IInv, NEW q \in Requests, LookUp(q)
    PROVE  IInv'
<1>0. pc[q] = "locked" /\ KeyOf[q] # NoKey
  BY DEF LookUp, IInv, LookUpIsKeyed
<1>1. CASE Found(q)
  <2>1. /\ pc' = [pc EXCEPT ![q] = "answered"]
        /\ answer' = [answer EXCEPT ![q] = keys[KeyOf[q]]]
        /\ Unlocked(q) /\ UNCHANGED <<keys, runs, inserted>>
    BY <1>1 DEF LookUp, Goes
  <2>2. KeyOf[q] \in Keys /\ keys[KeyOf[q]] \in runs
    BY <1>0, <1>1, RequestsAssumption DEF Found, IInv, KeyRowsAreRuns
  <2>3. TypeOK'
    BY <2>1, <2>2, UnlockedLocks DEF IInv, TypeOK, Phases
  <2>4. HoldsLock'
    BY <2>1, UnlockedLocks DEF IInv, TypeOK, HoldsLock, Working
  <2>5. AnswersAreRows'
    BY <2>1, <2>2 DEF IInv, TypeOK, AnswersAreRows
  <2>6. LookUpIsKeyed' /\ StillAbsent' /\ KeyRowsAreRuns' /\ NoDuplicateKey'
    BY <2>1 DEF IInv, TypeOK, LookUpIsKeyed, StillAbsent, KeyRowsAreRuns, NoDuplicateKey
  <2>7. QED
    BY <2>3, <2>4, <2>5, <2>6 DEF IInv
<1>2. CASE ~Found(q)
  BY <1>0, <1>2 DEF LookUp, Found, Goes, IInv, TypeOK, HoldsLock, LookUpIsKeyed, StillAbsent, KeyRowsAreRuns,
     AnswersAreRows, NoDuplicateKey, Working, Phases
<1>3. QED
  BY <1>1, <1>2

LEMMA InsertStep ==
    ASSUME IInv, NEW q \in Requests, Insert(q)
    PROVE  IInv'
<1>1. ~KeyTaken(q)
  BY DEF Insert, KeyTaken, IInv, StillAbsent
<1>2. /\ pc[q] = "absent" /\ pc' = [pc EXCEPT ![q] = "inserted"]
      /\ inserted' = [inserted EXCEPT ![q] = TRUE]
      /\ UNCHANGED <<answer, advisory, keys, runs>>
  BY <1>1 DEF Insert, Goes
<1>3. QED
  BY <1>2 DEF IInv, TypeOK, HoldsLock, LookUpIsKeyed, StillAbsent, KeyRowsAreRuns, AnswersAreRows,
     NoDuplicateKey, Working, Phases

LEMMA CommitStep ==
    ASSUME IInv, NEW q \in Requests, Commit(q)
    PROVE  IInv'
<1>1. /\ pc[q] = "inserted" /\ pc' = [pc EXCEPT ![q] = "answered"]
      /\ runs' = runs \cup {q} /\ keys' = KeyRow(q)
      /\ inserted' = [inserted EXCEPT ![q] = FALSE]
      /\ answer' = [answer EXCEPT ![q] = q] /\ Unlocked(q)
  BY DEF Commit, Goes
<1>2. /\ KeyOf[q] # NoKey => KeyOf[q] \in Keys /\ keys[KeyOf[q]] = NoRun
      /\ \A k \in Keys : keys'[k] = IF k = KeyOf[q] THEN q ELSE keys[k]
  BY <1>1, RequestsAssumption DEF KeyRow, IInv, TypeOK, StillAbsent
<1>3. TypeOK'
  BY <1>1, UnlockedLocks DEF IInv, TypeOK, KeyRow, Runs, Phases
<1>4. HoldsLock'
  BY <1>1, UnlockedLocks DEF IInv, TypeOK, HoldsLock, Working
<1>5. StillAbsent'
  <2>1. ASSUME NEW p \in Requests, pc'[p] \in {"absent", "inserted"}, KeyOf[p] # NoKey
        PROVE  keys'[KeyOf[p]] = NoRun
    <3>1. p # q /\ pc[p] \in {"absent", "inserted"} /\ KeyOf[p] \in Keys
      BY <1>1, <2>1, RequestsAssumption DEF IInv, TypeOK
    <3>2. KeyOf[p] # KeyOf[q]
      BY <3>1, <2>1, <1>1, OneAtWork DEF IInv, Working
    <3>3. QED
      BY <3>1, <3>2, <2>1, <1>2 DEF IInv, StillAbsent
  <2>2. QED
    BY <2>1 DEF StillAbsent
<1>6. KeyRowsAreRuns'
  <2>1. ASSUME NEW k \in Keys, keys'[k] # NoRun
        PROVE  keys'[k] \in runs' /\ KeyOf[keys'[k]] = k
    BY <2>1, <1>1, <1>2 DEF IInv, KeyRowsAreRuns
  <2>2. ASSUME NEW r \in runs', KeyOf[r] # NoKey
        PROVE  keys'[KeyOf[r]] = r
    <3>1. r \in Requests /\ KeyOf[r] \in Keys
      BY <2>2, <1>1, RequestsAssumption DEF IInv, TypeOK, Runs
    <3>2. CASE r = q
      BY <3>1, <3>2, <1>2
    <3>3. CASE r # q
      <4>1. keys[KeyOf[r]] = r
        BY <3>3, <2>2, <1>1 DEF IInv, KeyRowsAreRuns
      <4>2. KeyOf[r] # KeyOf[q]
        BY <4>1, <2>2, <3>1, <1>2, RequestsAssumption
      <4>3. QED
        BY <4>1, <4>2, <3>1, <1>2
    <3>4. QED
      BY <3>2, <3>3
  <2>3. QED
    BY <2>1, <2>2 DEF KeyRowsAreRuns
<1>7. AnswersAreRows'
  <2>1. ASSUME NEW p \in Requests, answer'[p] # NoRun
        PROVE  answer'[p] \in runs' /\ (KeyOf[p] # NoKey => answer'[p] = keys'[KeyOf[p]])
    <3>1. CASE p = q
      BY <3>1, <1>1, <1>2 DEF IInv, TypeOK
    <3>2. CASE p # q
      <4>1. answer'[p] = answer[p] /\ answer[p] \in runs
        BY <3>2, <2>1, <1>1 DEF IInv, TypeOK, AnswersAreRows
      <4>2. ASSUME KeyOf[p] # NoKey
            PROVE  KeyOf[p] \in Keys /\ keys[KeyOf[p]] = answer[p]
        BY <4>1, <4>2, <2>1, RequestsAssumption DEF IInv, AnswersAreRows
      <4>3. ASSUME KeyOf[p] # NoKey
            PROVE  KeyOf[p] # KeyOf[q]
        BY <4>1, <4>2, <4>3, <2>1, <1>2
      <4>4. QED
        BY <4>1, <4>2, <4>3, <1>1, <1>2
    <3>3. QED
      BY <3>1, <3>2
  <2>2. QED
    BY <2>1 DEF AnswersAreRows
<1>8. LookUpIsKeyed' /\ NoDuplicateKey'
  BY <1>1 DEF IInv, TypeOK, LookUpIsKeyed, NoDuplicateKey
<1>9. QED
  BY <1>3, <1>4, <1>5, <1>6, <1>7, <1>8 DEF IInv

LEMMA DeathStep ==
    ASSUME IInv, NEW q \in Requests, Death(q)
    PROVE  IInv'
<1>1. CASE DieBefore(q)
  <2>1. /\ pc' = [pc EXCEPT ![q] = "dead"] /\ inserted' = [inserted EXCEPT ![q] = FALSE]
        /\ Unlocked(q) /\ UNCHANGED <<answer, keys, runs>>
    BY <1>1 DEF DieBefore, Goes
  <2>2. TypeOK' /\ HoldsLock'
    BY <2>1, UnlockedLocks DEF IInv, TypeOK, HoldsLock, Working, Phases
  <2>3. LookUpIsKeyed' /\ StillAbsent' /\ KeyRowsAreRuns' /\ AnswersAreRows' /\ NoDuplicateKey'
    BY <2>1 DEF IInv, TypeOK, LookUpIsKeyed, StillAbsent, KeyRowsAreRuns, AnswersAreRows, NoDuplicateKey
  <2>4. QED
    BY <2>2, <2>3 DEF IInv
<1>2. CASE DieUnheard(q)
  BY <1>2 DEF DieUnheard, Goes, IInv, TypeOK, HoldsLock, LookUpIsKeyed, StillAbsent, KeyRowsAreRuns,
     AnswersAreRows, NoDuplicateKey, Working, Phases
<1>3. QED
  BY <1>1, <1>2 DEF Death

LEMMA InvNext == IInv /\ [Next]_vars => IInv'
<1> SUFFICES ASSUME IInv, [Next]_vars PROVE IInv'
  OBVIOUS
<1>1. ASSUME NEW q \in Requests, Transaction(q)
      PROVE  IInv'
  BY <1>1, TakeLockStep, LookUpStep, InsertStep, CommitStep DEF Transaction
<1>2. ASSUME NEW q \in Requests, Death(q)
      PROVE  IInv'
  BY <1>2, DeathStep
<1>3. CASE UNCHANGED vars
  BY <1>3 DEF vars, IInv, TypeOK, HoldsLock, LookUpIsKeyed, StillAbsent, KeyRowsAreRuns,
     AnswersAreRows, NoDuplicateKey
<1>4. QED
  BY <1>1, <1>2, <1>3 DEF Next

THEOREM Invariance == Spec => []IInv
BY InvInit, InvNext, PTL DEF Spec

-----------------------------------------------------------------------------

\* Every variable of POST /runs keeps its type, whatever the keys and their hashes are.
THEOREM TypeCorrect == Spec => []TypeOK
<1>1. IInv => TypeOK
  BY DEF IInv
<1>2. QED
  BY <1>1, Invariance, PTL

-----------------------------------------------------------------------------
(* The refinement *)

\* The runs IdempotentPost knows for a request are those that the key row names.
LEMMA KnownRuns ==
    ASSUME IInv, NEW q \in Requests
    PROVE  /\ KeyOf[q] # NoKey /\ keys[KeyOf[q]] = NoRun => Post!Known(q) = {}
           /\ KeyOf[q] # NoKey /\ keys[KeyOf[q]] # NoRun => keys[KeyOf[q]] \in Post!Known(q)
           /\ KeyOf[q] = NoKey => Post!Known(q) = {}
<1>1. KeyOf[q] # NoKey => KeyOf[q] \in Keys
  BY RequestsAssumption
<1>2. \A r \in runs : KeyOf[r] # NoKey => keys[KeyOf[r]] = r /\ r # NoRun
  BY RequestsAssumption DEF IInv, TypeOK, Runs, KeyRowsAreRuns
<1>3. KeyOf[q] # NoKey /\ keys[KeyOf[q]] # NoRun
        => keys[KeyOf[q]] \in runs /\ KeyOf[keys[KeyOf[q]]] = KeyOf[q]
  BY <1>1 DEF IInv, KeyRowsAreRuns
<1>4. QED
  BY <1>2, <1>3 DEF Post!Known

\* A request that ends is no longer open, and no other one is opened or ends with it.
LEMMA EndsOpen ==
    ASSUME TypeOK, NEW q \in Requests, q \in Unanswered,
           NEW phase \in {"answered", "error", "dead"}, Goes(q, phase)
    PROVE  Post!Closed(q)
BY DEF Post!Closed, Unanswered, TypeOK, Goes

LEMMA TransactionRefines ==
    ASSUME IInv, NEW q \in Requests, Transaction(q)
    PROVE  [Post!Next]_Post!vars
<1>1. CASE TakeLock(q)
  <2>1. pc[q] = "new" /\ (Goes(q, "absent") \/ Goes(q, "locked")) /\ UNCHANGED <<answer, runs>>
    BY <1>1 DEF TakeLock
  <2>2. UNCHANGED Unanswered
    BY <2>1 DEF IInv, TypeOK, Unanswered, Goes
  <2>3. QED
    BY <2>1, <2>2 DEF Post!vars
<1>2. CASE LookUp(q)
  <2>1. q \in Unanswered /\ KeyOf[q] # NoKey /\ UNCHANGED runs
    BY <1>2 DEF LookUp, Unanswered, IInv, LookUpIsKeyed
  <2>2. CASE Found(q)
    <3>1. Goes(q, "answered") /\ answer' = [answer EXCEPT ![q] = keys[KeyOf[q]]]
      BY <1>2, <2>2 DEF LookUp
    <3>2. Post!Closed(q)
      BY <2>1, <3>1, EndsOpen DEF IInv
    <3>3. keys[KeyOf[q]] \in Post!Known(q)
      BY <2>1, <2>2, KnownRuns DEF Found
    <3>4. Post!Repeat(q)
      BY <2>1, <3>1, <3>2, <3>3 DEF Post!Repeat, Post!Answered
    <3>5. QED
      BY <3>4 DEF Post!Next
  <2>3. CASE ~Found(q)
    <3>1. pc[q] = "locked" /\ Goes(q, "absent") /\ UNCHANGED answer
      BY <1>2, <2>3 DEF LookUp
    <3>2. UNCHANGED Unanswered
      BY <3>1 DEF IInv, TypeOK, Unanswered, Goes
    <3>3. QED
      BY <2>1, <3>1, <3>2 DEF Post!vars
  <2>4. QED
    BY <2>2, <2>3
<1>3. CASE Insert(q)
  <2>1. pc[q] = "absent" /\ Goes(q, "inserted") /\ UNCHANGED <<answer, runs>>
    BY <1>3 DEF Insert, KeyTaken, IInv, StillAbsent
  <2>2. UNCHANGED Unanswered
    BY <2>1 DEF IInv, TypeOK, Unanswered, Goes
  <2>3. QED
    BY <2>1, <2>2 DEF Post!vars
<1>4. CASE Commit(q)
  <2>1. /\ q \in Unanswered /\ pc[q] = "inserted" /\ Goes(q, "answered")
        /\ runs' = runs \cup {q} /\ answer' = [answer EXCEPT ![q] = q]
    BY <1>4 DEF Commit, Unanswered
  <2>2. Post!Closed(q)
    BY <2>1, EndsOpen DEF IInv
  <2>3. Post!Known(q) = {}
    BY <2>1, KnownRuns DEF IInv, StillAbsent
  <2>4. Post!Create(q)
    BY <2>1, <2>2, <2>3 DEF Post!Create, Post!Answered
  <2>5. QED
    BY <2>4 DEF Post!Next
<1>5. QED
  BY <1>1, <1>2, <1>3, <1>4 DEF Transaction

LEMMA DeathRefines ==
    ASSUME IInv, NEW q \in Requests, Death(q)
    PROVE  [Post!Next]_Post!vars
<1>1. CASE DieBefore(q)
  <2>1. q \in Unanswered /\ Goes(q, "dead") /\ UNCHANGED <<answer, runs>>
    BY <1>1 DEF DieBefore, Unanswered
  <2>2. Post!Closed(q)
    BY <2>1, EndsOpen DEF IInv
  <2>3. QED
    BY <2>1, <2>2 DEF Post!Fail, Post!Next
<1>2. CASE DieUnheard(q)
  <2>1. /\ pc[q] = "answered" /\ Goes(q, "dead") /\ UNCHANGED runs
        /\ answer' = [answer EXCEPT ![q] = NoRun]
    BY <1>2 DEF DieUnheard
  <2>2. UNCHANGED Unanswered
    BY <2>1 DEF IInv, TypeOK, Unanswered, Goes
  <2>3. QED
    BY <2>1, <2>2 DEF Post!LoseAnswer, Post!Answered, Post!Next
<1>3. QED
  BY <1>1, <1>2 DEF Death

\* create_run is what IdempotentPost promises: of the requests with one key one creates
\* a run, and the others are answered with it, also when hashes collide and API
\* processes die at any point.
THEOREM Idempotent == Spec => ImplementsPost
<1>1. Init => Post!Init
  BY DEF Init, Post!Init, Unanswered
<1>2. IInv /\ [Next]_vars => [Post!Next]_Post!vars
  <2>1. ASSUME IInv, UNCHANGED vars
        PROVE  [Post!Next]_Post!vars
    BY <2>1 DEF vars, Post!vars, Unanswered
  <2>2. QED
    BY <2>1, TransactionRefines, DeathRefines DEF Next
<1>3. QED
  BY <1>1, <1>2, Invariance, PTL DEF Spec, ImplementsPost, Post!Spec

\* One run for a key, however many requests carry it and whichever of them die.
OneRunPerKey ==
    \A p, q \in runs : KeyOf[p] = KeyOf[q] /\ KeyOf[p] # NoKey => p = q

\* Every answer names a run that exists, and the same one for the same key.
SameAnswer ==
    /\ \A q \in Requests : answer[q] # NoRun => answer[q] \in runs
    /\ \A p, q \in Requests :
         KeyOf[p] = KeyOf[q] /\ KeyOf[p] # NoKey /\ answer[p] # NoRun /\ answer[q] # NoRun
           => answer[p] = answer[q]

\* create_run makes one run for a key, for any number of requests and deaths and also
\* when the hashes of different keys collide.
THEOREM OneRun == Spec => []OneRunPerKey
<1>1. IInv => OneRunPerKey
  BY DEF IInv, KeyRowsAreRuns, OneRunPerKey
<1>2. QED
  BY <1>1, Invariance, PTL

\* Requests with one key are answered with one run, and that run exists.
THEOREM OneAnswer == Spec => []SameAnswer
<1>1. IInv => SameAnswer
  BY DEF IInv, AnswersAreRows, SameAnswer
<1>2. QED
  BY <1>1, Invariance, PTL

\* The advisory lock keeps every request from failing on the primary key of
\* idempotency_keys.
THEOREM NeverDuplicate == Spec => []NoDuplicateKey
<1>1. IInv => NoDuplicateKey
  BY DEF IInv
<1>2. QED
  BY <1>1, Invariance, PTL
==============================================================================
