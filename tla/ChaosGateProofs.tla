--------------------------- MODULE ChaosGateProofs ---------------------------
(***************************************************************************)
(* Machine-checked facts about ChaosGate, for any number of trials, runs,  *)
(* attempts and faults: what a gate that passes has seen, what the script  *)
(* leaves behind, and that the experiments do not disturb one another.     *)
(***************************************************************************)
EXTENDS ChaosGate, TLAPS, FiniteSetTheorems

RunRec ==
    [home: {"none"} \cup Databases, status: {"absent", "queued", "running", "completed", "failed"},
     gen: 0..MaxAttempts, live: BOOLEAN, paused: BOOLEAN, tool: BOOLEAN, audits: 0..1,
     retried: BOOLEAN, row: {"none", "pending", "published", "dispatched"},
     known: BOOLEAN, waiting: BOOLEAN, dark: BOOLEAN, orphan: BOOLEAN]

VerifierRec ==
    [pc: VerifierPcs, stage: Stages \cup {"end"}, n: Nat, trials: SUBSET (1..Candidates),
     passed: SUBSET Stages, seen: SUBSET Runs, exited: BOOLEAN, pending: BOOLEAN,
     why: {"none", "dispatch"}]

Between == {"quiet", "queue", "outbox"}
\* Which stage goes with which place in the verifier's code.
Places(s) ==
    CASE s = "crash" -> {"off", "begin", "setup", "candidate", "post", "watch", "kill", "rescale",
                         "wait", "record", "judge"} \cup Between
      [] s = "dispatch" -> {"setup", "post", "await_crash", "crash_row", "repair", "wait", "row",
                            "judge"} \cup Between
      [] s = "outage" -> {"setup", "post", "observe", "start_redis", "resume", "wait",
                          "judge"} \cup Between
      [] s = "sse" -> {"setup", "post", "stream", "compare", "wait", "judge"} \cup Between
      [] s = "end" -> {"reset", "leaked", "write"} \cup Between
      [] OTHER -> {"setup", "post", "wait", "judge"} \cup Between
\* Before the first run of a stage is posted, and where a candidate of EXP-1 is under way.
Unposted == {"off", "begin", "setup", "reset", "leaked", "write"} \cup Between
OnTrial == {"post", "watch", "kill", "rescale", "wait", "record"}

Shape(x) ==
    /\ x.pc \in Places(x.stage)
    /\ x.pc \in {"off", "begin"} => x.trials = {} /\ x.passed = {}
    /\ x.pc # "off" => x.why = "none"
    /\ x.pc \in Unposted => x.n = 0
    /\ x.stage = "end" \/ x.n \in 0..Count(x.stage)
    /\ x.pc = "post" => x.n < Count(x.stage)
    /\ x.stage = "crash" /\ x.pc \in OnTrial \ {"post"} => x.n >= 1
    /\ x.stage # "crash" => x.pc \in Unposted \cup {"post"} \/ x.n = Count(x.stage)
    /\ x.pc \in Unposted \cup {"post", "await_crash", "observe"} => ~x.pending
    /\ x.pc \in (Unposted \ {"off"}) \cup {"post", "await_crash"} => ~x.exited
    /\ x.pc # "off" /\ x.stage = "crash" => ~x.pending /\ ~x.exited
    /\ Cardinality(x.trials) <= Trials
    /\ x.stage = "crash" /\ x.pc \in OnTrial => Cardinality(x.trials) < Trials

ServiceTypes ==
    /\ plane \in [Services -> Databases] /\ redis \in BOOLEAN
    /\ fleet \in [size: {0, 1, 4}, pause: BOOLEAN]
    /\ dispatcher \in [up: BOOLEAN, crash: BOOLEAN, restart: BOOLEAN]
    /\ marker \in BOOLEAN /\ proxy \in {"off", "clean", "429", "timeout"}

\* A run that was not posted has nothing, one that is queued has an attempt left.
Sound(r) ==
    /\ r \in RunRec
    /\ r.home = "none" \/ r.status = "absent" => r = Absent
    /\ r.status = "queued" => r.gen < MaxAttempts
    /\ r.live => r.status = "running"
    /\ r.paused => r.live
RunTypes == run \in [Runs -> RunRec] /\ \A k \in Runs : Sound(run[k])

GateTypes ==
    /\ v \in VerifierRec /\ Shape(v) /\ script \in ScriptPcs
    /\ report \subseteq {"failure", "gate"} /\ stray \in BOOLEAN /\ faults \in 0..MaxFaults

TypeInv == ServiceTypes /\ RunTypes /\ GateTypes

-----------------------------------------------------------------------------
(* Stages and runs                                                           *)

LEMMA Sizes ==
  /\ Trials \in Nat \ {0} /\ Candidates \in Nat \ {0} /\ Outage \in Nat \ {0} /\ Batch \in Nat \ {0}
  /\ MaxAttempts \in Nat \ {0} /\ MaxFaults \in Nat /\ Trials <= Candidates
BY SizesAssumption

LEMMA Counts ==
  /\ \A s \in Stages : Count(s) \in Nat \ {0}
  /\ Count("crash") = Candidates /\ Count("dispatch") = 1 /\ Count("outage") = Outage
  /\ \A s \in Stages \ {"crash", "dispatch", "outage"} : Count(s) = Batch
BY Sizes DEF Count, Stages

LEMMA RankValues ==
  /\ Rank("crash") = 1 /\ Rank("dispatch") = 2 /\ Rank("outage") = 3 /\ Rank("normal") = 4
  /\ Rank("429") = 5 /\ Rank("timeout") = 6 /\ Rank("one") = 7 /\ Rank("four") = 8
  /\ Rank("sse") = 9 /\ Rank("end") = 10
BY DEF Rank

LEMMA Ranks ==
  /\ \A s \in Stages \cup {"end"} : Rank(s) \in 1..10
  /\ \A s, t \in Stages \cup {"end"} : Rank(s) = Rank(t) => s = t
  /\ \A s \in Stages : Rank(s) < Rank("end") /\ Rank("crash") <= Rank(s)
BY RankValues DEF Stages

LEMMA NextStages ==
  ASSUME NEW s \in Stages
  PROVE  /\ NextStage(s) \in Stages \cup {"end"} /\ Rank(NextStage(s)) = Rank(s) + 1
         /\ NextStage(s) = "end" <=> s = "sse"
<1>1. \E t \in Stages \cup {"end"} : Rank(t) = Rank(s) + 1
  <2>1. "end" \in Stages \cup {"end"} /\ Stages \subseteq Stages \cup {"end"}
    OBVIOUS
  <2>2. /\ "dispatch" \in Stages /\ "outage" \in Stages /\ "normal" \in Stages /\ "429" \in Stages
        /\ "timeout" \in Stages /\ "one" \in Stages /\ "four" \in Stages /\ "sse" \in Stages
    BY DEF Stages
  <2>3. Rank(s) + 1 \in {2, 3, 4, 5, 6, 7, 8, 9, 10}
    BY RankValues DEF Stages
  <2> QED
    BY <2>1, <2>2, <2>3, RankValues
<1>2. NextStage(s) \in Stages \cup {"end"} /\ Rank(NextStage(s)) = Rank(s) + 1
  BY <1>1 DEF NextStage
<1>3. NextStage(s) = "end" <=> s = "sse"
  BY <1>2, Ranks, RankValues DEF Stages
<1> QED
  BY <1>2, <1>3

LEMMA RunIs ==
  ASSUME NEW k
  PROVE  k \in Runs <=> \E s \in Stages : \E i \in 1..Count(s) : k = <<s, i>>
<1>1. ASSUME NEW s \in Stages, NEW i \in 1..Count(s), k = <<s, i>> PROVE k \in Runs
  <2>1. k \in {s} \X (1..Count(s))
    BY <1>1
  <2> QED
    BY <2>1 DEF Runs
<1>2. k \in Runs => \E s \in Stages : k \in {s} \X (1..Count(s))
  BY DEF Runs
<1> QED
  BY <1>1, <1>2

LEMMA RunParts ==
  ASSUME NEW k \in Runs
  PROVE  k[1] \in Stages /\ k[2] \in 1..Count(k[1]) /\ k[2] \in Nat /\ k = <<k[1], k[2]>>
<1>1. PICK s \in Stages : \E i \in 1..Count(s) : k = <<s, i>>
  BY RunIs
<1>2. PICK i \in 1..Count(s) : k = <<s, i>>
  BY <1>1
<1>3. i \in Nat
  BY Counts
<1> QED
  BY <1>2, <1>3
-----------------------------------------------------------------------------
(* What a step does to a run                                                 *)

Finished(r) == r.status \in {"completed", "failed"}
\* What has not been handed to Redis has not been claimed, and what waits there waits for its
\* first claim since.
Known(r) == /\ r.status \notin {"absent", "queued"} => r.known
            /\ r.waiting => r.known /\ r.status = "queued"
\* Nothing is left to do for it.
Over(r) == Finished(r) /\ ~r.waiting /\ r.row \notin {"pending", "published"}

\* What is on record of a run stays, and so does how it ended.
Lasts(r, t) ==
    /\ Sound(t) /\ t.home = r.home /\ t.dark = r.dark
    /\ r.retried => t.retried
    /\ r.orphan => t.orphan
    /\ Finished(r) => t.status = r.status /\ t.gen = r.gen /\ t.audits = r.audits
Evolves(r, t) == /\ Lasts(r, t)
                 /\ Known(r) => Known(t)
                 /\ Over(r) => t = r

LEMMA AbsentIs == Absent \in RunRec /\ Sound(Absent) /\ Known(Absent)
BY Sizes DEF Absent, RunRec, Sound, Known, Databases

LEMMA Same == ASSUME NEW r, Sound(r) PROVE Evolves(r, r)
BY DEF Evolves, Lasts

\* The work horse of a run is gone.
LEMMA DeadEvolves ==
  ASSUME NEW r, Sound(r)
  PROVE  Evolves(r, [r EXCEPT !.live = FALSE, !.paused = FALSE])
<1> DEFINE t == [r EXCEPT !.live = FALSE, !.paused = FALSE]
<1>1. r \in RunRec
  BY DEF Sound
<1>2. r = Absent => t = r
  <2> SUFFICES ASSUME r = Absent PROVE t = r
    OBVIOUS
  <2>1. r.live = FALSE /\ r.paused = FALSE
    BY DEF Absent
  <2> QED
    BY <1>1, <2>1 DEF RunRec
<1>3. /\ t \in RunRec /\ t.home = r.home /\ t.dark = r.dark /\ t.retried = r.retried
      /\ t.orphan = r.orphan /\ t.status = r.status /\ t.gen = r.gen /\ t.audits = r.audits
      /\ t.known = r.known /\ t.waiting = r.waiting /\ t.live = FALSE /\ t.paused = FALSE
  BY <1>1 DEF RunRec
<1>4. Over(r) => t = r
  BY <1>1 DEF Over, Finished, Sound, RunRec
<1> HIDE DEF t
<1>5. Sound(t)
  BY <1>2, <1>3 DEF Sound
<1>6. Lasts(r, t) /\ (Known(r) => Known(t))
  BY <1>3, <1>5 DEF Lasts, Known, Finished
<1> QED
  BY <1>4, <1>6 DEF Evolves, t

\* The dispatcher's open transaction is gone.
RowBack(r) == IF r.row = "published" THEN [r EXCEPT !.row = "pending"] ELSE r
LEMMA BackEvolves ==
  ASSUME NEW r, Sound(r)
  PROVE  Evolves(r, RowBack(r))
<1>1. CASE r.row # "published"
  BY <1>1, Same DEF RowBack
<1>2. CASE r.row = "published"
  <2> DEFINE t == [r EXCEPT !.row = "pending"]
  <2>1. r \in RunRec /\ r # Absent /\ RowBack(r) = t
    BY <1>2 DEF Sound, Absent, RowBack
  <2>2. /\ t \in RunRec /\ t.home = r.home /\ t.dark = r.dark /\ t.retried = r.retried
        /\ t.orphan = r.orphan /\ t.status = r.status /\ t.gen = r.gen /\ t.audits = r.audits
        /\ t.known = r.known /\ t.waiting = r.waiting /\ t.live = r.live /\ t.paused = r.paused
    BY <2>1 DEF RunRec
  <2>3. Sound(t)
    BY <2>1, <2>2 DEF Sound
  <2> HIDE DEF t
  <2> QED
    BY <1>2, <2>1, <2>2, <2>3 DEF Evolves, Lasts, Known, Over, Finished
<1> QED
  BY <1>1, <1>2

LEMMA EvolvesTwice ==
  ASSUME NEW r, NEW t, NEW u, Evolves(r, t), Evolves(t, u)
  PROVE  Evolves(r, u)
BY DEF Evolves, Lasts, Finished

\* Every run is sound, and has come about from what it was.
AllEvolve(f, g) == g \in [Runs -> RunRec] /\ \A k \in Runs : Evolves(f[k], g[k])

LEMMA DeadAll ==
  ASSUME NEW f \in [Runs -> RunRec], \A k \in Runs : Sound(f[k])
  PROVE  AllEvolve(f, Dead(f)) /\ \A k \in Runs : Sound(Dead(f)[k])
<1>1. \A k \in Runs : Dead(f)[k] = [f[k] EXCEPT !.live = FALSE, !.paused = FALSE]
  BY DEF Dead
<1>2. \A k \in Runs : Evolves(f[k], Dead(f)[k])
  BY <1>1, DeadEvolves
<1>3. \A k \in Runs : Sound(Dead(f)[k]) /\ Dead(f)[k] \in RunRec
  BY <1>2 DEF Evolves, Lasts, Sound
<1>4. DOMAIN Dead(f) = Runs /\ Dead(f) = [k \in Runs |-> Dead(f)[k]]
  BY DEF Dead
<1> QED
  BY <1>2, <1>3, <1>4 DEF AllEvolve

LEMMA BackAll ==
  ASSUME NEW f \in [Runs -> RunRec], \A k \in Runs : Sound(f[k])
  PROVE  AllEvolve(f, RolledBack(f)) /\ \A k \in Runs : Sound(RolledBack(f)[k])
<1>1. \A k \in Runs : RolledBack(f)[k] = RowBack(f[k])
  BY DEF RolledBack, RowBack
<1>2. \A k \in Runs : Evolves(f[k], RolledBack(f)[k])
  BY <1>1, BackEvolves
<1>3. \A k \in Runs : Sound(RolledBack(f)[k]) /\ RolledBack(f)[k] \in RunRec
  BY <1>2 DEF Evolves, Lasts, Sound
<1>4. RolledBack(f) = [k \in Runs |-> RolledBack(f)[k]]
  BY DEF RolledBack
<1> QED
  BY <1>2, <1>3, <1>4 DEF AllEvolve

LEMMA GoneAll ==
  ASSUME NEW f \in [Runs -> RunRec], \A k \in Runs : Sound(f[k])
  PROVE  AllEvolve(f, Dead(RolledBack(f)))
<1>1. AllEvolve(f, RolledBack(f)) /\ \A k \in Runs : Sound(RolledBack(f)[k])
  BY BackAll
<1>2. RolledBack(f) \in [Runs -> RunRec]
  BY <1>1 DEF AllEvolve
<1>3. AllEvolve(RolledBack(f), Dead(RolledBack(f)))
  BY <1>1, <1>2, DeadAll
<1> QED
  BY <1>1, <1>3, EvolvesTwice DEF AllEvolve

LEMMA OneEvolves ==
  ASSUME RunTypes, NEW k \in Runs, NEW t, Evolves(run[k], t), run' = [run EXCEPT ![k] = t]
  PROVE  AllEvolve(run, run')
<1>1. t \in RunRec
  BY DEF Evolves, Lasts, Sound
<1>2. /\ run' \in [Runs -> RunRec] /\ run'[k] = t
      /\ \A j \in Runs : j # k => run'[j] = run[j]
  BY <1>1 DEF RunTypes
<1> QED
  BY <1>2, Same DEF AllEvolve, RunTypes

LEMMA NoneEvolves == ASSUME RunTypes, run' = run PROVE AllEvolve(run, run')
BY Same DEF AllEvolve, RunTypes

LEMMA PublishEvolves ==
  ASSUME NEW r, Sound(r), r.row = "pending", NEW row \in {"pending", "published"},
         NEW orphan \in {r.orphan, TRUE}
  PROVE  Evolves(r, [r EXCEPT !.waiting = @ \/ ~r.known, !.known = TRUE, !.row = row, !.orphan = orphan])
<1> DEFINE t == [r EXCEPT !.waiting = @ \/ ~r.known, !.known = TRUE, !.row = row, !.orphan = orphan]
<1>1. r \in RunRec /\ r # Absent
  BY DEF Sound, Absent
<1>2. /\ t \in RunRec /\ t.home = r.home /\ t.dark = r.dark /\ t.retried = r.retried
      /\ t.orphan = orphan /\ t.status = r.status /\ t.gen = r.gen /\ t.audits = r.audits
      /\ t.known = TRUE /\ t.waiting = (r.waiting \/ ~r.known) /\ t.live = r.live
      /\ t.paused = r.paused
  BY <1>1 DEF RunRec
<1> HIDE DEF t
<1>3. Sound(t) /\ Lasts(r, t)
  BY <1>1, <1>2 DEF Sound, Lasts, Finished
<1>4. Known(r) => Known(t)
  BY <1>1, <1>2 DEF Known, Sound
<1> QED
  BY <1>3, <1>4 DEF Evolves, Over, t

LEMMA CommitEvolves ==
  ASSUME NEW r, Sound(r), r.row = "published"
  PROVE  Evolves(r, [r EXCEPT !.row = "dispatched"])
<1> DEFINE t == [r EXCEPT !.row = "dispatched"]
<1>1. r \in RunRec /\ r # Absent
  BY DEF Sound, Absent
<1>2. /\ t \in RunRec /\ t.home = r.home /\ t.dark = r.dark /\ t.retried = r.retried
      /\ t.orphan = r.orphan /\ t.status = r.status /\ t.gen = r.gen /\ t.audits = r.audits
      /\ t.known = r.known /\ t.waiting = r.waiting /\ t.live = r.live /\ t.paused = r.paused
  BY <1>1 DEF RunRec
<1> HIDE DEF t
<1> QED
  BY <1>1, <1>2 DEF Evolves, Lasts, Sound, Known, Over, Finished, t

LEMMA PublishStep ==
  ASSUME RunTypes, NEW k \in Runs, Publish(k)
  PROVE  AllEvolve(run, run')
<1> DEFINE r == run[k]
           sent == [r EXCEPT !.waiting = @ \/ ~r.known, !.known = TRUE]
           done == [sent EXCEPT !.row = "published"]
           died == [sent EXCEPT !.orphan = TRUE]
<1>1. r.row = "pending" /\ Sound(r) /\ r \in RunRec
  BY DEF Publish, RunTypes
<1>2. /\ done = [r EXCEPT !.waiting = @ \/ ~r.known, !.known = TRUE, !.row = "published", !.orphan = r.orphan]
      /\ died = [r EXCEPT !.waiting = @ \/ ~r.known, !.known = TRUE, !.row = "pending", !.orphan = TRUE]
  BY <1>1 DEF RunRec
<1>3. Evolves(r, done) /\ Evolves(r, died)
  BY <1>1, <1>2, PublishEvolves
<1> HIDE DEF done, died
<1>4. CASE run' = [run EXCEPT ![k] = done]
  BY <1>3, <1>4, OneEvolves
<1>5. CASE run' = RolledBack([run EXCEPT ![k] = died])
  <2> DEFINE f == [run EXCEPT ![k] = died]
  <2>1. died \in RunRec /\ Sound(died)
    BY <1>3 DEF Evolves, Lasts, Sound
  <2>2. /\ f \in [Runs -> RunRec] /\ f[k] = died
        /\ \A j \in Runs : j # k => f[j] = run[j]
    BY <2>1 DEF RunTypes
  <2> HIDE DEF f
  <2>3. \A j \in Runs : Sound(f[j]) /\ Evolves(run[j], f[j])
    BY <1>3, <2>1, <2>2, Same DEF RunTypes
  <2>4. AllEvolve(f, run')
    BY <1>5, <2>2, <2>3, BackAll DEF f
  <2> QED
    BY <2>3, <2>4, EvolvesTwice DEF AllEvolve
<1> QED
  BY <1>4, <1>5 DEF Publish, done, died

LEMMA CommitStep == ASSUME RunTypes, Commit PROVE AllEvolve(run, run')
<1> DEFINE next(r) == IF r.row = "published" THEN [r EXCEPT !.row = "dispatched"] ELSE r
<1>1. \A k \in Runs : Evolves(run[k], next(run[k]))
  BY CommitEvolves, Same DEF RunTypes
<1>2. \A k \in Runs : next(run[k]) \in RunRec
  BY <1>1 DEF Evolves, Lasts, Sound
<1>3. run' = [k \in Runs |-> next(run[k])]
  BY DEF Commit
<1> HIDE DEF next
<1> QED
  BY <1>1, <1>2, <1>3 DEF AllEvolve

LEMMA ClaimStep ==
  ASSUME RunTypes, NEW k \in Runs, Claim(k)
  PROVE  AllEvolve(run, run')
<1> DEFINE r == run[k]
           taken == [r EXCEPT !.waiting = FALSE, !.status = "running", !.gen = r.gen + 1, !.live = TRUE]
           refused == [r EXCEPT !.waiting = FALSE]
<1>1. r \in RunRec /\ Sound(r) /\ r.waiting /\ r # Absent
  BY DEF Claim, RunTypes, Absent
<1>2. CASE r.status = "queued"
  <2>1. run' = [run EXCEPT ![k] = taken]
    BY <1>2 DEF Claim
  <2>2. r.gen < MaxAttempts /\ r.gen + 1 \in 0..MaxAttempts
    BY <1>1, <1>2, Sizes DEF Sound, RunRec
  <2>3. /\ taken \in RunRec /\ taken.home = r.home /\ taken.dark = r.dark /\ taken.retried = r.retried
        /\ taken.orphan = r.orphan /\ taken.status = "running" /\ taken.known = r.known
        /\ taken.waiting = FALSE /\ taken.live = TRUE
    BY <1>1, <2>2 DEF RunRec
  <2>4. Evolves(r, taken)
    <3> HIDE DEF taken
    <3> QED
      BY <1>1, <1>2, <2>3 DEF Evolves, Lasts, Sound, Known, Over, Finished
  <2> QED
    BY <2>1, <2>4, OneEvolves
<1>3. CASE r.status # "queued"
  <2>1. run' = [run EXCEPT ![k] = refused]
    BY <1>3 DEF Claim
  <2>2. /\ refused \in RunRec /\ refused.home = r.home /\ refused.dark = r.dark
        /\ refused.retried = r.retried /\ refused.orphan = r.orphan /\ refused.status = r.status
        /\ refused.gen = r.gen /\ refused.audits = r.audits /\ refused.known = r.known
        /\ refused.waiting = FALSE /\ refused.live = r.live /\ refused.paused = r.paused
    BY <1>1 DEF RunRec
  <2>3. Evolves(r, refused)
    <3> HIDE DEF refused
    <3> QED
      BY <1>1, <2>2 DEF Evolves, Lasts, Sound, Known, Over, Finished
  <2> QED
    BY <2>1, <2>3, OneEvolves
<1> QED
  BY <1>2, <1>3

LEMMA WorkStep ==
  ASSUME RunTypes, NEW k \in Runs, UseTool(k) \/ Resume(k) \/ MeetFault(k) \/ End(k) \/ HorseDies(k)
  PROVE  AllEvolve(run, run')
<1> DEFINE r == run[k]
<1>1. /\ r \in RunRec /\ Sound(r) /\ r # Absent /\ r.live /\ r.status = "running"
  <2>1. r.live
    BY DEF UseTool, MeetFault, End, HorseDies, Resume, RunTypes, Sound
  <2>2. r \in RunRec /\ Sound(r)
    BY DEF RunTypes
  <2> QED
    BY <2>1, <2>2 DEF Sound, Absent
<1>2. PICK t : /\ run' = [run EXCEPT ![k] = t]
               /\ t \in RunRec /\ t.home = r.home /\ t.dark = r.dark /\ (r.retried => t.retried)
               /\ t.orphan = r.orphan /\ t.known = r.known /\ t.waiting = r.waiting
               /\ t.status \in {"running", "completed", "failed"}
               /\ t.live => t.status = "running"
               /\ t.paused => t.live
  <2>1. CASE UseTool(k)
    <3>1. PICK writes \in BOOLEAN :
            run' = [run EXCEPT ![k] = [@ EXCEPT !.tool = TRUE,
                       !.audits = IF writes THEN 1 ELSE run[k].audits,
                       !.paused = writes /\ fleet.pause /\ run[k].gen = 1]]
      BY <2>1 DEF UseTool
    <3> DEFINE p == writes /\ fleet.pause /\ run[k].gen = 1
               a == IF writes THEN 1 ELSE r.audits
               t == [r EXCEPT !.tool = TRUE, !.audits = a, !.paused = p]
    <3>2. p \in BOOLEAN /\ a \in 0..1
      BY <1>1 DEF RunRec
    <3>3. run' = [run EXCEPT ![k] = t]
      BY <3>1
    <3> HIDE DEF p, a
    <3>4. /\ t \in RunRec /\ t.home = r.home /\ t.dark = r.dark /\ t.retried = r.retried
          /\ t.orphan = r.orphan /\ t.known = r.known /\ t.waiting = r.waiting
          /\ t.status = r.status /\ t.live = r.live
      BY <1>1, <3>2 DEF RunRec
    <3> HIDE DEF t
    <3> QED
      BY <1>1, <3>3, <3>4
  <2>2. CASE Resume(k)
    <3> DEFINE t == [r EXCEPT !.paused = FALSE]
    <3>1. run' = [run EXCEPT ![k] = t]
      BY <2>2 DEF Resume, RunTypes
    <3>2. /\ t \in RunRec /\ t.home = r.home /\ t.dark = r.dark /\ t.retried = r.retried
          /\ t.orphan = r.orphan /\ t.known = r.known /\ t.waiting = r.waiting
          /\ t.status = r.status /\ t.live = r.live
      BY <1>1 DEF RunRec
    <3> HIDE DEF t
    <3> QED
      BY <1>1, <3>1, <3>2
  <2>3. CASE MeetFault(k)
    <3> DEFINE t == [r EXCEPT !.retried = TRUE]
    <3>1. run' = [run EXCEPT ![k] = t]
      BY <2>3 DEF MeetFault, RunTypes
    <3>2. /\ t \in RunRec /\ t.home = r.home /\ t.dark = r.dark /\ t.retried = TRUE
          /\ t.orphan = r.orphan /\ t.known = r.known /\ t.waiting = r.waiting
          /\ t.status = r.status /\ t.live = r.live /\ t.paused = r.paused
      BY <1>1 DEF RunRec
    <3> HIDE DEF t
    <3> QED
      BY <1>1, <3>1, <3>2 DEF Sound
  <2>4. CASE End(k)
    <3>1. PICK outcome \in {"completed", "failed"} :
            run' = [run EXCEPT ![k].status = outcome, ![k].live = FALSE]
      BY <2>4 DEF End, Outcomes
    <3> DEFINE t == [r EXCEPT !.status = outcome, !.live = FALSE]
    <3>2. run' = [run EXCEPT ![k] = t]
      BY <3>1 DEF RunTypes
    <3>3. /\ t \in RunRec /\ t.home = r.home /\ t.dark = r.dark /\ t.retried = r.retried
          /\ t.orphan = r.orphan /\ t.known = r.known /\ t.waiting = r.waiting
          /\ t.status = outcome /\ t.live = FALSE /\ t.paused = r.paused /\ ~r.paused
      BY <1>1, <2>4 DEF RunRec, End
    <3> HIDE DEF t
    <3> QED
      BY <3>2, <3>3
  <2>5. CASE HorseDies(k)
    <3> DEFINE t == [r EXCEPT !.live = FALSE, !.paused = FALSE]
    <3>1. run' = [run EXCEPT ![k] = t]
      BY <2>5 DEF HorseDies, RunTypes
    <3>2. /\ t \in RunRec /\ t.home = r.home /\ t.dark = r.dark /\ t.retried = r.retried
          /\ t.orphan = r.orphan /\ t.known = r.known /\ t.waiting = r.waiting
          /\ t.status = r.status /\ t.live = FALSE /\ t.paused = FALSE
      BY <1>1 DEF RunRec
    <3> HIDE DEF t
    <3> QED
      BY <1>1, <3>1, <3>2
  <2> QED
    BY <2>1, <2>2, <2>3, <2>4, <2>5
<1>3. Sound(t) /\ Lasts(r, t)
  BY <1>1, <1>2 DEF Sound, Lasts, Finished, Absent, RunRec
<1>4. (Known(r) => Known(t)) /\ ~Over(r)
  BY <1>1, <1>2 DEF Known, Over, Finished
<1> QED
  BY <1>2, <1>3, <1>4, OneEvolves DEF Evolves

LEMMA SweepStep ==
  ASSUME RunTypes, NEW k \in Runs, Sweep(k)
  PROVE  AllEvolve(run, run')
<1> DEFINE r == run[k]
           again == [r EXCEPT !.status = "queued", !.row = "pending", !.known = FALSE]
           buried == [r EXCEPT !.status = "failed"]
<1>1. r \in RunRec /\ Sound(r) /\ r.status = "running" /\ ~r.live /\ r # Absent
  BY DEF Sweep, RunTypes, Absent
<1>2. CASE r.gen < MaxAttempts
  <2>1. run' = [run EXCEPT ![k] = again]
    BY <1>2 DEF Sweep
  <2>2. /\ again \in RunRec /\ again.home = r.home /\ again.dark = r.dark /\ again.retried = r.retried
        /\ again.orphan = r.orphan /\ again.status = "queued" /\ again.known = FALSE
        /\ again.waiting = r.waiting /\ again.live = r.live /\ again.paused = r.paused
        /\ again.gen = r.gen
    BY <1>1 DEF RunRec
  <2>3. Evolves(r, again)
    <3> HIDE DEF again
    <3> QED
      BY <1>1, <1>2, <2>2 DEF Evolves, Lasts, Sound, Known, Over, Finished, Absent, RunRec
  <2> QED
    BY <2>1, <2>3, OneEvolves
<1>3. CASE ~(r.gen < MaxAttempts)
  <2>1. run' = [run EXCEPT ![k] = buried]
    BY <1>3 DEF Sweep
  <2>2. /\ buried \in RunRec /\ buried.home = r.home /\ buried.dark = r.dark
        /\ buried.retried = r.retried /\ buried.orphan = r.orphan /\ buried.status = "failed"
        /\ buried.known = r.known /\ buried.waiting = r.waiting /\ buried.live = r.live
        /\ buried.paused = r.paused
    BY <1>1 DEF RunRec
  <2>3. Evolves(r, buried)
    <3> HIDE DEF buried
    <3> QED
      BY <1>1, <2>2 DEF Evolves, Lasts, Sound, Known, Over, Finished, Absent, RunRec
  <2> QED
    BY <2>1, <2>3, OneEvolves
<1> QED
  BY <1>2, <1>3

LEMMA SystemStep == ASSUME RunTypes, System PROVE AllEvolve(run, run')
<1>1. CASE Commit
  BY <1>1, CommitStep
<1>2. CASE DispatcherRestarts
  BY <1>2, NoneEvolves DEF DispatcherRestarts
<1>3. CASE DispatcherDies
  BY <1>3, BackAll DEF DispatcherDies, RunTypes
<1> QED
  BY <1>1, <1>2, <1>3, PublishStep, ClaimStep, WorkStep, SweepStep DEF System

-----------------------------------------------------------------------------
(* Who changes what                                                          *)

LEMMA SystemFrame ==
  ASSUME System
  PROVE  UNCHANGED <<plane, redis, fleet, proxy, script, v, report, stray>>
BY DEF System, Commit, DispatcherRestarts, DispatcherDies, Publish, Claim, UseTool, Resume,
   MeetFault, End, Sweep, HorseDies, services, gate

LEMMA VerifierFrame ==
  ASSUME Verifier
  PROVE  UNCHANGED <<script, stray, faults>> /\ ~At("off")
BY DEF Verifier, At, Begin, Quiet, Setup, Post, Wait, Candidate, Watch, Kill, Rescale, Record,
   AwaitCrash, ReadRow, Repair, AwaitRow, Observe, StartRedis, ResumeServices, Stream, Compare,
   Judge, Reset, Leaked, WriteGate

LEMMA ScriptFrame ==
  ASSUME Script
  PROVE  report' = report /\ (v' = v \/ Launch)
BY DEF Script, Start, Prepare, Up, Launch, VerifierEnded, ScriptFails, Signal, CutOff, Restore

\* A verifier that only moves on, one that ends, and one that has just begun.
Going(pc) ==
    /\ v' \in VerifierRec /\ v'.pc = pc
    /\ v'.stage = v.stage /\ v'.n = v.n /\ v'.trials = v.trials /\ v'.passed = v.passed
    /\ v'.seen = v.seen /\ v'.exited = v.exited /\ v'.pending = v.pending /\ v'.why = v.why
Gone(why) ==
    /\ v' \in VerifierRec /\ v'.pc = "off" /\ v'.stage = "crash" /\ v'.n = 0
    /\ v'.trials = {} /\ v'.passed = {} /\ ~v'.pending /\ v'.why = why

LEMMA ToGoes ==
  ASSUME v \in VerifierRec, NEW pc \in VerifierPcs, To(pc)
  PROVE  Going(pc)
BY DEF To, VerifierRec, Going

LEMMA NobodyIs ==
  /\ NoVerifier \in VerifierRec /\ Shape(NoVerifier)
  /\ [NoVerifier EXCEPT !.pc = "begin"] \in VerifierRec /\ Shape([NoVerifier EXCEPT !.pc = "begin"])
<1>1. Cardinality({}) = 0 /\ 0 <= Trials /\ 0 \in 0..Candidates
  BY FS_EmptySet, Sizes
<1>2. "crash" \in Stages /\ "off" \in VerifierPcs /\ "begin" \in VerifierPcs
  BY DEF Stages, VerifierPcs
<1>3. NoVerifier \in VerifierRec /\ [NoVerifier EXCEPT !.pc = "begin"] \in VerifierRec
  BY <1>2 DEF NoVerifier, VerifierRec
<1>4. Shape(NoVerifier)
  BY <1>1, Counts DEF NoVerifier, Shape, Places, Unposted, OnTrial, Between
<1>5. Shape([NoVerifier EXCEPT !.pc = "begin"])
  BY <1>1, Counts DEF NoVerifier, Shape, Places, Unposted, OnTrial, Between
<1> QED
  BY <1>3, <1>4, <1>5

LEMMA FailGoes ==
  ASSUME v \in VerifierRec, NEW why \in {"none", "dispatch"}, Fail(why)
  PROVE  Gone(why) /\ v'.exited = v.exited /\ Shape(v') /\ report' = report \cup {"failure"}
<1>1. v' = [NoVerifier EXCEPT !.why = why, !.exited = v.exited] /\ v.exited \in BOOLEAN
  BY DEF Fail, VerifierRec
<1>2. NoVerifier \in VerifierRec /\ Shape(NoVerifier)
  BY NobodyIs
<1>3. /\ v' \in VerifierRec /\ v'.pc = "off" /\ v'.stage = "crash" /\ v'.n = 0
      /\ v'.trials = {} /\ v'.passed = {} /\ v'.pending = FALSE /\ v'.why = why /\ v'.exited = v.exited
  BY <1>1, <1>2 DEF NoVerifier, VerifierRec
<1>4. Cardinality({}) = 0 /\ 0 <= Trials /\ 0 \in 0..Candidates
  BY FS_EmptySet, Sizes
<1>5. Shape(v')
  BY <1>3, <1>4, Counts DEF Shape, Places, Unposted, OnTrial, Between
<1> QED
  BY <1>3, <1>5 DEF Gone, Fail

LEMMA KillGoes ==
  ASSUME v' = NoVerifier
  PROVE  Gone("none") /\ ~v'.exited /\ Shape(v')
BY NobodyIs DEF Gone, NoVerifier

LEMMA LaunchGoes ==
  ASSUME Launch
  PROVE  /\ v' \in VerifierRec /\ Shape(v') /\ v'.pc = "begin" /\ v'.stage = "crash" /\ v'.n = 0
         /\ v'.trials = {} /\ v'.passed = {} /\ ~v'.pending /\ ~v'.exited /\ v'.why = "none"
BY NobodyIs DEF Launch, NoVerifier

LEMMA OwnRuns ==
  ASSUME v \in VerifierRec, Shape(v), v.stage # "end"
  PROVE  /\ Own \subseteq Runs
         /\ \A k : k \in Own <=> k \in Runs /\ k[1] = v.stage /\ k[2] <= v.n
<1>1. v.stage \in Stages /\ v.n \in 0..Count(v.stage) /\ v.n \in Nat /\ Count(v.stage) \in Nat
  BY Counts DEF VerifierRec, Shape
<1>2. ASSUME NEW k \in Own PROVE k \in Runs /\ k[1] = v.stage /\ k[2] <= v.n
  <2>1. PICK i \in 1..v.n : k = <<v.stage, i>>
    BY DEF Own
  <2>2. i \in 1..Count(v.stage) /\ i <= v.n
    BY <1>1
  <2> QED
    BY <1>1, <2>1, <2>2, RunIs
<1>3. ASSUME NEW k \in Runs, k[1] = v.stage, k[2] <= v.n PROVE k \in Own
  <2>1. k = <<v.stage, k[2]>> /\ k[2] \in 1..v.n
    BY <1>1, <1>3, RunParts, Counts
  <2> QED
    BY <2>1 DEF Own
<1> QED
  BY <1>2, <1>3

\* The run that is posted.
LEMMA PostedRun ==
  ASSUME TypeInv, Post
  PROVE  /\ v.stage \in Stages /\ <<v.stage, v.n + 1>> \in Runs
         /\ v.n + 1 \in 1..Count(v.stage)
         /\ Sound(Posted) /\ Known(Posted) /\ Posted \in RunRec
         /\ Posted.home = plane["api"] /\ Posted.home \in Databases /\ Posted.status = "queued"
         /\ Posted.gen = 0 /\ Posted.row = "pending" /\ (Posted.dark <=> ~redis)
         /\ ~Posted.live /\ ~Posted.known /\ ~Posted.waiting
<1>1. v.stage \in Stages /\ v.n \in Nat /\ v.n < Count(v.stage) /\ Count(v.stage) \in Nat
  <2>1. v.pc = "post" /\ v \in VerifierRec /\ Shape(v)
    BY DEF Post, At, TypeInv, GateTypes
  <2>2. v.stage \in Stages
    BY <2>1 DEF Shape, Places, Between, VerifierRec
  <2> QED
    BY <2>1, <2>2, Counts DEF Shape, VerifierRec
<1>2. plane["api"] \in Databases /\ redis \in BOOLEAN
  BY DEF TypeInv, ServiceTypes, Services
<1>3. /\ Posted \in RunRec /\ Posted.home = plane["api"] /\ Posted.status = "queued"
      /\ Posted.gen = 0 /\ Posted.row = "pending" /\ Posted.dark = ~redis
      /\ Posted.live = FALSE /\ Posted.known = FALSE /\ Posted.waiting = FALSE /\ Posted.paused = FALSE
  <2>1. PICK home \in Databases, dark \in BOOLEAN : home = plane["api"] /\ dark = ~redis
    BY <1>2
  <2>2. Posted = [Absent EXCEPT !.home = home, !.status = "queued", !.row = "pending", !.dark = dark]
    BY <2>1 DEF Posted
  <2>3. Absent \in RunRec /\ Absent.gen = 0 /\ Absent.live = FALSE /\ Absent.known = FALSE
        /\ Absent.waiting = FALSE /\ Absent.paused = FALSE
    BY AbsentIs DEF Absent
  <2> QED
    BY <2>1, <2>2, <2>3 DEF RunRec
<1>4. Sound(Posted) /\ Known(Posted)
  BY <1>2, <1>3, Sizes DEF Sound, Known, Databases
<1>5. <<v.stage, v.n + 1>> \in Runs /\ v.n + 1 \in 1..Count(v.stage)
  BY <1>1, RunIs
<1> QED
  BY <1>1, <1>2, <1>3, <1>4, <1>5

\* Everything that happens to the rows: runs go on, one is posted, or, while no verifier is
\* there, Redis is emptied.
LEMMA RunsMove ==
  ASSUME TypeInv, [Next]_vars
  PROVE  \/ AllEvolve(run, run')
         \/ Post /\ run' = [run EXCEPT ![<<v.stage, v.n + 1>>] = Posted]
         \/ Prepare /\ run' \in [Runs -> RunRec] /\ \A k \in Runs : Lasts(run[k], run'[k])
<1>0. RunTypes
  BY DEF TypeInv
<1>1. run' = run => AllEvolve(run, run')
  BY <1>0, NoneEvolves
<1>2. run' = Dead(run) => AllEvolve(run, run')
  BY <1>0, DeadAll DEF RunTypes
<1>3. run' = RolledBack(run) => AllEvolve(run, run')
  BY <1>0, BackAll DEF RunTypes
<1>4. run' = Dead(RolledBack(run)) => AllEvolve(run, run')
  BY <1>0, GoneAll DEF RunTypes
<1>5. CASE System
  BY <1>0, <1>5, SystemStep
<1>6. CASE Post
  BY <1>6 DEF Post
<1>7. CASE Verifier /\ ~Post
  <2>1. \/ run' = run \/ run' = Dead(run) \/ run' = RolledBack(run) \/ run' = Dead(RolledBack(run))
    BY <1>7 DEF Verifier, Begin, Quiet, Setup, Wait, Candidate, Watch, Kill, Rescale, Record,
       AwaitCrash, ReadRow, Repair, AwaitRow, Observe, StartRedis, ResumeServices, Resupply, Stream,
       Compare, Judge, Reset, Leaked, WriteGate, ScaleWorkers
  <2> QED
    BY <1>1, <1>2, <1>3, <1>4, <2>1
<1>8. CASE VerifierFails \/ VerifierKilled
  <2>1. run' = run \/ run' = Dead(RolledBack(run))
    BY <1>8 DEF VerifierFails, VerifierKilled, Resupply, services
  <2> QED
    BY <1>1, <1>4, <2>1
<1>9. CASE Prepare
  <2> DEFINE next(r) == IF r.home = "m3" THEN [r EXCEPT !.waiting = FALSE, !.known = FALSE] ELSE r
  <2>1. CASE ~redis
    BY <1>1, <1>9, <2>1 DEF Prepare
  <2>2. CASE redis
    <3>1. run' = [k \in Runs |-> next(run[k])]
      BY <1>9, <2>2 DEF Prepare, InM3
    <3>2. ASSUME NEW r, Sound(r) PROVE Lasts(r, next(r))
      <4>1. CASE r.home = "m3"
        <5> DEFINE t == [r EXCEPT !.waiting = FALSE, !.known = FALSE]
        <5>1. r \in RunRec /\ r # Absent
          BY <3>2, <4>1 DEF Sound, Absent
        <5>2. /\ t \in RunRec /\ t.home = r.home /\ t.dark = r.dark /\ t.retried = r.retried
              /\ t.orphan = r.orphan /\ t.status = r.status /\ t.gen = r.gen
              /\ t.audits = r.audits /\ t.live = r.live /\ t.paused = r.paused
          BY <5>1 DEF RunRec
        <5>3. next(r) = t
          BY <4>1
        <5> HIDE DEF t, next
        <5>4. Lasts(r, t)
          BY <3>2, <4>1, <5>1, <5>2 DEF Lasts, Sound, Finished
        <5> QED
          BY <5>3, <5>4
      <4>2. CASE r.home # "m3"
        BY <3>2, <4>2 DEF Lasts
      <4> QED
        BY <4>1, <4>2
    <3> HIDE DEF next
    <3>3. \A k \in Runs : Lasts(run[k], run'[k])
      BY <1>0, <3>1, <3>2 DEF RunTypes
    <3>4. \A k \in Runs : run'[k] \in RunRec
      BY <3>3 DEF Lasts, Sound
    <3> QED
      BY <1>9, <3>1, <3>3, <3>4
  <2> QED
    BY <2>1, <2>2
<1>10. CASE Script /\ ~Prepare
  <2>1. run' = run \/ run' = Dead(RolledBack(run))
    BY <1>10 DEF Script, Start, Up, Launch, VerifierEnded, ScriptFails, Signal,
       CutOff, Restore, MoveAll
  <2> QED
    BY <1>1, <1>4, <2>1
<1>11. CASE UNCHANGED vars
  BY <1>1, <1>11 DEF vars
<1> QED
  BY <1>5, <1>6, <1>7, <1>8, <1>9, <1>10, <1>11 DEF Next

LEMMA RunTypesStep ==
  ASSUME TypeInv, [Next]_vars
  PROVE  RunTypes'
<1>1. CASE AllEvolve(run, run')
  BY <1>1 DEF AllEvolve, Evolves, Lasts, RunTypes
<1>2. CASE Post /\ run' = [run EXCEPT ![<<v.stage, v.n + 1>>] = Posted]
  <2>1. Posted \in RunRec /\ Sound(Posted) /\ <<v.stage, v.n + 1>> \in Runs
    BY <1>2, PostedRun
  <2>2. \A k \in Runs : run'[k] = run[k] \/ run'[k] = Posted
    BY <1>2 DEF TypeInv, RunTypes
  <2>3. run' \in [Runs -> RunRec]
    BY <1>2, <2>1 DEF TypeInv, RunTypes
  <2>4. \A k \in Runs : Sound(run'[k])
    BY <2>1, <2>2 DEF TypeInv, RunTypes
  <2> QED
    BY <2>3, <2>4 DEF RunTypes
<1>3. CASE run' \in [Runs -> RunRec] /\ \A k \in Runs : Lasts(run[k], run'[k])
  BY <1>3 DEF Lasts, RunTypes
<1> QED
  BY <1>1, <1>2, <1>3, RunsMove

-----------------------------------------------------------------------------
(* Types                                                                     *)

LEMMA MovedType ==
  ASSUME plane \in [Services -> Databases], NEW moved, NEW db \in Databases
  PROVE  Moved(moved, db) \in [Services -> Databases]
BY DEF Moved

LEMMA ServicesStep ==
  ASSUME TypeInv, [Next]_vars
  PROVE  ServiceTypes'
<1>0. ServiceTypes /\ "m3" \in Databases /\ "normal" \in Databases
  BY DEF TypeInv, Databases
<1>1. /\ \A moved : Moved(moved, "m3") \in [Services -> Databases]
      /\ Moved(Services, "normal") \in [Services -> Databases]
  BY <1>0, MovedType DEF ServiceTypes
<1>2. \A c \in BOOLEAN : Fresh(c) \in [up: BOOLEAN, crash: BOOLEAN, restart: BOOLEAN]
  BY DEF Fresh
<1>3. CASE UNCHANGED <<plane, redis, fleet, proxy>> /\ System
  <2>1. dispatcher' \in [up: BOOLEAN, crash: BOOLEAN, restart: BOOLEAN]
    BY <1>0, <1>3 DEF ServiceTypes, System, Commit, DispatcherRestarts, DispatcherDies, Publish,
       Claim, UseTool, Resume, MeetFault, End, Sweep, HorseDies, services
  <2>2. marker' \in BOOLEAN
    BY <1>0, <1>3 DEF ServiceTypes, System, Commit, DispatcherRestarts, DispatcherDies, Publish,
       Claim, UseTool, Resume, MeetFault, End, Sweep, HorseDies, services
  <2> QED
    BY <1>0, <1>3, <2>1, <2>2 DEF ServiceTypes
<1>4. CASE UNCHANGED services
  BY <1>0, <1>4 DEF services, ServiceTypes
<1>5. CASE Setup
  <2>1. plane' \in [Services -> Databases]
    BY <1>1, <1>5 DEF Setup
  <2>2. fleet' \in [size: {0, 1, 4}, pause: BOOLEAN]
    BY <1>0, <1>5 DEF Setup, ServiceTypes
  <2>3. dispatcher' \in [up: BOOLEAN, crash: BOOLEAN, restart: BOOLEAN]
    BY <1>0, <1>2, <1>5 DEF Setup, ServiceTypes
  <2>4. proxy' \in {"off", "clean", "429", "timeout"}
    BY <1>0, <1>5 DEF Setup, ServiceTypes
  <2>5. redis' \in BOOLEAN /\ marker' \in BOOLEAN
    BY <1>5 DEF Setup
  <2> QED
    BY <2>1, <2>2, <2>3, <2>4, <2>5 DEF ServiceTypes
<1>6. CASE Candidate \/ Rescale
  <2>1. UNCHANGED services \/ \E p \in BOOLEAN : ScaleWorkers(1, p)
    BY <1>6 DEF Candidate, Rescale
  <2>2. ASSUME NEW p \in BOOLEAN, ScaleWorkers(1, p) PROVE ServiceTypes'
    BY <1>0, <1>1, <2>2 DEF ScaleWorkers, ServiceTypes
  <2> QED
    BY <1>4, <2>1, <2>2
<1>7. CASE Kill
  <2>1. fleet' \in [size: {0, 1, 4}, pause: BOOLEAN]
    BY <1>0, <1>7 DEF Kill, ServiceTypes
  <2> QED
    BY <1>0, <1>7, <2>1 DEF Kill, ServiceTypes
<1>8. CASE Repair
  <2>1. dispatcher' = Fresh(FALSE) /\ plane' = Moved({"dispatcher"}, "m3") /\ UNCHANGED <<redis, fleet, marker, proxy>>
    BY <1>8 DEF Repair
  <2> QED
    BY <1>0, <1>1, <1>2, <2>1 DEF ServiceTypes
<1>17. CASE StartRedis
  BY <1>0, <1>17 DEF StartRedis, ServiceTypes
<1>9. ASSUME Resupply, redis' \in BOOLEAN, UNCHANGED <<marker, proxy>>
      PROVE  ServiceTypes'
  BY <1>0, <1>1, <1>2, <1>9 DEF Resupply, ServiceTypes
<1>10. CASE ResumeServices \/ VerifierFails
  <2>1. redis \in BOOLEAN
    BY <1>0 DEF ServiceTypes
  <2> QED
    BY <1>4, <1>9, <1>10, <2>1 DEF ResumeServices, VerifierFails
<1>11. CASE Reset
  BY <1>0, <1>1, <1>2, <1>11 DEF Reset, ServiceTypes
<1>12. CASE Prepare
  BY <1>0, <1>12 DEF Prepare, ServiceTypes
<1>13. CASE Up \/ Restore
  <2>1. /\ plane' = Moved(Services, "m3") \/ plane' = Moved(Services, "normal")
        /\ fleet' = [size |-> 1, pause |-> FALSE] /\ dispatcher' = Fresh(FALSE) /\ UNCHANGED marker
        /\ redis' = redis \/ redis' = TRUE
        /\ proxy' \in {"off", "clean"}
    BY <1>13 DEF Up, Restore, MoveAll, RedisAfter
  <2>2. plane' \in [Services -> Databases]
    BY <1>1, <2>1
  <2>3. redis' \in BOOLEAN /\ marker' \in BOOLEAN
    BY <1>0, <2>1 DEF ServiceTypes
  <2>4. dispatcher' \in [up: BOOLEAN, crash: BOOLEAN, restart: BOOLEAN]
    BY <1>2, <2>1
  <2> QED
    BY <2>1, <2>2, <2>3, <2>4 DEF ServiceTypes
<1>14. CASE Verifier /\ ~(Setup \/ Candidate \/ Rescale \/ Kill \/ Repair \/ StartRedis
                          \/ ResumeServices \/ Reset)
  <2>1. UNCHANGED services
    BY <1>14 DEF Verifier, Begin, Quiet, Post, Wait, Watch, Record, AwaitCrash, ReadRow, AwaitRow,
       Observe, Stream, Compare, Judge, Leaked, WriteGate
  <2> QED
    BY <1>4, <2>1
<1>15. CASE Script /\ ~(Prepare \/ Up \/ Restore)
  <2>1. UNCHANGED services
    BY <1>15 DEF Script, Start, Launch, VerifierEnded, ScriptFails, Signal, CutOff
  <2> QED
    BY <1>4, <2>1
<1>16. CASE VerifierKilled \/ UNCHANGED vars
  BY <1>4, <1>16 DEF VerifierKilled, vars
<1> QED
  BY <1>3, <1>5, <1>6, <1>7, <1>8, <1>10, <1>11, <1>12, <1>13, <1>14, <1>15, <1>16, <1>17,
     SystemFrame DEF Next, Script

\* A requirement that is not met ends the verifier.
LEMMA RequireGoes ==
  ASSUME v \in VerifierRec, NEW condition, NEW pc \in VerifierPcs, Require(condition, pc)
  PROVE  \/ condition /\ Going(pc) /\ report' = report
         \/ Gone("none") /\ v'.exited = v.exited /\ Shape(v') /\ report' = report \cup {"failure"}
BY ToGoes, FailGoes DEF Require

\* The places that tell the stage.
LEMMA PlaceOf ==
  ASSUME NEW s \in Stages \cup {"end"}, NEW pc \in Places(s)
  PROVE  /\ pc \in {"off", "begin", "candidate", "watch", "kill", "rescale", "record"} => s = "crash"
         /\ pc \in {"await_crash", "crash_row", "repair", "row"} => s = "dispatch"
         /\ pc \in {"observe", "start_redis", "resume"} => s = "outage"
         /\ pc \in {"stream", "compare"} => s = "sse"
         /\ pc \in {"reset", "leaked", "write"} => s = "end"
         /\ s = "end" => pc \in {"reset", "leaked", "write"} \cup Between
         /\ pc \in VerifierPcs
BY DEF Places, Between, Stages, VerifierPcs

LEMMA ShapeStep ==
  ASSUME TypeInv, [Next]_vars
  PROVE  v' \in VerifierRec /\ Shape(v')
<1>0. v \in VerifierRec /\ Shape(v) /\ v.stage \in Stages \cup {"end"} /\ v.n \in Nat
  BY DEF TypeInv, GateTypes, VerifierRec
<1> DEFINE Good == v' \in VerifierRec /\ Shape(v')
<1>1. v' = v => Good
  BY <1>0
<1>2. \A why \in {"none", "dispatch"} : Fail(why) => Good
  BY <1>0, FailGoes DEF Gone
<1>p. /\ Trials \in Nat /\ Candidates \in Nat /\ Count("crash") = Candidates /\ Count("dispatch") = 1
      /\ \A s \in Stages : Count(s) \in Nat \ {0}
  BY Sizes, Counts
\* A move within a stage that leaves all else as it is.
<1>3. ASSUME NEW pc \in VerifierPcs, Going(pc), <<v.pc, pc>> \in
             {<<"begin", "quiet">>, <<"quiet", "queue">>, <<"queue", "outbox">>,
              <<"setup", "candidate">>, <<"setup", "post">>, <<"wait", "record">>, <<"wait", "row">>,
              <<"wait", "judge">>, <<"candidate", "judge">>, <<"watch", "kill">>,
              <<"watch", "candidate">>, <<"kill", "rescale">>, <<"rescale", "wait">>,
              <<"repair", "wait">>, <<"row", "judge">>, <<"start_redis", "resume">>,
              <<"resume", "wait">>, <<"compare", "wait">>, <<"reset", "quiet">>,
              <<"leaked", "write">>},
             pc \in Places(v.stage), <<v.stage, v.pc, pc>> # <<"crash", "setup", "post">>
      PROVE  Good
  <2>1. v' \in VerifierRec
    BY <1>3 DEF Going
  <2>2. v.pc \notin {"off", "post", "await_crash", "observe"} /\ pc \notin {"off", "begin"}
    BY <1>3
  <2>3. v'.why = "none"
    BY <1>0, <1>3, <2>2 DEF Going, Shape
  <2>0. /\ pc \in {"candidate", "record", "rescale", "kill", "watch"} => v.stage = "crash"
        /\ v.pc \in {"candidate", "record", "rescale", "kill", "watch"} => v.stage = "crash"
        /\ v.pc \in {"repair", "resume", "compare"} => v.stage # "crash"
    BY <1>0, <1>3, PlaceOf DEF Shape
  <2>a. pc \in Unposted => v.pc \in Unposted \ {"off"}
    BY <1>3 DEF Unposted, Between
  <2>b. v.stage # "crash" /\ pc \notin Unposted \cup {"post"} => v.pc \notin Unposted \cup {"post"}
    BY <1>3, <2>0 DEF Unposted, Between
  <2>c. v.stage = "crash" /\ pc \in OnTrial \ {"post"} => v.pc \in OnTrial \ {"post"}
    BY <1>3, <2>0 DEF OnTrial
  <2>d. pc \in {"post", "await_crash", "observe"} => v.pc = "setup" /\ pc = "post"
    BY <1>3
  <2>e. v.stage = "crash" => pc # "post"
    BY <1>3
  <2>4. /\ pc \in Unposted => v.pc \in Unposted \ {"off"}
        /\ v.stage # "crash" /\ pc \notin Unposted \cup {"post"} => v.pc \notin Unposted \cup {"post"}
        /\ v.stage = "crash" /\ pc \in OnTrial => pc # "post" /\ v.pc \in OnTrial \ {"post"}
        /\ pc \in {"post", "await_crash", "observe"} => v.pc = "setup" /\ pc = "post"
    BY <2>a, <2>b, <2>c, <2>d, <2>e
  <2>5. v'.stage = "end" \/ v'.n \in 0..Count(v'.stage)
    BY <1>0, <1>3 DEF Going, Shape
  <2>6. pc = "post" => v'.n < Count(v'.stage)
    <3>1. SUFFICES ASSUME pc = "post" PROVE v'.n < Count(v'.stage)
      OBVIOUS
    <3>2. v.pc = "setup" /\ v'.n = 0 /\ v'.stage = v.stage
      BY <1>0, <1>3, <2>4, <3>1 DEF Going, Shape, Unposted
    <3>3. v.stage \in Stages
      BY <1>0, <3>2 DEF Shape, Places, Between
    <3> QED
      BY <1>p, <3>2, <3>3
  <2>7. v'.stage = "crash" /\ v'.pc \in OnTrial \ {"post"} => v'.n >= 1
    BY <1>0, <1>3, <2>4 DEF Going, Shape
  <2>8. v'.stage # "crash" => v'.pc \in Unposted \cup {"post"} \/ v'.n = Count(v'.stage)
    BY <1>0, <1>3, <2>4 DEF Going, Shape
  <2>9. v'.stage = "crash" /\ v'.pc \in OnTrial => Cardinality(v'.trials) < Trials
    BY <1>0, <1>3, <2>4 DEF Going, Shape
  <2>10. v'.pc \in Unposted => ~v'.pending /\ ~v'.exited /\ v'.n = 0
    BY <1>0, <1>3, <2>4 DEF Going, Shape
  <2>11. v'.pc \in {"post", "await_crash", "observe"} => ~v'.pending /\ ~v'.exited
    BY <1>0, <1>3, <2>4 DEF Going, Shape, Unposted
  <2>12. v'.stage = "crash" => ~v'.pending /\ ~v'.exited
    BY <1>0, <1>3, <2>2 DEF Going, Shape
  <2>13. v'.pc \in Places(v'.stage) /\ v'.pc \notin {"off", "begin"} /\ Cardinality(v'.trials) <= Trials
    BY <1>0, <1>3, <2>2 DEF Going, Shape
  <2>14. v'.pc = pc
    BY <1>3 DEF Going
  <2> QED
    BY <2>1, <2>3, <2>5, <2>6, <2>7, <2>8, <2>9, <2>10, <2>11, <2>12, <2>13, <2>14 DEF Shape
<1>4. ASSUME NEW pc \in VerifierPcs, NEW condition, Require(condition, pc) PROVE Going(pc) \/ Good
  BY <1>0, <1>4, RequireGoes DEF Gone
<1>5. \A pc \in VerifierPcs : To(pc) => Going(pc)
  BY <1>0, ToGoes
<1>6. CASE Begin
  <2>1. v.pc = "begin" /\ "quiet" \in VerifierPcs /\ "quiet" \in Places(v.stage)
    BY <1>0, <1>6 DEF Begin, At, VerifierPcs, Shape, Places, Between, Stages
  <2> QED
    BY <1>3, <1>4, <1>6, <2>1 DEF Begin
<1>7. CASE Quiet
  <2>0. {"queue", "outbox", "leaked", "setup"} \subseteq VerifierPcs
    BY DEF VerifierPcs
  <2>1. CASE At("quiet")
    <3>1. "queue" \in Places(v.stage) /\ (Going("queue") \/ Good)
      BY <1>0, <1>4, <1>7, <2>0, <2>1 DEF Quiet, At, Places, Between
    <3> QED
      BY <1>3, <2>0, <2>1, <3>1 DEF At
  <2>2. CASE At("queue")
    <3>1. "outbox" \in Places(v.stage) /\ (Going("outbox") \/ Good)
      BY <1>0, <1>4, <1>7, <2>0, <2>2 DEF Quiet, At, Places, Between
    <3> QED
      BY <1>3, <2>0, <2>2, <3>1 DEF At
  <2>3. CASE At("outbox")
    <3> DEFINE pc == IF v.stage = "end" THEN "leaked" ELSE "setup"
    <3>1. Require(PendingOutbox = {}, pc)
      BY <1>7, <2>3 DEF Quiet, At
    <3>2. pc \in VerifierPcs /\ pc \in Places(v.stage)
      BY <1>0, <2>0 DEF Places
    <3>3. CASE Going(pc)
      <4>1. v' \in VerifierRec /\ v.n = 0 /\ ~v.pending /\ ~v.exited /\ v.why = "none"
        BY <1>0, <2>3, <3>3 DEF Going, Shape, Unposted, Between, At
      <4>2. pc \in {"leaked", "setup"} /\ pc \in Unposted /\ pc \notin OnTrial
        BY DEF Unposted, OnTrial, Between
      <4> HIDE DEF pc
      <4> QED
        BY <1>0, <3>2, <3>3, <4>1, <4>2 DEF Going, Shape
    <3> QED
      BY <1>4, <3>1, <3>2, <3>3
  <2> QED
    BY <1>7, <2>1, <2>2, <2>3 DEF Quiet
<1>8. CASE Setup
  <2>1. v.pc = "setup" /\ {"candidate", "post"} \subseteq VerifierPcs
    BY <1>8 DEF Setup, At, VerifierPcs
  <2>2. CASE v.stage = "crash"
    <3>1. Going("candidate") /\ "candidate" \in Places(v.stage)
      BY <1>5, <1>8, <2>1, <2>2 DEF Setup, Places
    <3> QED
      BY <1>3, <2>1, <3>1
  <2>3. CASE v.stage # "crash"
    <3>1. Going("post") /\ "post" \in Places(v.stage)
      BY <1>0, <1>5, <1>8, <2>1, <2>3 DEF Setup, Places, Shape, Between
    <3> QED
      BY <1>3, <2>1, <2>3, <3>1
  <2> QED
    BY <2>2, <2>3
<1>9. CASE Post
  <2>1. v.pc = "post" /\ v.stage \in Stages /\ v.n + 1 \in 1..Count(v.stage)
    BY <1>9, PostedRun DEF Post, At
  <2>2. PICK pc : /\ v' = [v EXCEPT !.n = v.n + 1, !.pc = pc]
                  /\ pc = IF v.stage = "crash" \/ v.n + 1 = Count(v.stage)
                          THEN AfterPost(v.stage) ELSE "post"
    BY <1>9 DEF Post
  <2>3. pc \in VerifierPcs /\ pc \in Places(v.stage)
    BY <2>1, <2>2 DEF AfterPost, Places, VerifierPcs, Stages
  <2>4. /\ v.stage = "crash" => pc = "watch"
        /\ v.stage # "crash" => \/ pc = "post" /\ v.n + 1 # Count(v.stage)
                                \/ v.n + 1 = Count(v.stage) /\ pc \in
                                        {"await_crash", "observe", "stream", "wait"}
        /\ pc \in {"watch", "post", "await_crash", "observe", "stream", "wait"}
        /\ pc = "await_crash" => v.stage = "dispatch"
    BY <2>2 DEF AfterPost
  <2>5. /\ v' \in VerifierRec /\ v'.pc = pc /\ v'.stage = v.stage /\ v'.n = v.n + 1
        /\ v'.trials = v.trials /\ v'.passed = v.passed /\ v'.exited = v.exited
        /\ v'.pending = v.pending /\ v'.why = v.why
    <3>1. v' = [v EXCEPT !.n = v.n + 1, !.pc = pc] /\ v.n + 1 \in Nat
      BY <1>0, <2>2
    <3> HIDE <2>2
    <3> QED
      BY <1>0, <2>3, <3>1 DEF VerifierRec
  <2>6. ~v.pending /\ ~v.exited /\ v.why = "none" /\ Cardinality(v.trials) <= Trials
        /\ (v.stage = "crash" => Cardinality(v.trials) < Trials)
    BY <1>0, <2>1 DEF Shape, OnTrial
  <2>7. pc \notin Unposted /\ pc \notin {"off", "begin"}
    BY <2>4 DEF Unposted, Between
  <2>8. v.n + 1 \in 0..Count(v.stage) /\ (pc = "post" => v.n + 1 < Count(v.stage)) /\ v.n + 1 >= 1
    BY <1>0, <1>p, <2>1, <2>4
  <2> QED
    BY <2>3, <2>4, <2>5, <2>6, <2>7, <2>8 DEF Shape
<1>10. CASE Wait
  <2>1. v.pc = "wait" /\ {"record", "row", "judge"} \subseteq VerifierPcs
    BY <1>10 DEF Wait, At, VerifierPcs
  <2>2. AfterWait(v.stage) \in {"record", "row", "judge"} /\ AfterWait(v.stage) \in Places(v.stage)
    BY <1>0, <2>1 DEF AfterWait, Places, Shape, Between, Stages
  <2>3. Going(AfterWait(v.stage)) \/ Good
    BY <1>2, <1>5, <1>10, <2>1, <2>2 DEF Wait
  <2> QED
    BY <1>3, <2>1, <2>2, <2>3
<1>11. CASE Candidate
  <2>1. v.pc = "candidate" /\ {"post", "judge"} \subseteq VerifierPcs /\ v.stage = "crash"
    BY <1>0, <1>11 DEF Candidate, At, VerifierPcs, Shape, Places, Between, Stages
  <2>2. CASE MoreCandidates
    <3>1. Going("post")
      BY <1>5, <1>11, <2>1, <2>2 DEF Candidate
    <3>2. v'.n < Candidates /\ Cardinality(v'.trials) < Trials
      BY <2>2, <3>1 DEF MoreCandidates, Going
    <3>3. /\ v' \in VerifierRec /\ v'.pc = "post" /\ v'.stage = "crash" /\ ~v'.pending /\ ~v'.exited
          /\ v'.why = "none" /\ v'.n \in 0..Candidates
      BY <1>0, <1>p, <2>1, <3>1 DEF Going, Shape, Stages
    <3>4. v'.pc \in Places(v'.stage) /\ v'.pc \notin Unposted
      BY <3>3 DEF Places, Unposted, Between
    <3>5. Cardinality(v'.trials) <= Trials
      BY <1>0, <3>1 DEF Going, Shape
    <3> QED
      BY <1>p, <3>2, <3>3, <3>4, <3>5 DEF Shape, Unposted, Between
  <2>3. CASE ~MoreCandidates
    <3>1. Going("judge") /\ "judge" \in Places(v.stage)
      BY <1>5, <1>11, <2>1, <2>3 DEF Candidate, Places
    <3> QED
      BY <1>3, <2>1, <3>1
  <2> QED
    BY <2>2, <2>3
<1>12. CASE Watch
  <2>1. v.pc = "watch" /\ {"kill", "candidate"} \subseteq VerifierPcs /\ v.stage = "crash"
    BY <1>0, <1>12 DEF Watch, At, VerifierPcs, Shape, Places, Between, Stages
  <2>2. Going("kill") \/ Going("candidate")
    BY <1>5, <1>12, <2>1 DEF Watch
  <2>3. "kill" \in Places(v.stage) /\ "candidate" \in Places(v.stage)
    BY <2>1 DEF Places
  <2> QED
    BY <1>3, <2>1, <2>2, <2>3
<1>13. CASE Kill
  <2>1. v.pc = "kill" /\ "rescale" \in VerifierPcs /\ v.stage = "crash"
    BY <1>0, <1>13 DEF Kill, At, VerifierPcs, Shape, Places, Between, Stages
  <2>2. (Going("rescale") \/ Good) /\ "rescale" \in Places(v.stage)
    BY <1>4, <1>13, <2>1 DEF Kill, Places
  <2> QED
    BY <1>3, <2>1, <2>2
<1>14. CASE Rescale
  <2>1. v.pc = "rescale" /\ "wait" \in VerifierPcs /\ v.stage = "crash"
    BY <1>0, <1>14 DEF Rescale, At, VerifierPcs, Shape, Places, Between, Stages
  <2>2. Going("wait") /\ "wait" \in Places(v.stage)
    BY <1>5, <1>14, <2>1 DEF Rescale, Places
  <2> QED
    BY <1>3, <2>1, <2>2
<1>15. CASE Record
  <2>1. v.pc = "record" /\ v.stage = "crash" /\ "candidate" \in VerifierPcs
    BY <1>0, <1>15 DEF Record, At, VerifierPcs, Shape, Places, Between, Stages
  <2>2. v.n \in 1..Candidates /\ Cardinality(v.trials) < Trials /\ v.trials \subseteq 1..Candidates
    BY <1>0, <1>p, <2>1 DEF Shape, OnTrial, VerifierRec
  <2>3. IsFiniteSet(v.trials)
    <3>1. IsFiniteSet(1..Candidates)
      BY <1>p, FS_Interval
    <3> QED
      BY <2>2, <3>1, FS_Subset
  <2>4. Cardinality(v.trials \cup {v.n}) <= Trials
    <3>1. Cardinality(v.trials) \in Nat
      BY <2>3, FS_CardinalityType
    <3>2. Cardinality(v.trials \cup {v.n}) \in {Cardinality(v.trials), Cardinality(v.trials) + 1}
      BY <2>3, FS_AddElement
    <3> QED
      BY <1>p, <2>2, <3>1, <3>2
  <2>5. /\ v' \in VerifierRec /\ v'.pc = "candidate" /\ v'.stage = "crash" /\ v'.n = v.n
        /\ v'.trials = v.trials \cup {v.n} /\ v'.exited = v.exited /\ v'.pending = v.pending
        /\ v'.why = v.why
    BY <1>0, <1>15, <2>1, <2>2 DEF Record, VerifierRec
  <2> QED
    BY <1>0, <2>1, <2>4, <2>5 DEF Shape, Places, Unposted, Between, OnTrial
<1>16. CASE AwaitCrash \/ ReadRow
  <2>1. v.pc \in {"await_crash", "crash_row"} /\ v.stage = "dispatch"
    BY <1>0, <1>16 DEF AwaitCrash, ReadRow, At, Shape, Places, Between, Stages
  <2>2. Good \/ \E b \in BOOLEAN : \/ v' = [v EXCEPT !.exited = b, !.pc = "crash_row"]
                                   \/ v' = [v EXCEPT !.pending = b, !.pc = "repair"]
    <3>1. CASE AwaitCrash
      <4>1. Good \/ \E exited \in {FALSE, marker /\ ~dispatcher.up} :
                      v' = [v EXCEPT !.exited = exited, !.pc = "crash_row"]
        BY <1>2, <3>1 DEF AwaitCrash
      <4>2. (marker /\ ~dispatcher.up) \in BOOLEAN
        OBVIOUS
      <4> QED
        BY <4>1, <4>2
    <3>2. CASE ReadRow
      <4>1. v' = [v EXCEPT !.pending = (Own \subseteq PendingOutbox), !.pc = "repair"]
        BY <3>2 DEF ReadRow
      <4>2. (Own \subseteq PendingOutbox) \in BOOLEAN
        OBVIOUS
      <4> QED
        BY <4>1, <4>2
    <3> QED
      BY <1>16, <3>1, <3>2
  <2>3. ASSUME NEW b \in BOOLEAN, \/ v' = [v EXCEPT !.exited = b, !.pc = "crash_row"]
                                  \/ v' = [v EXCEPT !.pending = b, !.pc = "repair"]
        PROVE  Good
    <3>1. /\ v' \in VerifierRec /\ v'.pc \in {"crash_row", "repair"} /\ v'.stage = "dispatch"
          /\ v'.n = v.n /\ v'.trials = v.trials /\ v'.why = v.why
      BY <1>0, <2>1, <2>3 DEF VerifierRec, VerifierPcs
    <3>2. v.why = "none" /\ v.n = 1 /\ Cardinality(v.trials) <= Trials
      BY <1>0, <1>p, <2>1 DEF Shape, Unposted, Between
    <3>3. v'.n \in 0..Count(v'.stage) /\ v'.n = Count(v'.stage)
      BY <1>p, <3>1, <3>2
    <3> QED
      BY <3>1, <3>2, <3>3 DEF Shape, Places, Unposted, Between
  <2> QED
    BY <2>2, <2>3
<1>17. CASE Repair
  <2>1. v.pc = "repair" /\ "wait" \in VerifierPcs /\ v.stage = "dispatch"
    BY <1>0, <1>17 DEF Repair, At, VerifierPcs, Shape, Places, Between, Stages
  <2>2. Going("wait") /\ "wait" \in Places(v.stage)
    BY <1>5, <1>17, <2>1 DEF Repair, Places
  <2> QED
    BY <1>3, <2>1, <2>2
<1>18. CASE AwaitRow
  <2>1. v.pc = "row" /\ "judge" \in VerifierPcs /\ v.stage = "dispatch"
    BY <1>0, <1>18 DEF AwaitRow, At, VerifierPcs, Shape, Places, Between, Stages
  <2>2. (Going("judge") \/ Good) /\ "judge" \in Places(v.stage)
    BY <1>2, <1>5, <1>18, <2>1 DEF AwaitRow, Places
  <2> QED
    BY <1>3, <2>1, <2>2
<1>19. CASE Observe
  <2>1. v.pc = "observe" /\ v.stage = "outage"
    BY <1>0, <1>19 DEF Observe, At, Shape, Places, Between, Stages
  <2>2. PICK b \in BOOLEAN : v' = [v EXCEPT !.pc = "start_redis", !.pending = b]
    <3> DEFINE b == /\ \A k \in Own : InM3(k) /\ run[k].status = "queued"
                    /\ Cardinality(PendingOutbox) = Outage
    <3>1. b \in BOOLEAN
      OBVIOUS
    <3>2. v' = [v EXCEPT !.pc = "start_redis", !.pending = b]
      BY <1>19 DEF Observe
    <3> HIDE DEF b
    <3> QED
      BY <3>1, <3>2
  <2>3. /\ v' \in VerifierRec /\ v'.pc = "start_redis" /\ v'.stage = "outage"
        /\ v'.n = v.n /\ v'.trials = v.trials /\ v'.why = v.why /\ v'.exited = v.exited
    BY <1>0, <2>1, <2>2 DEF VerifierRec, VerifierPcs
  <2>4. v.why = "none" /\ v.n = Count("outage") /\ Cardinality(v.trials) <= Trials
    BY <1>0, <2>1 DEF Shape, Unposted, Between
  <2>5. v'.n \in 0..Count(v'.stage)
    BY <1>p, <2>3, <2>4 DEF Stages
  <2> QED
    BY <2>3, <2>4, <2>5 DEF Shape, Places, Unposted, Between
<1>20. CASE StartRedis
  <2>1. v.pc = "start_redis" /\ "resume" \in VerifierPcs /\ v.stage = "outage"
    BY <1>0, <1>20, PlaceOf DEF StartRedis, At, VerifierPcs, Shape
  <2>2. Going("resume") /\ "resume" \in Places(v.stage)
    BY <1>5, <1>20, <2>1 DEF StartRedis, Places
  <2> QED
    BY <1>3, <2>1, <2>2
<1>27. CASE ResumeServices
  <2>1. v.pc = "resume" /\ "wait" \in VerifierPcs /\ v.stage = "outage"
    BY <1>0, <1>27, PlaceOf DEF ResumeServices, At, VerifierPcs, Shape
  <2>2. Going("wait") /\ "wait" \in Places(v.stage)
    BY <1>5, <1>27, <2>1 DEF ResumeServices, Places
  <2> QED
    BY <1>3, <2>1, <2>2
<1>21. CASE Stream
  <2>1. v.pc = "stream" /\ v.stage = "sse"
    BY <1>0, <1>21 DEF Stream, At, Shape, Places, Between, Stages
  <2>2. Good \/ \E seen \in SUBSET Runs : v' = [v EXCEPT !.seen = seen, !.pc = "compare"]
    <3>1. Own \subseteq Runs
      BY <1>0, <2>1, OwnRuns
    <3>2. {k \in Own : Row(k) = "dispatched"} \in SUBSET Runs
      BY <3>1
    <3> QED
      BY <1>2, <1>21, <3>2 DEF Stream
  <2>3. ASSUME NEW seen \in SUBSET Runs, v' = [v EXCEPT !.seen = seen, !.pc = "compare"]
        PROVE  Good
    <3>1. /\ v' \in VerifierRec /\ v'.pc = "compare" /\ v'.stage = "sse"
          /\ v'.n = v.n /\ v'.trials = v.trials /\ v'.why = v.why
      BY <1>0, <2>1, <2>3 DEF VerifierRec, VerifierPcs
    <3>2. v.why = "none" /\ v.n = Count("sse") /\ Cardinality(v.trials) <= Trials
      BY <1>0, <2>1 DEF Shape, Unposted, Between
    <3>3. v'.n \in 0..Count(v'.stage)
      BY <1>p, <3>1, <3>2 DEF Stages
    <3> QED
      BY <3>1, <3>2, <3>3 DEF Shape, Places, Unposted, Between
  <2> QED
    BY <2>2, <2>3
<1>22. CASE Compare
  <2>1. v.pc = "compare" /\ "wait" \in VerifierPcs /\ v.stage = "sse"
    BY <1>0, <1>22 DEF Compare, At, VerifierPcs, Shape, Places, Between, Stages
  <2>2. (Going("wait") \/ Good) /\ "wait" \in Places(v.stage)
    BY <1>4, <1>22, <2>1 DEF Compare, Places
  <2> QED
    BY <1>3, <2>1, <2>2
<1>23. CASE Judge
  <2>1. v.pc = "judge" /\ v.stage \in Stages
    BY <1>0, <1>23 DEF Judge, At, Shape, Places, Between
  <2>2. PICK pc, passed :
          \/ Good
          \/ /\ v' = [v EXCEPT !.stage = NextStage(v.stage), !.n = 0, !.passed = passed, !.seen = {},
                               !.exited = FALSE, !.pending = FALSE, !.pc = pc]
             /\ pc = IF v.stage = "sse" THEN "reset" ELSE "quiet"
             /\ passed \in {v.passed, v.passed \cup {v.stage}}
    BY <1>2, <1>23 DEF Judge
  <2>3. CASE /\ v' = [v EXCEPT !.stage = NextStage(v.stage), !.n = 0, !.passed = passed, !.seen = {},
                               !.exited = FALSE, !.pending = FALSE, !.pc = pc]
             /\ pc = IF v.stage = "sse" THEN "reset" ELSE "quiet"
             /\ passed \in {v.passed, v.passed \cup {v.stage}}
    <3>1. NextStage(v.stage) \in Stages \cup {"end"} /\ (NextStage(v.stage) = "end" <=> v.stage = "sse")
      BY <2>1, NextStages
    <3>2. pc \in VerifierPcs /\ passed \in SUBSET Stages /\ {} \in SUBSET Runs
      BY <1>0, <2>1, <2>3 DEF VerifierPcs, VerifierRec
    <3>3. /\ v' \in VerifierRec /\ v'.pc = pc /\ v'.stage = NextStage(v.stage)
          /\ v'.n = 0 /\ v'.trials = v.trials /\ v'.why = v.why /\ v'.exited = FALSE
          /\ v'.pending = FALSE
      BY <1>0, <2>3, <3>1, <3>2 DEF VerifierRec
    <3>4. v.why = "none" /\ Cardinality(v.trials) <= Trials
      BY <1>0, <2>1 DEF Shape
    <3>5. v'.stage = "end" \/ v'.n \in 0..Count(v'.stage)
      BY <1>p, <3>1, <3>3
    <3>6. v'.pc \in {"reset", "quiet"} /\ v'.pc \in Places(v'.stage)
      BY <2>3, <3>1, <3>3 DEF Places, Between
    <3> QED
      BY <3>3, <3>4, <3>5, <3>6 DEF Shape, Unposted, Between, OnTrial
  <2> QED
    BY <2>2, <2>3
<1>24. CASE Reset
  <2>1. v.pc = "reset" /\ "quiet" \in VerifierPcs /\ v.stage = "end"
    BY <1>0, <1>24, PlaceOf DEF Reset, At, VerifierPcs, Shape
  <2>2. Going("quiet") /\ "quiet" \in Places(v.stage)
    BY <1>5, <1>24, <2>1 DEF Reset, Places, Between
  <2> QED
    BY <1>3, <2>1, <2>2
<1>28. CASE Leaked
  <2>1. v.pc = "leaked" /\ "write" \in VerifierPcs /\ v.stage = "end"
    BY <1>0, <1>28, PlaceOf DEF Leaked, At, VerifierPcs, Shape
  <2>2. (Going("write") \/ Good) /\ "write" \in Places(v.stage)
    BY <1>4, <1>28, <2>1 DEF Leaked, Places
  <2> QED
    BY <1>3, <2>1, <2>2
<1>25. CASE WriteGate \/ VerifierKilled \/ VerifierFails
  BY <1>2, <1>25, KillGoes DEF WriteGate, VerifierKilled, VerifierFails, Gone
<1>26. CASE System \/ Script \/ UNCHANGED vars
  BY <1>1, <1>26, SystemFrame, ScriptFrame, LaunchGoes DEF vars, gate
<1> QED
  BY <1>6, <1>7, <1>8, <1>9, <1>10, <1>11, <1>12, <1>13, <1>14, <1>15, <1>16, <1>17, <1>18, <1>19,
     <1>20, <1>21, <1>22, <1>23, <1>24, <1>25, <1>26, <1>27, <1>28 DEF Next, Verifier

LEMMA TypeStep ==
  ASSUME TypeInv, [Next]_vars
  PROVE  TypeInv'
<1>1. ServiceTypes' /\ RunTypes' /\ v' \in VerifierRec /\ Shape(v')
  BY ServicesStep, RunTypesStep, ShapeStep
<1>0. script \in ScriptPcs /\ report \subseteq {"failure", "gate"} /\ stray \in BOOLEAN /\ faults \in 0..MaxFaults
  BY DEF TypeInv, GateTypes
<1>2. script' \in ScriptPcs
  <2>1. UNCHANGED script \/ Script
    BY SystemFrame, VerifierFrame DEF Next, VerifierFails, VerifierKilled, vars, gate
  <2>2. Script => script' \in ScriptPcs
    BY <1>0 DEF Script, Start, Prepare, Up, Launch, VerifierEnded, ScriptFails, Signal,
       CutOff, Restore, Goto,
       ScriptPcs
  <2> QED
    BY <1>0, <2>1, <2>2
<1>3. report' \subseteq {"failure", "gate"}
  <2>1. report' = report \/ report' = report \cup {"failure"} \/ report' = report \cup {"gate"}
    <3>1. CASE System \/ Script \/ VerifierKilled \/ UNCHANGED vars
      BY <3>1, SystemFrame, ScriptFrame DEF VerifierKilled, vars, gate
    <3>2. CASE Verifier \/ VerifierFails
      BY <3>2 DEF Verifier, VerifierFails, Begin, Quiet, Setup, Post, Wait, Candidate, Watch, Kill,
         Rescale, Record, AwaitCrash, ReadRow, Repair, AwaitRow, Observe, StartRedis,
         ResumeServices, Stream, Compare, Judge, Reset, Leaked, WriteGate, Require, Fail
    <3> QED
      BY <3>1, <3>2 DEF Next
  <2> QED
    BY <1>0, <2>1
<1>4. stray' \in BOOLEAN
  <2>1. UNCHANGED stray \/ stray' = (stray \/ ~At("off"))
    BY SystemFrame, VerifierFrame DEF Next, VerifierFails, VerifierKilled, Script, Start, Prepare, Up,
       Launch, VerifierEnded, ScriptFails, Signal, CutOff, Restore, vars, gate
  <2> QED
    BY <1>0, <2>1
<1>5. faults' \in 0..MaxFaults
  <2>1. UNCHANGED faults \/ (faults < MaxFaults /\ faults' = faults + 1)
    <3>1. CASE System
      BY <3>1 DEF System, Commit, DispatcherRestarts, DispatcherDies, Publish, Claim, UseTool, Resume,
         MeetFault, End, Sweep, HorseDies
    <3>2. CASE Verifier \/ VerifierFails \/ VerifierKilled \/ UNCHANGED vars
      BY <3>2, VerifierFrame DEF VerifierFails, VerifierKilled, vars
    <3>3. CASE Script
      BY <3>3 DEF Script, Start, Prepare, Up, Launch, VerifierEnded, ScriptFails, Signal,
         CutOff, Restore
    <3> QED
      BY <3>1, <3>2, <3>3 DEF Next
  <2> QED
    BY <1>0, <2>1, Sizes
<1> QED
  BY <1>1, <1>2, <1>3, <1>4, <1>5 DEF TypeInv, GateTypes

LEMMA TypeInit == Init => TypeInv
<1> SUFFICES ASSUME Init PROVE TypeInv
  OBVIOUS
<1>1. ServiceTypes
  BY DEF Init, ServiceTypes, Databases, Fresh
<1>2. RunTypes
  <2>1. run = [k \in Runs |-> Absent]
    BY DEF Init
  <2> QED
    BY <2>1, AbsentIs DEF RunTypes
<1>3. GateTypes
  <2>1. v = NoVerifier /\ script = "idle" /\ report = {} /\ stray = FALSE /\ faults = 0
    BY DEF Init
  <2>2. 0 \in 0..MaxFaults /\ "idle" \in ScriptPcs
    BY Sizes DEF ScriptPcs
  <2> QED
    BY <2>1, <2>2, NobodyIs DEF GateTypes
<1> QED
  BY <1>1, <1>2, <1>3 DEF TypeInv

\* Each variable is of its type, EXP-1 spends no more than its candidates and counts no more than
\* its trials, and no run has more attempts than settings.max_attempts.
THEOREM TypeCorrect == Spec => []TypeOK
<1>1. TypeInv => TypeOK
  <2> SUFFICES ASSUME TypeInv PROVE TypeOK
    OBVIOUS
  <2>1. v \in VerifierRec /\ Shape(v)
    BY DEF TypeInv, GateTypes
  <2>2. v.n \in 0..Candidates + Outage + Batch
    <3>1. v.stage = "end" => v.n = 0
      <4>1. v.stage = "end" => v.pc \in Unposted
        BY <2>1, PlaceOf DEF Shape, Unposted, Between, VerifierRec
      <4> QED
        BY <2>1, <4>1 DEF Shape
    <3>2. v.stage # "end" => v.n \in 0..Count(v.stage) /\ v.stage \in Stages
      BY <2>1 DEF Shape, VerifierRec
    <3>3. \A s \in Stages : Count(s) \in Nat /\ Count(s) <= Candidates + Outage + Batch
      BY Sizes, Counts
    <3> QED
      BY <3>1, <3>2, <3>3, Sizes
  <2>3. v \in [pc: VerifierPcs, stage: Stages \cup {"end"}, n: 0..Candidates + Outage + Batch,
               trials: SUBSET (1..Candidates), passed: SUBSET Stages, seen: SUBSET Runs,
               exited: BOOLEAN, pending: BOOLEAN, why: {"none", "dispatch"}]
    BY <2>1, <2>2 DEF VerifierRec
  <2>4. Cardinality(v.trials) <= Trials /\ (v.stage # "end" => v.n <= Count(v.stage))
    BY <2>1, Counts DEF Shape, VerifierRec
  <2>5. DOMAIN run = Runs /\ \A k \in Runs : run[k] \in RunRec
    BY DEF TypeInv, RunTypes
  <2> QED
    BY <2>3, <2>4, <2>5 DEF TypeInv, GateTypes, ServiceTypes, TypeOK, RunRec
<1>2. Spec => []TypeInv
  BY TypeInit, TypeStep, PTL DEF Spec
<1> QED
  BY <1>1, <1>2, PTL
-----------------------------------------------------------------------------
(* The ordinary runtime                                                      *)

\* The script prepares while no verifier is there, and only then; a verifier it still watches
\* has all of its services.
PlaneInv ==
    /\ script \in {"prepare", "up", "launch"} => At("off")
    /\ dispatcher.crash => plane["dispatcher"] = "m3"
    /\ script \in {"up", "launch"} => redis
    /\ ~stray => /\ ~At("off") => script = "driving"
                 /\ script \in {"launch", "driving"} => \A s \in Services : plane[s] = "m3"
                 /\ NormalUntouched

\* The verifier takes services to its own database and no others, never the API.
LEMMA VerifierMoves ==
  ASSUME TypeInv, Verifier \/ VerifierFails
  PROVE  /\ \A s \in Services : plane'[s] \in {plane[s], "m3"}
         /\ plane'["api"] = plane["api"]
         /\ dispatcher'.crash => \/ plane'["dispatcher"] = "m3"
                                 \/ dispatcher.crash /\ plane'["dispatcher"] = plane["dispatcher"]
<1>0. "dispatcher" \in Services /\ "api" \in Services /\ plane \in [Services -> Databases]
  BY DEF Services, TypeInv, ServiceTypes
<1>1. Fresh(FALSE).crash = FALSE
  BY DEF Fresh
<1>2. ASSUME NEW moved \in SUBSET {"worker", "dispatcher"}, plane' = Moved(moved, "m3")
      PROVE  /\ \A s \in Services : plane'[s] \in {plane[s], "m3"}
             /\ plane'["api"] = plane["api"]
             /\ plane'["dispatcher"] = IF "dispatcher" \in moved THEN "m3" ELSE plane["dispatcher"]
  <2>1. \A s \in Services : plane'[s] = IF s \in moved THEN "m3" ELSE plane[s]
    BY <1>2 DEF Moved
  <2> QED
    BY <1>0, <2>1
<1>3. CASE UNCHANGED <<plane, dispatcher>>
  BY <1>3
<1>4. CASE dispatcher' = Fresh(FALSE) /\ \E moved \in SUBSET {"worker", "dispatcher"} : plane' = Moved(moved, "m3")
  BY <1>1, <1>2, <1>4
<1>5. CASE dispatcher' = dispatcher /\ plane' = Moved({"worker"}, "m3")
  <2>1. {"worker"} \in SUBSET {"worker", "dispatcher"}
    OBVIOUS
  <2> QED
    BY <1>2, <1>5, <2>1
<1>6. CASE Setup
  <2>1. CASE v.stage = "dispatch"
    <3>1. plane' = Moved({"dispatcher"}, "m3") /\ {"dispatcher"} \in SUBSET {"worker", "dispatcher"}
      BY <1>6, <2>1 DEF Setup
    <3>2. "dispatcher" \in {"dispatcher"}
      OBVIOUS
    <3> QED
      BY <1>2, <3>1, <3>2
  <2>2. CASE v.stage = "outage"
    <3>1. plane' = Moved({"worker", "dispatcher"}, "m3") /\ dispatcher' = Fresh(FALSE)
      BY <1>6, <2>2 DEF Setup
    <3> QED
      BY <1>4, <3>1
  <2>3. CASE v.stage = "crash"
    <3>1. plane' = Moved({}, "m3") /\ dispatcher' = dispatcher
      BY <1>6, <2>3 DEF Setup
    <3>2. {} \in SUBSET {"worker", "dispatcher"} /\ "dispatcher" \notin {}
      OBVIOUS
    <3> QED
      BY <1>2, <3>1, <3>2
  <2>4. CASE v.stage \notin {"crash", "dispatch", "outage"}
    <3>1. plane' = Moved({"worker"}, "m3") /\ dispatcher' = dispatcher
      BY <1>6, <2>4 DEF Setup
    <3> QED
      BY <1>5, <3>1
  <2> QED
    BY <2>1, <2>2, <2>3, <2>4
<1>7. CASE Candidate \/ Rescale
  BY <1>3, <1>5, <1>7 DEF Candidate, Rescale, ScaleWorkers, services
<1>8. CASE Repair
  BY <1>4, <1>8 DEF Repair
<1>9. CASE ResumeServices
  BY <1>4, <1>9 DEF ResumeServices, Resupply
<1>10. CASE VerifierFails
  BY <1>3, <1>4, <1>10 DEF VerifierFails, Resupply, services
<1>11. CASE Reset
  BY <1>4, <1>11 DEF Reset
<1>12. CASE Verifier /\ ~(Setup \/ Candidate \/ Rescale \/ Repair \/ ResumeServices \/ Reset)
  <2>1. UNCHANGED <<plane, dispatcher>>
    BY <1>12 DEF Verifier, Begin, Quiet, Post, Wait, Watch, Kill, Record, AwaitCrash, ReadRow,
       AwaitRow,
       Observe, StartRedis, Stream, Compare, Judge, Leaked, WriteGate, services
  <2> QED
    BY <1>3, <2>1
<1> QED
  BY <1>6, <1>7, <1>8, <1>9, <1>10, <1>11, <1>12

\* What the system does to the dispatcher.
LEMMA SystemKeeps ==
  ASSUME TypeInv, System
  PROVE  /\ dispatcher'.crash = dispatcher.crash /\ dispatcher'.restart = dispatcher.restart
         /\ marker => marker'
<1>1. dispatcher \in [up: BOOLEAN, crash: BOOLEAN, restart: BOOLEAN]
  BY DEF TypeInv, ServiceTypes
<1>2. dispatcher' \in {dispatcher, [dispatcher EXCEPT !.up = FALSE], [dispatcher EXCEPT !.up = TRUE]}
  BY DEF System, Commit, DispatcherRestarts, DispatcherDies, Publish, Claim, UseTool, Resume,
     MeetFault, End, Sweep, HorseDies, services
<1>3. marker => marker'
  BY DEF System, Commit, DispatcherRestarts, DispatcherDies, Publish, Claim, UseTool, Resume,
     MeetFault, End, Sweep, HorseDies, services
<1> QED
  BY <1>1, <1>2, <1>3

\* No run changes its database, and one that is posted gets the one of the API.
LEMMA HomesStay ==
  ASSUME TypeInv, [Next]_vars, NEW k \in Runs
  PROVE  run'[k].home = run[k].home \/ (Post /\ run'[k].home = plane["api"])
<1>1. CASE AllEvolve(run, run')
  BY <1>1 DEF AllEvolve, Evolves, Lasts
<1>2. CASE Post /\ run' = [run EXCEPT ![<<v.stage, v.n + 1>>] = Posted]
  <2>1. run'[k] = run[k] \/ run'[k] = Posted
    BY <1>2 DEF TypeInv, RunTypes
  <2> QED
    BY <1>2, <2>1, PostedRun
<1>3. CASE \A j \in Runs : Lasts(run[j], run'[j])
  BY <1>3 DEF Lasts
<1> QED
  BY <1>1, <1>2, <1>3, RunsMove

LEMMA PlaneStep ==
  ASSUME TypeInv, PlaneInv, [Next]_vars
  PROVE  PlaneInv'
<1>0. /\ "api" \in Services /\ "dispatcher" \in Services /\ plane \in [Services -> Databases]
      /\ dispatcher \in [up: BOOLEAN, crash: BOOLEAN, restart: BOOLEAN] /\ stray \in BOOLEAN
  BY DEF Services, TypeInv, ServiceTypes, GateTypes
<1>f. Fresh(FALSE).crash = FALSE /\ Fresh(FALSE).restart = TRUE
  BY DEF Fresh
<1>1. (script \in {"prepare", "up", "launch"} => At("off"))'
  <2>1. CASE System \/ VerifierKilled \/ UNCHANGED vars
    BY <2>1, SystemFrame DEF PlaneInv, VerifierKilled, NoVerifier, At, vars, gate
  <2>2. CASE Verifier \/ VerifierFails
    BY <2>2, VerifierFrame DEF PlaneInv, VerifierFails, At
  <2>3. CASE Script
    BY <2>3 DEF Script, PlaneInv, Start, Prepare, Up, Launch, VerifierEnded, ScriptFails, Signal,
       CutOff,
       Restore,
       Goto, InScript, At
  <2> QED
    BY <2>1, <2>2, <2>3 DEF Next
<1>2. (dispatcher.crash => plane["dispatcher"] = "m3")'
  <2>1. CASE System
    BY <2>1, SystemFrame, SystemKeeps DEF PlaneInv
  <2>2. CASE Verifier \/ VerifierFails
    BY <2>2, VerifierMoves DEF PlaneInv
  <2>3. CASE Up \/ Restore
    BY <1>f, <2>3 DEF Up, Restore, MoveAll
  <2>4. CASE UNCHANGED <<plane, dispatcher>>
    BY <2>4 DEF PlaneInv
  <2> QED
    BY <2>1, <2>2, <2>3, <2>4 DEF Next, Script, Start, Prepare, Launch, VerifierEnded, ScriptFails,
       Signal, CutOff,
       VerifierKilled, services, vars
<1>3. (script \in {"up", "launch"} => redis)'
  <2>1. CASE System \/ VerifierKilled \/ UNCHANGED vars
    BY <2>1, SystemFrame DEF PlaneInv, VerifierKilled, vars, services, gate
  <2>2. CASE Verifier \/ VerifierFails
    BY <2>2, VerifierFrame DEF PlaneInv, VerifierFails, At
  <2>3. CASE Script
    BY <2>3 DEF Script, PlaneInv, Start, Prepare, Up, Launch, VerifierEnded, ScriptFails, Signal,
       CutOff,
       Restore,
       Goto, InScript, services
  <2> QED
    BY <2>1, <2>2, <2>3 DEF Next
<1>4. SUFFICES ASSUME ~stray'
               PROVE  /\ ~At("off")' => script' = "driving"
                      /\ script' \in {"launch", "driving"} => \A s \in Services : plane'[s] = "m3"
                      /\ NormalUntouched'
  BY <1>1, <1>2, <1>3 DEF PlaneInv
<1>5. ~stray
  BY <1>0, <1>4, SystemFrame, VerifierFrame DEF Next, VerifierFails, VerifierKilled, Script, Start,
     Prepare, Up,
     Launch, VerifierEnded, ScriptFails, Signal, CutOff, Restore, vars, gate
<1>6. /\ ~At("off") => script = "driving"
      /\ script \in {"launch", "driving"} => \A s \in Services : plane[s] = "m3"
      /\ \A k \in Runs : run[k].home # "normal"
      /\ script = "idle" => /\ redis /\ \A s \in Services : plane[s] = "normal"
                            /\ fleet = [size |-> 1, pause |-> FALSE]
                            /\ ~dispatcher.crash /\ dispatcher.restart /\ proxy = "off"
  BY <1>5 DEF PlaneInv, NormalUntouched
<1>7. ~At("off")' => script' = "driving"
  <2>1. CASE System \/ VerifierKilled \/ UNCHANGED vars
    BY <1>6, <2>1, SystemFrame DEF VerifierKilled, NoVerifier, At, vars, gate
  <2>2. CASE Verifier \/ VerifierFails
    BY <1>6, <2>2, VerifierFrame DEF VerifierFails, At
  <2>3. CASE Script
    BY <1>4, <1>6, <2>3 DEF Script, Start, Prepare, Up, Launch, VerifierEnded, ScriptFails, Signal,
       CutOff,
       Restore,
       Goto, InScript, At
  <2> QED
    BY <2>1, <2>2, <2>3 DEF Next
<1>8. script' \in {"launch", "driving"} => \A s \in Services : plane'[s] = "m3"
  <2>1. CASE System \/ VerifierKilled \/ UNCHANGED vars
    BY <1>6, <2>1, SystemFrame DEF VerifierKilled, vars, services, gate
  <2>2. CASE Verifier \/ VerifierFails
    BY <1>6, <2>2, VerifierFrame, VerifierMoves DEF VerifierFails
  <2>3. CASE Up
    BY <2>3 DEF Up, MoveAll, Moved
  <2>4. CASE Script /\ ~Up
    BY <1>6, <2>4 DEF Script, Start, Prepare, Launch, VerifierEnded, ScriptFails, Signal,
       CutOff, Restore,
       Goto, InScript, services
  <2> QED
    BY <2>1, <2>2, <2>3, <2>4 DEF Next
<1>9. \A k \in Runs : run'[k].home # "normal"
  <2> SUFFICES ASSUME NEW k \in Runs PROVE run'[k].home # "normal"
    OBVIOUS
  <2>1. Post => plane["api"] = "m3"
    BY <1>0, <1>6 DEF Post, At
  <2> QED
    BY <1>6, <2>1, HomesStay
<1>10. script' = "idle" => /\ redis' /\ \A s \in Services : plane'[s] = "normal"
                           /\ fleet' = [size |-> 1, pause |-> FALSE]
                           /\ ~dispatcher'.crash /\ dispatcher'.restart /\ proxy' = "off"
  <2> SUFFICES ASSUME script' = "idle"
               PROVE  /\ redis' /\ \A s \in Services : plane'[s] = "normal"
                      /\ fleet' = [size |-> 1, pause |-> FALSE]
                      /\ ~dispatcher'.crash /\ dispatcher'.restart /\ proxy' = "off"
    OBVIOUS
  <2>1. CASE System
    BY <1>6, <2>1, SystemFrame, SystemKeeps
  <2>2. CASE Verifier \/ VerifierFails
    BY <1>6, <2>2, VerifierFrame DEF VerifierFails
  <2>3. CASE VerifierKilled \/ UNCHANGED vars
    BY <1>6, <2>3 DEF VerifierKilled, vars, services, gate
  <2>4. CASE Restore
    <3>1. /\ redis' = TRUE /\ plane' = Moved(Services, "normal") /\ fleet' = [size |-> 1, pause |-> FALSE]
          /\ dispatcher' = Fresh(FALSE) /\ proxy' = "off"
      BY <2>4 DEF Restore, MoveAll, RedisAfter
    <3> QED
      BY <1>f, <3>1 DEF Moved
  <2>5. CASE Script /\ ~Restore
    BY <2>5 DEF Script, Start, Prepare, Up, Launch, VerifierEnded, ScriptFails, Signal, CutOff, Goto
  <2> QED
    BY <2>1, <2>2, <2>3, <2>4, <2>5 DEF Next
<1> QED
  BY <1>7, <1>8, <1>9, <1>10 DEF NormalUntouched

LEMMA PlaneInit == Init => PlaneInv
<1> SUFFICES ASSUME Init PROVE PlaneInv
  OBVIOUS
<1>1. /\ \A s \in Services : plane[s] = "normal"
      /\ \A k \in Runs : run[k].home = "none"
      /\ ~dispatcher.crash /\ dispatcher.restart
  BY DEF Init, Fresh, Absent
<1> QED
  BY <1>1 DEF Init, PlaneInv, NormalUntouched, NoVerifier, At

LEMMA SafePlaces == Spec => [](TypeInv /\ PlaneInv)
<1>1. Init => TypeInv /\ PlaneInv
  BY TypeInit, PlaneInit
<1>2. TypeInv /\ PlaneInv /\ [Next]_vars => (TypeInv /\ PlaneInv)'
  BY TypeStep, PlaneStep
<1> QED
  BY <1>1, <1>2, PTL DEF Spec

\* Unless a verifier outlives its script, no run of a gate gets into the ordinary database, and
\* whenever no script is running and the last one was not killed before its trap had run, every
\* service is on that database, with Redis up, one worker that does not pause, no crash switch,
\* a dispatcher that is restarted, and no proxy.
THEOREM TheOrdinaryRuntimeIsRestored == Spec => []NormalUntouched
<1>1. PlaneInv => NormalUntouched
  BY DEF PlaneInv, NormalUntouched
<1> QED
  BY <1>1, SafePlaces, PTL
-----------------------------------------------------------------------------
(* The experiments do not disturb one another                                *)

\* The verifier has found the databases empty.
Begun == v.pc \notin {"off", "begin"}
KnownInv == Begun => \A k \in Runs : Known(run[k])
\* What the three reads of ensure_quiescent find, and what they mean together.
QuietInv ==
    /\ v.pc \in {"queue", "outbox"} => \A k \in Runs : InM3(k) => Ended(k)
    /\ Underway => \A k \in Runs : InM3(k) /\ Rank(k[1]) < Rank(v.stage) => Over(run[k])

\* A step of the verifier within a stage, and what it has found before it goes further.
GoesOn ==
    /\ v'.stage = v.stage /\ v'.passed = v.passed /\ v'.why = v.why
    /\ v'.n = v.n \/ Post
    /\ v'.trials = v.trials \/ Record
    /\ v'.exited = v.exited \/ AwaitCrash
    /\ v'.pending = v.pending \/ ReadRow \/ Observe
    /\ v'.pc # "off" => v.pc # "off"
    /\ Begun' => Begun \/ (At("begin") /\ Untouched)
    /\ v'.pc \in {"queue", "outbox"} => v.pc \in {"queue", "outbox"} \/ NoActiveRun
    /\ Underway' => Underway \/ (At("outbox") /\ PendingOutbox = {})
NextOne ==
    /\ Judge /\ v'.stage = NextStage(v.stage) /\ v'.n = 0 /\ v'.trials = v.trials
    /\ v'.pc \in {"quiet", "reset"} /\ ~v'.exited /\ ~v'.pending /\ v'.why = v.why
    /\ v'.passed = IF Meets(v.stage) THEN v.passed \cup {v.stage} ELSE v.passed
    /\ (v.stage = "429" \/ Meets(v.stage)) /\ (v.stage = "timeout" => "429" \in v.passed)

LEMMA HopGoesOn ==
  ASSUME NEW pc, v'.pc = pc, v'.stage = v.stage, v'.passed = v.passed, v'.why = v.why,
         v'.n = v.n \/ Post, v'.trials = v.trials \/ Record, v.pc # "off",
         v'.exited = v.exited \/ AwaitCrash, v'.pending = v.pending \/ ReadRow \/ Observe,
         pc \in {"queue", "outbox"} => v.pc \in {"queue", "outbox"} \/ NoActiveRun,
         \/ v.pc \notin {"begin", "quiet", "queue", "outbox", "reset"}
         \/ v.pc = "begin" /\ pc = "quiet" /\ Untouched
         \/ v.pc \in {"quiet", "queue", "reset"} /\ pc \in {"quiet", "queue", "outbox"}
         \/ v.pc = "outbox" /\ PendingOutbox = {}
  PROVE  GoesOn
BY DEF GoesOn, Begun, Underway, At

LEMMA VerifierSteps ==
  ASSUME TypeInv, [Next]_vars
  PROVE  v'.pc = "off" \/ Launch \/ NextOne \/ GoesOn
<1>0. v \in VerifierRec /\ Shape(v) /\ v.stage \in Stages \cup {"end"} /\ v.n \in Nat
  BY DEF TypeInv, GateTypes, VerifierRec
<1> DEFINE Good == v'.pc = "off" \/ Launch \/ NextOne \/ GoesOn
<1>1. \A why \in {"none", "dispatch"} : Fail(why) => Good
  BY <1>0, FailGoes DEF Gone
<1>2. ASSUME NEW pc \in VerifierPcs, NEW condition, Require(condition, pc)
      PROVE  (condition /\ Going(pc)) \/ Good
  BY <1>0, <1>2, RequireGoes DEF Gone
<1>3. \A pc \in VerifierPcs : To(pc) => Going(pc)
  BY <1>0, ToGoes
<1>4. v' = v => Good
  BY <1>4 DEF GoesOn, Begun, Underway
<1>5. ASSUME NEW pc, Going(pc), v.pc \notin {"off", "begin", "quiet", "queue", "outbox", "reset"},
             pc \notin {"queue", "outbox"}
      PROVE  Good
  BY <1>5, HopGoesOn DEF Going
<1>6. CASE Begin
  <2>1. At("begin") /\ "quiet" \in VerifierPcs /\ Require(Untouched, "quiet")
    BY <1>6 DEF Begin, VerifierPcs
  <2>2. (Untouched /\ Going("quiet")) \/ Good
    BY <1>2, <2>1
  <2> QED
    BY <2>1, <2>2, HopGoesOn DEF Going, At
<1>7. CASE Quiet
  <2>1. {"queue", "outbox", "leaked", "setup"} \subseteq VerifierPcs
    BY DEF VerifierPcs
  <2>2. CASE At("quiet") /\ Require(NoActiveRun, "queue")
    <3>1. (NoActiveRun /\ Going("queue")) \/ Good
      BY <1>2, <2>1, <2>2
    <3> QED
      BY <2>2, <3>1, HopGoesOn DEF Going, At
  <2>3. CASE At("queue") /\ Require(redis /\ \A k \in Runs : InM3(k) => ~run[k].waiting, "outbox")
    <3>1. Going("outbox") \/ Good
      BY <1>2, <2>1, <2>3
    <3> QED
      BY <2>3, <3>1, HopGoesOn DEF Going, At
  <2>4. CASE At("outbox") /\ Require(PendingOutbox = {}, IF v.stage = "end" THEN "leaked" ELSE "setup")
    <3> DEFINE pc == IF v.stage = "end" THEN "leaked" ELSE "setup"
    <3>1. pc \in VerifierPcs /\ pc \notin {"queue", "outbox"}
      BY <2>1
    <3>2. (PendingOutbox = {} /\ Going(pc)) \/ Good
      BY <1>2, <2>4, <3>1
    <3> HIDE DEF pc
    <3> QED
      BY <2>4, <3>1, <3>2, HopGoesOn DEF Going, At
  <2> QED
    BY <1>7, <2>2, <2>3, <2>4 DEF Quiet
<1>8. CASE Compare
  <2>1. At("compare") /\ "wait" \in VerifierPcs /\ \E c : Require(c, "wait")
    BY <1>8 DEF Compare, VerifierPcs
  <2> QED
    BY <1>2, <1>5, <2>1 DEF At
<1>9. CASE Leaked
  <2>1. At("leaked") /\ "write" \in VerifierPcs /\ \E c : Require(c, "write")
    BY <1>9 DEF Leaked, VerifierPcs
  <2> QED
    BY <1>2, <1>5, <2>1 DEF At
<1>10. CASE Kill
  <2>1. At("kill") /\ "rescale" \in VerifierPcs /\ \E c : Require(c, "rescale")
    BY <1>10 DEF Kill, VerifierPcs
  <2> QED
    BY <1>2, <1>5, <2>1 DEF At
<1>11. CASE Setup \/ Candidate \/ Watch \/ Rescale \/ Repair \/ StartRedis \/ ResumeServices
  <2>1. /\ v.pc \in {"setup", "candidate", "watch", "rescale", "repair", "start_redis", "resume"}
        /\ \E pc \in {"candidate", "post", "judge", "kill", "wait", "resume"} : To(pc)
    BY <1>11 DEF Setup, Candidate, Watch, Rescale, Repair, StartRedis, ResumeServices, At
  <2>2. {"candidate", "post", "judge", "kill", "wait", "resume"} \subseteq VerifierPcs
    BY DEF VerifierPcs
  <2> QED
    BY <1>3, <1>5, <2>1, <2>2
<1>12. CASE Wait \/ AwaitRow
  <2>1. /\ v.pc \in {"wait", "row"}
        /\ Good \/ \E pc \in {"record", "row", "judge"} : To(pc)
    BY <1>1, <1>12 DEF Wait, AwaitRow, At, AfterWait
  <2>2. {"record", "row", "judge"} \subseteq VerifierPcs
    BY DEF VerifierPcs
  <2> QED
    BY <1>3, <1>5, <2>1, <2>2
<1>13. CASE Reset
  <2>1. v.pc = "reset" /\ To("quiet") /\ "quiet" \in VerifierPcs
    BY <1>13 DEF Reset, At, VerifierPcs
  <2>2. Going("quiet")
    BY <1>3, <2>1
  <2> QED
    BY <2>1, <2>2, HopGoesOn DEF Going
<1>14. CASE Post
  <2>1. v.pc = "post" /\ \E n, pc : /\ v' = [v EXCEPT !.n = n, !.pc = pc]
                                   /\ pc \notin {"begin", "quiet", "queue", "outbox", "reset"}
    <3> DEFINE pc == IF v.stage = "crash" \/ v.n + 1 = Count(v.stage) THEN AfterPost(v.stage) ELSE "post"
    <3>1. v' = [v EXCEPT !.n = v.n + 1, !.pc = pc] /\ v.pc = "post"
      BY <1>14 DEF Post, At
    <3>2. pc \notin {"begin", "quiet", "queue", "outbox", "reset"}
      BY DEF AfterPost
    <3> HIDE DEF pc
    <3> QED
      BY <3>1, <3>2
  <2> QED
    BY <1>0, <1>14, <2>1, HopGoesOn DEF VerifierRec
<1>15. CASE Record
  <2>1. v.pc = "record" /\ v' = [v EXCEPT !.trials = @ \cup {v.n}, !.pc = "candidate"]
    BY <1>15 DEF Record, At
  <2> QED
    BY <1>0, <1>15, <2>1, HopGoesOn DEF VerifierRec
<1>16. CASE AwaitCrash
  <2>1. v.pc = "await_crash" /\ (Good \/ \E exited : v' = [v EXCEPT !.exited = exited, !.pc = "crash_row"])
    BY <1>1, <1>16 DEF AwaitCrash, At
  <2> QED
    BY <1>0, <1>16, <2>1, HopGoesOn DEF VerifierRec
<1>17. CASE ReadRow
  <2>1. v.pc = "crash_row" /\ \E pending : v' = [v EXCEPT !.pending = pending, !.pc = "repair"]
    BY <1>17 DEF ReadRow, At
  <2> QED
    BY <1>0, <1>17, <2>1, HopGoesOn DEF VerifierRec
<1>18. CASE Observe
  <2>1. v.pc = "observe" /\ \E pending : v' = [v EXCEPT !.pc = "start_redis", !.pending = pending]
    BY <1>18 DEF Observe, At
  <2> QED
    BY <1>0, <1>18, <2>1, HopGoesOn DEF VerifierRec
<1>19. CASE Stream
  <2>1. v.pc = "stream" /\ (Good \/ \E seen : v' = [v EXCEPT !.seen = seen, !.pc = "compare"])
    BY <1>1, <1>19 DEF Stream, At
  <2> QED
    BY <1>0, <2>1, HopGoesOn DEF VerifierRec
<1>20. CASE Judge
  <2> DEFINE passed == IF Meets(v.stage) THEN v.passed \cup {v.stage} ELSE v.passed
             pc == IF v.stage = "sse" THEN "reset" ELSE "quiet"
  <2>1. \/ Good
        \/ /\ v' = [v EXCEPT !.stage = NextStage(v.stage), !.n = 0, !.passed = passed, !.seen = {},
                             !.exited = FALSE, !.pending = FALSE, !.pc = pc]
           /\ (v.stage = "429" \/ Meets(v.stage)) /\ (v.stage = "timeout" => "429" \in v.passed)
    BY <1>1, <1>20 DEF Judge
  <2>2. pc \in {"quiet", "reset"}
    OBVIOUS
  <2> HIDE DEF passed, pc
  <2>3. CASE /\ v' = [v EXCEPT !.stage = NextStage(v.stage), !.n = 0, !.passed = passed, !.seen = {},
                             !.exited = FALSE, !.pending = FALSE, !.pc = pc]
             /\ (v.stage = "429" \/ Meets(v.stage)) /\ (v.stage = "timeout" => "429" \in v.passed)
    <3>1. /\ v'.stage = NextStage(v.stage) /\ v'.n = 0 /\ v'.trials = v.trials /\ v'.pc = pc
          /\ v'.exited = FALSE /\ v'.pending = FALSE /\ v'.why = v.why /\ v'.passed = passed
      BY <1>0, <2>3 DEF VerifierRec
    <3> QED
      BY <1>20, <2>2, <2>3, <3>1 DEF NextOne, passed
  <2> QED
    BY <2>1, <2>3
<1>21. CASE WriteGate \/ VerifierKilled \/ VerifierFails
  BY <1>1, <1>21 DEF WriteGate, VerifierKilled, VerifierFails, NoVerifier
<1>22. CASE System \/ Script \/ UNCHANGED vars
  BY <1>4, <1>22, SystemFrame, ScriptFrame DEF vars, gate
<1> QED
  BY <1>6, <1>7, <1>8, <1>9, <1>10, <1>11, <1>12, <1>13, <1>14, <1>15, <1>16, <1>17, <1>18, <1>19,
     <1>20, <1>21, <1>22 DEF Next, Verifier

\* While a verifier is there, runs only go on, or one is posted that was not.
LEMMA RunsGoOn ==
  ASSUME TypeInv, PlaneInv, [Next]_vars, ~At("off")
  PROVE  \/ AllEvolve(run, run')
         \/ /\ Post /\ run'[<<v.stage, v.n + 1>>] = Posted
            /\ \A k \in Runs : k # <<v.stage, v.n + 1>> => run'[k] = run[k]
<1>1. ~Prepare
  BY DEF Prepare, PlaneInv, InScript
<1>2. CASE Post /\ run' = [run EXCEPT ![<<v.stage, v.n + 1>>] = Posted]
  BY <1>2, PostedRun DEF TypeInv, RunTypes
<1> QED
  BY <1>1, <1>2, RunsMove

LEMMA KnownStep ==
  ASSUME TypeInv, PlaneInv, KnownInv, [Next]_vars
  PROVE  KnownInv'
<1> SUFFICES ASSUME Begun' PROVE \A k \in Runs : Known(run'[k])
  BY DEF KnownInv
<1>1. v.pc # "off"
  <2>1. Launch => v'.pc = "begin"
    BY LaunchGoes
  <2>2. NextOne => v.pc = "judge"
    BY DEF NextOne, Judge, At
  <2> QED
    BY <2>1, <2>2, VerifierSteps DEF Begun, GoesOn
<1>2. \A k \in Runs : Known(run[k])
  <2>1. CASE Begun
    BY <2>1 DEF KnownInv
  <2>2. CASE Untouched
    BY <2>2, AbsentIs DEF Untouched, TypeInv, RunTypes, Sound
  <2> QED
    <3>1. Launch => v'.pc = "begin"
      BY LaunchGoes
    <3>2. NextOne => v.pc = "judge"
      BY DEF NextOne, Judge, At
    <3> QED
      BY <2>1, <2>2, <3>1, <3>2, VerifierSteps DEF Begun, GoesOn
<1>3. CASE AllEvolve(run, run')
  BY <1>2, <1>3 DEF AllEvolve, Evolves
<1>4. CASE /\ Post /\ run'[<<v.stage, v.n + 1>>] = Posted
           /\ \A k \in Runs : k # <<v.stage, v.n + 1>> => run'[k] = run[k]
  BY <1>2, <1>4, PostedRun
<1> QED
  BY <1>1, <1>3, <1>4, RunsGoOn DEF At

LEMMA QuietStep ==
  ASSUME TypeInv, PlaneInv, KnownInv, QuietInv, [Next]_vars
  PROVE  QuietInv'
<1>0. /\ Launch => v'.pc = "begin"
      /\ NextOne => v'.pc \in {"quiet", "reset"}
  BY LaunchGoes DEF NextOne
<1>1. (v.pc \in {"queue", "outbox"} => \A k \in Runs : InM3(k) => Ended(k))'
  <2> SUFFICES ASSUME v'.pc \in {"queue", "outbox"}, NEW k \in Runs, run'[k].home = "m3"
               PROVE  Finished(run'[k])
    BY DEF InM3, Ended, Finished
  <2>1. GoesOn
    BY <1>0, VerifierSteps
  <2>2. v.pc # "off" /\ ~Post
    <3>1. Post => v'.pc \in {"watch", "await_crash", "observe", "stream", "wait", "post"}
      BY DEF Post, AfterPost, TypeInv, GateTypes, VerifierRec
    <3> QED
      BY <2>1, <3>1 DEF GoesOn
  <2>3. Evolves(run[k], run'[k])
    BY <2>2, RunsGoOn DEF At, AllEvolve
  <2>4. run[k].home = "m3"
    BY <2>3 DEF Evolves, Lasts
  <2>5. Finished(run[k])
    BY <2>1, <2>4 DEF GoesOn, QuietInv, InM3, Ended, Finished, NoActiveRun
  <2> QED
    BY <2>3, <2>5 DEF Evolves, Lasts, Finished
<1>2. ASSUME Underway', NEW k \in Runs, run'[k].home = "m3", Rank(k[1]) < Rank(v'.stage)
      PROVE  Over(run'[k])
  <2>1. GoesOn /\ v'.stage = v.stage /\ v.pc # "off"
    BY <1>0, <1>2, VerifierSteps DEF GoesOn, Underway
  <2>2. Evolves(run[k], run'[k])
    <3>1. CASE AllEvolve(run, run')
      BY <3>1 DEF AllEvolve
    <3>2. CASE Post /\ (k # <<v.stage, v.n + 1>> => run'[k] = run[k])
      <4>1. k[1] # v.stage
        <5>1. Rank(v.stage) \in Nat
          BY Ranks DEF TypeInv, GateTypes, VerifierRec
        <5> QED
          BY <1>2, <2>1, <5>1
      <4>2. run'[k] = run[k]
        BY <3>2, <4>1
      <4> QED
        BY <4>2, Same DEF TypeInv, RunTypes
    <3> QED
      BY <2>1, <3>1, <3>2, RunsGoOn DEF At
  <2>3. run[k].home = "m3"
    BY <1>2, <2>2 DEF Evolves, Lasts
  <2>4. Over(run[k])
    <3>1. CASE Underway
      BY <1>2, <2>1, <2>3, <3>1 DEF QuietInv, InM3
    <3>2. CASE At("outbox") /\ PendingOutbox = {}
      <4>1. Finished(run[k]) /\ Known(run[k])
        BY <2>3, <3>2 DEF QuietInv, KnownInv, Begun, At, InM3, Ended, Finished
      <4>2. run[k].row \notin {"pending", "published"}
        BY <2>3, <3>2 DEF PendingOutbox, Row, InM3
      <4> QED
        BY <4>1, <4>2 DEF Over, Known, Finished
    <3> QED
      BY <1>2, <2>1, <3>1, <3>2 DEF GoesOn
  <2> QED
    BY <2>2, <2>4 DEF Evolves
<1> QED
  BY <1>1, <1>2 DEF QuietInv, InM3

LEMMA QuietPlaces == Spec => [](TypeInv /\ PlaneInv /\ KnownInv /\ QuietInv)
<1>1. Init => KnownInv /\ QuietInv
  BY DEF Init, KnownInv, QuietInv, Begun, Underway, NoVerifier
<1>2. TypeInv /\ PlaneInv /\ KnownInv /\ QuietInv /\ [Next]_vars
        => (TypeInv /\ PlaneInv /\ KnownInv /\ QuietInv)'
  BY TypeStep, PlaneStep, KnownStep, QuietStep
<1> QED
  BY <1>1, <1>2, TypeInit, PlaneInit, PTL DEF Spec

\* Once the three reads of ensure_quiescent have found the system quiet, and unless a verifier
\* has outlived its script, nothing happens any more to a run of an earlier experiment: not what
\* the verifier does to workers, dispatcher and Redis, and not what the system still does.
THEOREM ExperimentsAreIsolated == Spec => ExperimentsIsolated
<1>1. ASSUME TypeInv, PlaneInv, QuietInv, [Next]_vars, Underway, ~stray,
             NEW k \in Runs, Rank(k[1]) < Rank(v.stage)
      PROVE  run'[k] = run[k]
  <2>1. run[k].home \in {"none", "m3"} /\ Sound(run[k])
    BY <1>1 DEF PlaneInv, NormalUntouched, TypeInv, RunTypes, RunRec, Databases
  <2>2. k[1] # v.stage
    <3>1. Rank(v.stage) \in Nat
      BY <1>1, Ranks DEF TypeInv, GateTypes, VerifierRec
    <3> QED
      BY <1>1, <3>1
  <2>3. CASE AllEvolve(run, run')
    <3>1. Evolves(run[k], run'[k])
      BY <2>3 DEF AllEvolve
    <3>2. CASE run[k].home = "none"
      BY <2>1, <3>1, <3>2 DEF Evolves, Lasts, Sound
    <3>3. CASE run[k].home = "m3"
      BY <1>1, <3>1, <3>3 DEF Evolves, QuietInv, InM3
    <3> QED
      BY <2>1, <3>2, <3>3
  <2>4. CASE \A j \in Runs : j # <<v.stage, v.n + 1>> => run'[j] = run[j]
    BY <2>2, <2>4
  <2> QED
    BY <1>1, <2>3, <2>4, RunsGoOn DEF Underway, At
<1>2. TypeInv /\ PlaneInv /\ QuietInv /\ [Next]_vars
        => [Underway /\ ~stray => \A k \in Runs : Rank(k[1]) < Rank(v.stage) => run'[k] = run[k]]_vars
  BY <1>1
<1> QED
  BY <1>2, QuietPlaces, PTL DEF Spec, ExperimentsIsolated
-----------------------------------------------------------------------------
(* What a gate that passes has seen                                          *)

HasPosted(k) == Rank(k[1]) < Rank(v.stage) \/ (k[1] = v.stage /\ k[2] <= v.n)
FreshInv == Begun => \A k \in Runs : ~HasPosted(k) => run[k].home = "none"

\* What the runs of the stages behind the verifier, and of the one it is about to judge, show.
ProgressInv ==
    /\ Begun => \A k \in Runs : k[1] # "crash" /\ Rank(k[1]) < Rank(v.stage) => InM3(k) /\ Ended(k)
    /\ v.pc \in {"row", "judge"} /\ v.stage # "crash" => \A k \in Own : Ended(k)
    /\ v.pc \in {"row", "judge"} /\ v.stage \notin {"crash", "outage", "sse"} => \A k \in Own : InM3(k)
    /\ v.pc \in {"wait", "judge"} /\ v.stage = "sse" => \A k \in Own : InM3(k)
    /\ \A i \in v.trials : Ended(<<"crash", i>>)
    /\ At("record") => Ended(<<"crash", v.n>>)
\* EXP-3: what its runs are posted to is in the dark.
DarkInv ==
    v.stage = "outage" =>
        /\ At("post") /\ plane["api"] = "m3" => ~redis
        /\ v.pc \in {"post", "observe"} => \A k \in Own : InM3(k) => run[k].dark
        /\ v.pending => \A k \in Own : InM3(k) /\ run[k].dark
\* EXP-2: the marker that is there is its dispatcher's.
OrphanInv ==
    v.stage = "dispatch" =>
        /\ v.pc \in {"post", "await_crash"} /\ marker => run[<<"dispatch", 1>>].orphan
        /\ v.exited => run[<<"dispatch", 1>>].orphan

GoodTrials == {i \in 1..Candidates : GoodTrial(i) /\ Ended(<<"crash", i>>)}
Earned(s) ==
    CASE s = "crash" -> Cardinality(GoodTrials) >= Trials
      [] s = "dispatch" -> /\ run[<<"dispatch", 1>>].orphan /\ run[<<"dispatch", 1>>].gen = 1
                           /\ Ended(<<"dispatch", 1>>)
      [] s = "outage" -> \A i \in 1..Outage : run[<<"outage", i>>].dark
      [] s \in {"429", "timeout"} -> \E i \in 1..Batch : run[<<s, i>>].retried
      [] OTHER -> TRUE
PassedInv ==
    /\ \A s \in v.passed : Earned(s)
    /\ "timeout" \in v.passed => "429" \in v.passed
    /\ At("write") => \A k \in Runs : run[k].home # "normal"
GateInv ==
    "gate" \in report =>
        /\ ~Begun
        /\ \A s \in Experiments \cup {"429"} : Earned(s)
        /\ \A k \in Runs : run[k].home # "normal" /\ (k[1] # "crash" => InM3(k) /\ Ended(k))
SafeInv == TypeInv /\ PlaneInv /\ KnownInv /\ QuietInv
EvidenceInv ==
    SafeInv /\ FreshInv /\ ProgressInv /\ DarkInv /\ OrphanInv /\ PassedInv /\ GateInv

\* How the verifier gets to a place.
LEMMA Arrivals ==
  ASSUME TypeInv, Verifier
  PROVE  /\ v'.pc \in {"record", "row"} => Wait
         /\ v'.pc = "judge" => Wait \/ AwaitRow \/ Candidate
         /\ v'.pc = "post" => Setup \/ Candidate \/ Post
         /\ v'.pc \in {"await_crash", "observe"} => Post
         /\ v'.pc = "crash_row" => AwaitCrash
         /\ v'.pc = "repair" => ReadRow
         /\ v'.pc = "write" => Leaked
         /\ v'.pc = "wait" /\ v.stage = "sse" => Compare
         /\ v'.pc = "wait" /\ v.stage = "dispatch" => Repair
<1>0. v \in VerifierRec /\ Shape(v) /\ v.stage \in Stages \cup {"end"}
  BY DEF TypeInv, GateTypes, VerifierRec
<1>s. ASSUME NEW pc \in Places(v.stage)
      PROVE  /\ pc = "rescale" => v.stage = "crash"
             /\ pc = "repair" => v.stage = "dispatch"
             /\ pc = "resume" => v.stage = "outage"
             /\ pc = "compare" => v.stage = "sse"
  BY <1>0, <1>s, PlaceOf
<1>1. v.pc \in Places(v.stage)
  BY <1>0 DEF Shape
<1>f. \A why \in {"none", "dispatch"} : Fail(why) => v'.pc = "off"
  BY <1>0, FailGoes DEF Gone
<1>t. \A pc : To(pc) => v'.pc = pc
  BY <1>0 DEF To, VerifierRec
<1>r. \A condition, pc : Require(condition, pc) => v'.pc \in {"off", pc}
  BY <1>f, <1>t DEF Require
<1>2. Begin => v'.pc \in {"quiet", "off"}
  BY <1>r DEF Begin
<1>3. Quiet => v'.pc \in {"queue", "outbox", "leaked", "setup", "off"}
  <2>1. Require(PendingOutbox = {}, IF v.stage = "end" THEN "leaked" ELSE "setup")
          => v'.pc \in {"leaked", "setup", "off"}
    BY <1>r
  <2> QED
    BY <1>r, <2>1 DEF Quiet
<1>4. Setup => v'.pc \in {"candidate", "post"}
  BY <1>t DEF Setup
<1>5. Post => v'.pc \in {"post", AfterPost(v.stage)}
  BY <1>0 DEF Post, VerifierRec
<1>6. Wait => v'.pc \in {"record", "row", "judge", "off"}
  BY <1>t, <1>f DEF Wait, AfterWait
<1>7. Candidate => v'.pc \in {"post", "judge"}
  BY <1>t DEF Candidate
<1>8. Watch => v'.pc \in {"kill", "candidate"}
  BY <1>t DEF Watch
<1>9. Kill => v'.pc \in {"rescale", "off"}
  BY <1>r DEF Kill
<1>10. Rescale => v'.pc = "wait" /\ v.pc = "rescale"
  BY <1>t DEF Rescale, At
<1>11. Record => v'.pc = "candidate"
  BY <1>0 DEF Record, VerifierRec
<1>12. AwaitCrash => v'.pc \in {"crash_row", "off"}
  BY <1>0, <1>f DEF AwaitCrash, VerifierRec
<1>13. ReadRow => v'.pc = "repair"
  BY <1>0 DEF ReadRow, VerifierRec
<1>14. Repair => v'.pc = "wait" /\ v.pc = "repair"
  BY <1>t DEF Repair, At
<1>15. AwaitRow => v'.pc \in {"judge", "off"}
  BY <1>t, <1>f DEF AwaitRow
<1>16. Observe => v'.pc = "start_redis"
  BY <1>0 DEF Observe, VerifierRec
<1>17. StartRedis => v'.pc = "resume"
  BY <1>t DEF StartRedis
<1>18. ResumeServices => v'.pc = "wait" /\ v.pc = "resume"
  BY <1>t DEF ResumeServices, At
<1>19. Stream => v'.pc \in {"compare", "off"}
  BY <1>0, <1>f DEF Stream, VerifierRec
<1>20. Compare => v'.pc \in {"wait", "off"} /\ v.pc = "compare"
  BY <1>r DEF Compare, At
<1>21. Judge => v'.pc \in {"quiet", "reset", "off"}
  BY <1>0, <1>f DEF Judge, VerifierRec
<1>22. Reset => v'.pc = "quiet"
  BY <1>t DEF Reset
<1>23. Leaked => v'.pc \in {"write", "off"}
  BY <1>r DEF Leaked
<1>24. WriteGate => v'.pc = "off"
  BY <1>f DEF WriteGate, NoVerifier
<1>25. /\ AfterPost(v.stage) \in {"watch", "await_crash", "observe", "stream", "wait"}
       /\ v.stage = "sse" => AfterPost(v.stage) = "stream"
       /\ v.stage = "dispatch" => AfterPost(v.stage) = "await_crash"
  BY DEF AfterPost
<1> QED
  BY <1>s, <1>1, <1>2, <1>3, <1>4, <1>5, <1>6, <1>7, <1>8, <1>9, <1>10, <1>11, <1>12, <1>13, <1>14,
     <1>15, <1>16, <1>17, <1>18, <1>19, <1>20, <1>21, <1>22, <1>23, <1>24, <1>25 DEF Verifier

LEMMA WhoMoves ==
  ASSUME TypeInv, [Next]_vars
  PROVE  v' = v \/ v'.pc = "off" \/ Launch \/ Verifier
<1>1. VerifierFails \/ VerifierKilled => v'.pc = "off"
  BY FailGoes, KillGoes DEF VerifierFails, VerifierKilled, Gone, TypeInv, GateTypes
<1> QED
  BY <1>1, SystemFrame, ScriptFrame DEF Next, vars, gate

\* What is on record of a run that was posted stays, and what is posted now was not before.
LEMMA RecordStays ==
  ASSUME TypeInv, PlaneInv, FreshInv, [Next]_vars, NEW k \in Runs
  PROVE  \/ Lasts(run[k], run'[k])
         \/ Post /\ k = <<v.stage, v.n + 1>> /\ run[k] = Absent /\ run'[k] = Posted
<1>1. CASE AllEvolve(run, run')
  BY <1>1 DEF AllEvolve, Evolves
<1>2. CASE Post /\ run' = [run EXCEPT ![<<v.stage, v.n + 1>>] = Posted]
  <2>1. CASE k # <<v.stage, v.n + 1>>
    <3>1. run'[k] = run[k] /\ Sound(run[k])
      BY <1>2, <2>1 DEF TypeInv, RunTypes
    <3> QED
      BY <3>1, Same DEF Evolves
  <2>2. CASE k = <<v.stage, v.n + 1>>
    <3>1. Begun /\ v.n \in Nat /\ Rank(v.stage) \in Nat
      BY <1>2, Ranks DEF Post, At, Begun, TypeInv, GateTypes, VerifierRec
    <3>2. ~HasPosted(k)
      BY <2>2, <3>1 DEF HasPosted
    <3>3. run[k] = Absent
      BY <3>1, <3>2 DEF FreshInv, TypeInv, RunTypes, Sound
    <3> QED
      BY <1>2, <2>2, <3>3 DEF TypeInv, RunTypes
  <2> QED
    BY <2>1, <2>2
<1>3. CASE \A j \in Runs : Lasts(run[j], run'[j])
  BY <1>3
<1> QED
  BY <1>1, <1>2, <1>3, RunsMove

LEMMA EndedStays ==
  ASSUME TypeInv, PlaneInv, FreshInv, [Next]_vars, NEW k \in Runs
  PROVE  /\ InM3(k) => InM3(k)'
         /\ Ended(k) => Ended(k)' /\ run'[k].gen = run[k].gen /\ run'[k].audits = run[k].audits
         /\ run[k].orphan => run'[k].orphan
         /\ run[k].dark => run'[k].dark
         /\ run[k].retried => run'[k].retried
<1>1. /\ Absent.home = "none" /\ Absent.status = "absent" /\ ~Absent.orphan /\ ~Absent.dark
      /\ ~Absent.retried
  BY DEF Absent
<1> QED
  BY <1>1, RecordStays DEF Lasts, Finished, InM3, Ended

LEMMA FreshStep ==
  ASSUME TypeInv, PlaneInv, FreshInv, [Next]_vars
  PROVE  FreshInv'
<1> SUFFICES ASSUME Begun', NEW k \in Runs,
                    ~(Rank(k[1]) < Rank(v'.stage) \/ (k[1] = v'.stage /\ k[2] <= v'.n))
             PROVE  run'[k].home = "none"
  BY DEF FreshInv, HasPosted
<1>0. /\ v.stage \in Stages \cup {"end"} /\ v.n \in Nat
      /\ v.pc = "judge" => v.stage \in Stages
  <2>1. v \in VerifierRec /\ Shape(v)
    BY DEF TypeInv, GateTypes
  <2>2. v.stage = "end" => v.pc # "judge"
    BY <2>1 DEF Shape, Places, Between
  <2> QED
    BY <2>1, <2>2 DEF VerifierRec
<1>1. k[1] \in Stages /\ k[2] \in Nat
  BY RunParts
<1>2. NextOne \/ GoesOn
  BY VerifierSteps, LaunchGoes DEF Begun
<1>3. run[k].home = "none"
  <2>1. CASE Untouched
    BY <2>1 DEF Untouched
  <2>2. CASE NextOne
    <3>1. v.stage \in Stages /\ Begun
      BY <1>0, <2>2 DEF NextOne, Judge, At, Begun
    <3>2. Rank(v'.stage) = Rank(v.stage) + 1 /\ Rank(v.stage) \in Nat /\ Rank(k[1]) \in Nat
      BY <1>1, <2>2, <3>1, NextStages, Ranks DEF NextOne
    <3>3. ~HasPosted(k)
      BY <3>2 DEF HasPosted
    <3> QED
      BY <3>1, <3>3 DEF FreshInv
  <2>3. CASE GoesOn /\ Begun
    <3>1. v'.stage = v.stage /\ (v'.n = v.n \/ v'.n = v.n + 1)
      <4>1. Post => v'.n = v.n + 1
        BY DEF Post, TypeInv, GateTypes, VerifierRec
      <4> QED
        BY <2>3, <4>1 DEF GoesOn
    <3>2. ~HasPosted(k)
      BY <1>0, <1>1, <3>1 DEF HasPosted
    <3> QED
      BY <2>3, <3>2 DEF FreshInv
  <2> QED
    BY <1>2, <2>1, <2>2, <2>3 DEF GoesOn
<1>4. ~(Post /\ k = <<v.stage, v.n + 1>>)
  <2> SUFFICES ASSUME Post, k = <<v.stage, v.n + 1>> PROVE FALSE
    OBVIOUS
  <2>1. v'.n = v.n + 1 /\ v'.stage = v.stage
    BY DEF Post, TypeInv, GateTypes, VerifierRec
  <2>2. k[1] = v.stage /\ k[2] = v.n + 1
    OBVIOUS
  <2> QED
    BY <1>0, <2>1, <2>2
<1> QED
  BY <1>3, <1>4, RecordStays DEF Lasts

LEMMA VerifierTypes ==
  ASSUME TypeInv
  PROVE  /\ v \in VerifierRec /\ Shape(v) /\ v.stage \in Stages \cup {"end"} /\ v.n \in Nat
         /\ v.pc \in Places(v.stage)
         /\ v.pc \in VerifierPcs \ ({"reset", "leaked", "write"} \cup Between)
                => /\ v.stage \in Stages /\ Own \subseteq Runs
                   /\ \A k : k \in Own <=> k \in Runs /\ k[1] = v.stage /\ k[2] <= v.n
<1>1. /\ v \in VerifierRec /\ Shape(v) /\ v.stage \in Stages \cup {"end"} /\ v.n \in Nat
      /\ v.pc \in Places(v.stage)
  BY DEF TypeInv, GateTypes, VerifierRec, Shape
<1>2. v.pc \in VerifierPcs \ ({"reset", "leaked", "write"} \cup Between) => v.stage # "end"
  BY <1>1, PlaceOf
<1> QED
  BY <1>1, <1>2, OwnRuns

\* The runs the verifier is about to judge are all of the stage's.
LEMMA JudgedRuns ==
  ASSUME TypeInv, At("judge"), v.stage # "crash", NEW k \in Runs, k[1] = v.stage
  PROVE  k \in Own
<1>1. v.stage \in Stages /\ v.n = Count(v.stage)
  <2>1. v.pc = "judge" /\ v.pc \in VerifierPcs \ ({"reset", "leaked", "write"} \cup Between)
    BY DEF At, VerifierPcs, Between
  <2> QED
    BY <2>1, VerifierTypes DEF Shape, Unposted, Between
<1>2. k[2] <= v.n
  BY <1>1, RunParts, Counts
<1> QED
  BY <1>1, <1>2, VerifierTypes, RunParts DEF At, VerifierPcs, Between

\* It has waited for them.
LEMMA Judging ==
  ASSUME TypeInv, [Next]_vars, v'.pc \in {"row", "judge"}, v'.stage # "crash"
  PROVE  /\ v'.stage = v.stage /\ Own' = Own /\ Own \subseteq Runs
         /\ \/ v.pc \in {"row", "judge"} /\ (v.stage = "sse" => v.pc = "judge")
            \/ v.pc = "wait" /\ \A k \in Own : Ended(k) /\ (InM3(k) \/ v.stage \in {"outage", "sse"})
<1>1. GoesOn
  BY VerifierSteps, LaunchGoes DEF NextOne
<1>2. CASE v' = v
  <2>1. v.pc \in VerifierPcs \ ({"reset", "leaked", "write"} \cup Between)
    BY <1>2 DEF VerifierPcs, Between
  <2>2. v.stage = "sse" => v.pc = "judge"
    BY <1>2, VerifierTypes, PlaceOf
  <2> QED
    BY <1>2, <2>1, <2>2, VerifierTypes DEF Own
<1>3. CASE Verifier
  <2>1. Wait \/ AwaitRow \/ Candidate
    BY <1>3, Arrivals
  <2>2. ~Candidate
    BY <1>1, VerifierTypes, PlaceOf DEF Candidate, At, GoesOn
  <2>3. v.pc \in {"wait", "row"} /\ ~Post
    BY <2>1, <2>2 DEF Wait, AwaitRow, Post, At
  <2>4. v'.stage = v.stage /\ Own' = Own
    BY <1>1, <2>3 DEF GoesOn, Own
  <2>5. Own \subseteq Runs
    BY <2>3, VerifierTypes DEF VerifierPcs, Between
  <2>6. CASE Wait
    <3>1. \A k \in Awaited : Ended(k) /\ On("api", k) /\ (InM3(k) \/ v.stage \in {"outage", "sse"})
      BY <2>6, FailGoes, VerifierTypes DEF Wait, Gone
    <3> QED
      BY <2>4, <2>5, <2>6, <3>1 DEF Awaited, Wait, At
  <2>7. CASE AwaitRow
    <3>1. v.pc = "row" /\ v.stage # "sse"
      BY <2>7, VerifierTypes, PlaceOf DEF AwaitRow, At
    <3> QED
      BY <2>4, <2>5, <3>1
  <2> QED
    BY <2>1, <2>2, <2>6, <2>7
<1> QED
  BY <1>2, <1>3, WhoMoves, LaunchGoes

LEMMA ProgressStep ==
  ASSUME TypeInv, PlaneInv, FreshInv, DarkInv, ProgressInv, [Next]_vars
  PROVE  ProgressInv'
<1>0. v' \in VerifierRec /\ Shape(v')
  BY ShapeStep
<1>1. ASSUME Begun', NEW k \in Runs, k[1] # "crash", Rank(k[1]) < Rank(v'.stage)
      PROVE  InM3(k)' /\ Ended(k)'
  <2>1. NextOne \/ GoesOn
    BY <1>1, VerifierSteps, LaunchGoes DEF Begun
  <2>2. Rank(k[1]) \in 1..10 /\ Rank(v.stage) \in 1..10 /\ Rank("crash") <= Rank(k[1]) /\ k[1] \in Stages
    BY RunParts, Ranks, VerifierTypes
  <2>3. InM3(k) /\ Ended(k)
    <3>1. CASE Begun /\ Rank(k[1]) < Rank(v.stage)
      BY <1>1, <3>1 DEF ProgressInv
    <3>2. CASE GoesOn /\ At("begin")
      <4>1. v.stage = "crash" /\ v'.stage = v.stage
        BY <3>2, VerifierTypes, PlaceOf DEF At, GoesOn
      <4> QED
        BY <1>1, <2>2, <4>1
    <3>3. CASE NextOne /\ ~(Rank(k[1]) < Rank(v.stage))
      <4>1. v.pc = "judge" /\ v.stage \in Stages
        <5>1. v.pc = "judge"
          BY <3>3 DEF NextOne, Judge, At
        <5> QED
          BY <5>1, VerifierTypes DEF VerifierPcs, Between
      <4>2. Rank(v'.stage) = Rank(v.stage) + 1
        BY <3>3, <4>1, NextStages DEF NextOne
      <4>3. k[1] = v.stage
        <5>1. Rank(k[1]) = Rank(v.stage)
          BY <1>1, <2>2, <3>3, <4>2
        <5> QED
          BY <2>2, <4>1, <5>1, Ranks
      <4>4. k \in Own
        BY <1>1, <4>1, <4>3, JudgedRuns DEF At
      <4>5. v.stage = "outage" => v.pending
        BY <3>3 DEF NextOne, Meets
      <4> QED
        BY <1>1, <4>1, <4>3, <4>4, <4>5 DEF ProgressInv, DarkInv
    <3>4. GoesOn => v'.stage = v.stage /\ (Begun \/ At("begin"))
      BY <1>1 DEF GoesOn
    <3>5. NextOne => Begun
      BY DEF NextOne, Judge, At, Begun
    <3> QED
      BY <1>1, <2>1, <3>1, <3>2, <3>3, <3>4, <3>5
  <2> QED
    BY <2>3, EndedStays
<1>2. ASSUME v'.pc \in {"row", "judge"}, v'.stage # "crash", NEW k \in Own'
      PROVE  Ended(k)' /\ (v'.stage \notin {"outage", "sse"} => InM3(k)')
  <2>1. k \in Own /\ k \in Runs /\ v'.stage = v.stage
    BY <1>2, Judging
  <2>2. Ended(k) /\ (v.stage \notin {"outage", "sse"} => InM3(k))
    BY <1>2, <2>1, Judging DEF ProgressInv
  <2> QED
    BY <2>1, <2>2, EndedStays
<1>3. ASSUME v'.pc \in {"wait", "judge"}, v'.stage = "sse", NEW k \in Own'
      PROVE  InM3(k)'
  <2>1. CASE v'.pc = "judge"
    <3>1. k \in Own /\ k \in Runs /\ v'.stage = v.stage /\ v.pc \in {"wait", "judge"}
      BY <1>3, <2>1, Judging
    <3>2. InM3(k)
      BY <1>3, <3>1 DEF ProgressInv
    <3> QED
      BY <3>1, <3>2, EndedStays
  <2>2. CASE v'.pc = "wait"
    <3>1. GoesOn
      BY <2>2, VerifierSteps, LaunchGoes DEF NextOne
    <3>2. CASE v' = v
      <4>1. k \in Own /\ k \in Runs
        BY <1>3, <2>2, <3>2, VerifierTypes DEF Own, VerifierPcs, Between
      <4>2. InM3(k)
        BY <1>3, <2>2, <3>2, <4>1 DEF ProgressInv
      <4> QED
        BY <4>1, <4>2, EndedStays
    <3>3. CASE Verifier
      <4>1. Compare
        BY <1>3, <2>2, <3>1, <3>3, Arrivals DEF GoesOn
      <4>2. \A j \in Own : InM3(j)
        BY <2>2, <4>1, RequireGoes, VerifierTypes DEF Compare, Gone, VerifierPcs
      <4>3. k \in Own /\ k \in Runs
        <5>1. v.pc = "compare" /\ ~Post
          BY <4>1 DEF Compare, Post, At
        <5> QED
          BY <3>1, <5>1, VerifierTypes DEF GoesOn, Own, VerifierPcs, Between
      <4> QED
        BY <4>2, <4>3, EndedStays
    <3> QED
      BY <2>2, <3>2, <3>3, WhoMoves, LaunchGoes
  <2> QED
    BY <1>3, <2>1, <2>2
<1>4. ASSUME NEW i \in v'.trials PROVE Ended(<<"crash", i>>)'
  <2>1. <<"crash", i>> \in Runs
    <3>1. i \in 1..Candidates /\ "crash" \in Stages
      BY <1>0, <1>4 DEF VerifierRec, Stages
    <3> QED
      BY <3>1, RunIs, Counts
  <2>2. i \in v.trials \/ (At("record") /\ i = v.n)
    <3>1. v'.pc # "off" /\ ~Launch
      BY <1>0, <1>4, LaunchGoes DEF Shape
    <3>2. Record => At("record") /\ v'.trials = v.trials \cup {v.n}
      BY VerifierTypes DEF Record, VerifierRec
    <3> QED
      BY <1>4, <3>1, <3>2, VerifierSteps DEF GoesOn, NextOne
  <2> QED
    BY <2>1, <2>2, EndedStays DEF ProgressInv
<1>5. ASSUME v'.pc = "record" PROVE run'[<<"crash", v'.n>>].status \in {"completed", "failed"}
  <2>1. GoesOn
    BY <1>5, VerifierSteps, LaunchGoes DEF NextOne
  <2>2. v'.stage = "crash" /\ v'.n \in 1..Candidates
    <3>1. v'.stage = "crash"
      BY <1>0, <1>5, PlaceOf DEF Shape, VerifierRec
    <3> QED
      BY <1>0, <1>5, <3>1, Counts, Sizes DEF Shape, OnTrial
  <2>3. v'.n = v.n /\ Ended(<<"crash", v.n>>)
    <3>1. CASE v' = v
      BY <1>5, <3>1 DEF ProgressInv, At
    <3>2. CASE Verifier
      <4>1. Wait
        BY <1>5, <3>2, Arrivals
      <4>2. v.stage = "crash" /\ v'.n = v.n
        BY <2>1, <2>2, <4>1 DEF GoesOn, Wait, Post, At
      <4>3. \A k \in Awaited : Ended(k)
        BY <1>5, <4>1, FailGoes, VerifierTypes DEF Wait, Gone
      <4> QED
        BY <4>2, <4>3 DEF Awaited
    <3> QED
      BY <1>5, <3>1, <3>2, WhoMoves, LaunchGoes
  <2>4. <<"crash", v.n>> \in Runs
    BY <2>2, <2>3, RunIs, Counts DEF Stages
  <2>5. PICK k \in Runs : k = <<"crash", v.n>>
    BY <2>4
  <2> QED
    BY <2>3, <2>5, EndedStays DEF Ended
<1>a. (Begun => \A k \in Runs : k[1] # "crash" /\ Rank(k[1]) < Rank(v.stage) => InM3(k) /\ Ended(k))'
  BY <1>1
<1>b. /\ (v.pc \in {"row", "judge"} /\ v.stage # "crash" => \A k \in Own : Ended(k))'
      /\ (v.pc \in {"row", "judge"} /\ v.stage \notin {"crash", "outage", "sse"} => \A k \in Own : InM3(k))'
  BY <1>2
<1>c. (v.pc \in {"wait", "judge"} /\ v.stage = "sse" => \A k \in Own : InM3(k))'
  BY <1>3
<1>d. (\A i \in v.trials : Ended(<<"crash", i>>))'
  BY <1>4
<1>e. (At("record") => Ended(<<"crash", v.n>>))'
  BY <1>5 DEF At, Ended
<1> QED
  BY <1>a, <1>b, <1>c, <1>d, <1>e DEF ProgressInv

\* Within a stage the verifier goes on, and only it takes itself from place to place.
LEMMA WithinStage ==
  ASSUME TypeInv, [Next]_vars, v'.pc \notin {"off", "begin", "quiet", "reset"}
  PROVE  GoesOn /\ v'.stage = v.stage /\ (v' = v \/ Verifier) /\ ~VerifierFails /\ ~VerifierKilled
<1>1. VerifierFails \/ VerifierKilled => v'.pc = "off"
  BY FailGoes, KillGoes DEF VerifierFails, VerifierKilled, Gone, TypeInv, GateTypes
<1> QED
  BY <1>1, VerifierSteps, WhoMoves, LaunchGoes DEF NextOne, GoesOn

LEMMA DarkStep ==
  ASSUME TypeInv, PlaneInv, FreshInv, DarkInv, [Next]_vars
  PROVE  DarkInv'
<1>0. v' \in VerifierRec /\ Shape(v')
  BY ShapeStep
<1> SUFFICES ASSUME v'.stage = "outage"
             PROVE  /\ v'.pc = "post" /\ plane'["api"] = "m3" => ~redis'
                    /\ v'.pc \in {"post", "observe"} => \A k \in Own' : InM3(k)' => run'[k].dark
                    /\ v'.pending => \A k \in Own' : InM3(k)' /\ run'[k].dark
  BY DEF DarkInv, At
<1>1. ASSUME v'.pc = "post", plane'["api"] = "m3" PROVE ~redis'
  <2>1. GoesOn /\ v.stage = "outage" /\ (v' = v \/ Verifier) /\ ~VerifierFails /\ ~VerifierKilled
    BY <1>1, WithinStage
  <2>2. CASE Verifier
    <3>1. ~Candidate
      BY <2>1, VerifierTypes, PlaceOf DEF Candidate, At
    <3>2. CASE Setup
      BY <2>1, <3>2 DEF Setup
    <3>3. CASE Post
      BY <1>1, <2>1, <3>3 DEF Post, services, DarkInv
    <3> QED
      BY <1>1, <2>2, <3>1, <3>2, <3>3, Arrivals
  <2>3. CASE v' = v /\ ~Verifier
    <3>1. (plane["api"] = "m3" => ~redis) /\ script \notin {"prepare", "up", "launch"}
      BY <1>1, <2>1, <2>3 DEF DarkInv, PlaneInv, At
    <3>2. CASE UNCHANGED <<plane, redis>>
      BY <1>1, <3>1, <3>2
    <3>3. CASE Script
      <4>1. CASE Restore
        <5>1. plane'["api"] = "normal"
          BY <4>1 DEF Restore, MoveAll, Moved, Services
        <5> QED
          BY <1>1, <5>1
      <4>2. CASE ~Restore
        BY <3>1, <3>2, <3>3, <4>2 DEF Script, Start, Prepare, Up, Launch, VerifierEnded, ScriptFails,
           Signal, CutOff, InScript, services
      <4> QED
        BY <4>1, <4>2
    <3> QED
      BY <2>1, <2>3, <3>2, <3>3, SystemFrame DEF Next, vars, services
  <2> QED
    BY <2>1, <2>2, <2>3
<1>2. ASSUME v'.pc \in {"post", "observe"}, NEW k \in Own', InM3(k)' PROVE run'[k].dark
  <2>1. GoesOn /\ v.stage = "outage" /\ (v' = v \/ Verifier)
    BY <1>2, WithinStage
  <2>2. CASE Post
    <3>1. v.pc = "post" /\ v'.n = v.n + 1 /\ v'.stage = v.stage
      BY <2>2, VerifierTypes DEF Post, At, VerifierRec
    <3>2. k \in Own \/ k = <<v.stage, v.n + 1>>
      BY <3>1, VerifierTypes DEF Own
    <3>3. CASE k = <<v.stage, v.n + 1>>
      <4>1. k \in Runs /\ run'[k] = Posted
        BY <2>2, <3>3, PostedRun DEF Post, TypeInv, RunTypes
      <4>2. plane["api"] = "m3"
        BY <1>2, <2>2, <4>1, PostedRun DEF InM3
      <4> QED
        BY <2>1, <2>2, <3>1, <4>1, <4>2, PostedRun DEF DarkInv, At
    <3>4. CASE k \in Own /\ k # <<v.stage, v.n + 1>>
      <4>1. k \in Runs /\ run'[k] = run[k]
        BY <2>1, <2>2, <3>4, OwnRuns, VerifierTypes DEF Post, TypeInv, RunTypes
      <4> QED
        BY <1>2, <2>1, <3>1, <3>4, <4>1 DEF DarkInv, InM3
    <3> QED
      BY <3>2, <3>3, <3>4
  <2>3. CASE ~Post
    <3>1. Own' = Own /\ v'.n = v.n
      BY <2>1, <2>3 DEF GoesOn, Own
    <3>2. k \in Own /\ k \in Runs
      BY <1>2, <2>1, <3>1, OwnRuns, VerifierTypes
    <3>3. v.pc \in {"post", "observe"}
      <4>1. CASE Verifier
        <5>1. Setup
          <6>1. ~Candidate
            BY <2>1, VerifierTypes, PlaceOf DEF Candidate, At
          <6> QED
            BY <1>2, <2>3, <4>1, <6>1, Arrivals
        <5>2. v.n = 0
          BY <5>1, VerifierTypes DEF Setup, At, Shape, Unposted
        <5> QED
          BY <3>2, <5>2 DEF Own
      <4> QED
        BY <1>2, <2>1, <4>1
    <3>4. run[k].home # "none"
      BY <1>2, <2>3, <3>2, HomesStay DEF InM3
    <3>5. InM3(k)
      BY <1>2, <2>3, <3>2, HomesStay DEF InM3
    <3>6. run[k].dark
      BY <2>1, <3>2, <3>3, <3>5 DEF DarkInv
    <3> QED
      BY <3>2, <3>6, EndedStays
  <2> QED
    BY <2>2, <2>3
<1>3. ASSUME v'.pending, NEW k \in Own' PROVE InM3(k)' /\ run'[k].dark
  <2>1. GoesOn /\ v.stage = "outage"
    <3>1. v'.pc # "off" /\ ~Launch /\ ~NextOne
      BY <1>0, <1>3, LaunchGoes, PlaceOf DEF NextOne, Shape, VerifierRec
    <3> QED
      BY <3>1, VerifierSteps DEF GoesOn
  <2>2. ~ReadRow
    BY <2>1, VerifierTypes, PlaceOf DEF ReadRow, At
  <2>3. ~Post
    BY <1>3, <2>1, <2>2, VerifierTypes DEF Post, Observe, At, GoesOn, Shape, Unposted
  <2>4. k \in Own /\ k \in Runs
    BY <1>3, <2>1, <2>3, OwnRuns, VerifierTypes DEF GoesOn, Own
  <2>5. InM3(k) /\ run[k].dark
    <3>1. CASE v.pending
      BY <2>1, <2>4, <3>1 DEF DarkInv
    <3>2. CASE Observe
      <4>1. v.pc = "observe" /\ InM3(k)
        BY <1>3, <2>4, <3>2, VerifierTypes DEF Observe, At, VerifierRec
      <4> QED
        BY <2>1, <2>4, <4>1 DEF DarkInv
    <3> QED
      BY <1>3, <2>1, <2>2, <3>1, <3>2 DEF GoesOn
  <2> QED
    BY <2>4, <2>5, EndedStays
<1> QED
  BY <1>1, <1>2, <1>3

\* The dispatcher of EXP-2 can only die of the run of EXP-2.
LEMMA CrashIsOwn ==
  ASSUME TypeInv, PlaneInv, QuietInv, FreshInv, v.stage = "dispatch", v.pc \in {"post", "await_crash"},
         NEW k \in Runs, Publish(k), dispatcher.crash, ~marker
  PROVE  k = <<"dispatch", 1>> /\ v.n >= 1 /\ run'[k].orphan /\ run'[k].row = "pending"
<1>1. run[k].row = "pending" /\ run[k] \in RunRec /\ Sound(run[k]) /\ run[k].home = plane["dispatcher"]
  BY DEF Publish, On, TypeInv, RunTypes
<1>2. InM3(k)
  BY <1>1 DEF PlaneInv, InM3
<1>3. Underway /\ Begun
  BY DEF Underway, Begun
<1>4. ~(Rank(k[1]) < Rank(v.stage))
  BY <1>1, <1>2, <1>3 DEF QuietInv, Over
<1>5. k[1] = "dispatch" /\ k[2] <= v.n
  BY <1>2, <1>3, <1>4 DEF FreshInv, HasPosted, InM3
<1>6. k = <<"dispatch", 1>>
  BY <1>5, RunParts, Counts
<1> DEFINE died == [[run[k] EXCEPT !.waiting = @ \/ ~run[k].known, !.known = TRUE] EXCEPT !.orphan = TRUE]
           f == [run EXCEPT ![k] = died]
<1>7. run' = RolledBack(f)
  BY DEF Publish
<1>8. died.orphan = TRUE /\ died.row = "pending"
  BY <1>1 DEF RunRec
<1>9. f[k] = died
  BY DEF TypeInv, RunTypes
<1> HIDE DEF f, died
<1>10. run'[k] = died
  BY <1>7, <1>8, <1>9 DEF RolledBack
<1> QED
  BY <1>5, <1>6, <1>8, <1>10

LEMMA MarkerSet ==
  ASSUME [Next]_vars, marker', ~marker
  PROVE  \E k \in Runs : Publish(k) /\ dispatcher.crash
<1>1. CASE System
  BY <1>1 DEF System, Commit, DispatcherRestarts, DispatcherDies, Publish, Claim, UseTool, Resume,
     MeetFault, End, Sweep, HorseDies, services
<1>2. CASE Verifier
  BY <1>2 DEF Verifier, Begin, Quiet, Setup, Post, Wait, Candidate, Watch, Kill, Rescale, Record,
     ScaleWorkers,
     AwaitCrash, ReadRow, Repair, AwaitRow, Observe, StartRedis, ResumeServices, Stream, Compare,
     Judge,
     Reset, Leaked, WriteGate, services
<1>3. CASE VerifierFails \/ VerifierKilled \/ UNCHANGED vars
  BY <1>3 DEF VerifierFails, VerifierKilled, vars, services
<1>4. CASE Script
  BY <1>4 DEF Script, Start, Prepare, Up, Launch, VerifierEnded, ScriptFails, Signal,
     CutOff, Restore,
     services
<1> QED
  BY <1>1, <1>2, <1>3, <1>4 DEF Next

LEMMA OrphanStep ==
  ASSUME TypeInv, PlaneInv, QuietInv, FreshInv, OrphanInv, [Next]_vars
  PROVE  OrphanInv'
<1>0. v' \in VerifierRec /\ Shape(v') /\ <<"dispatch", 1>> \in Runs
  BY ShapeStep, RunIs, Counts DEF Stages
<1> SUFFICES ASSUME v'.stage = "dispatch"
             PROVE  /\ v'.pc \in {"post", "await_crash"} /\ marker' => run'[<<"dispatch", 1>>].orphan
                    /\ v'.exited => run'[<<"dispatch", 1>>].orphan
  BY DEF OrphanInv
<1>1. ASSUME v'.pc \in {"post", "await_crash"}, marker' PROVE run'[<<"dispatch", 1>>].orphan
  <2>1. v.stage = "dispatch" /\ (v' = v \/ Verifier)
    BY <1>1, WithinStage
  <2>2. v.pc \in {"post", "await_crash"} /\ (Verifier => marker' = marker)
    <3>1. CASE Verifier
      <4>1. ~Candidate /\ ~Setup
        BY <1>1, <2>1, VerifierTypes, PlaceOf DEF Candidate, Setup, At
      <4>2. Post
        BY <1>1, <3>1, <4>1, Arrivals
      <4> QED
        BY <4>2 DEF Post, At, services
    <3> QED
      BY <1>1, <2>1, <3>1
  <2>3. CASE marker
    BY <1>0, <2>1, <2>2, <2>3, EndedStays DEF OrphanInv
  <2>4. CASE ~marker
    BY <1>1, <2>1, <2>2, <2>4, MarkerSet, CrashIsOwn
  <2> QED
    BY <2>3, <2>4
<1>2. ASSUME v'.exited PROVE run'[<<"dispatch", 1>>].orphan
  <2>1. GoesOn /\ v.stage = "dispatch"
    <3>1. v'.pc # "off" /\ ~Launch /\ ~NextOne
      BY <1>0, <1>2, LaunchGoes, PlaceOf DEF NextOne, Shape, VerifierRec
    <3> QED
      BY <3>1, VerifierSteps DEF GoesOn
  <2>2. run[<<"dispatch", 1>>].orphan
    <3>1. CASE v.exited
      BY <2>1, <3>1 DEF OrphanInv
    <3>2. CASE AwaitCrash
      <4>1. v.pc = "await_crash" /\ marker
        <5>1. v'.pc # "off"
          BY <1>0, PlaceOf DEF Shape, VerifierRec
        <5> QED
          BY <1>2, <3>2, <5>1, FailGoes, VerifierTypes DEF AwaitCrash, At, VerifierRec, Gone
      <4> QED
        BY <2>1, <4>1 DEF OrphanInv
    <3> QED
      BY <1>2, <2>1, <3>1, <3>2 DEF GoesOn
  <2> QED
    BY <1>0, <2>2, EndedStays
<1> QED
  BY <1>1, <1>2

LEMMA EarnedStays ==
  ASSUME TypeInv, PlaneInv, FreshInv, [Next]_vars, NEW s \in Stages, Earned(s)
  PROVE  Earned(s)'
<1>0. /\ \A i \in 1..Candidates : <<"crash", i>> \in Runs
      /\ <<"dispatch", 1>> \in Runs
      /\ \A i \in 1..Outage : <<"outage", i>> \in Runs
      /\ \A i \in 1..Batch : <<"429", i>> \in Runs /\ <<"timeout", i>> \in Runs
  BY RunIs, Counts DEF Stages
<1>1. CASE s = "crash"
  <2>1. GoodTrials \subseteq GoodTrials'
    BY <1>0, EndedStays DEF GoodTrials, GoodTrial
  <2>2. IsFiniteSet(1..Candidates)
    BY Sizes, FS_Interval
  <2>3. GoodTrials' \subseteq 1..Candidates
    BY DEF GoodTrials
  <2>4. IsFiniteSet(GoodTrials')
    BY <2>2, <2>3, FS_Subset
  <2>5. IsFiniteSet(GoodTrials) /\ Cardinality(GoodTrials) <= Cardinality(GoodTrials')
    BY <2>1, <2>4, FS_Subset
  <2>6. Cardinality(GoodTrials) \in Nat /\ Cardinality(GoodTrials') \in Nat
    BY <2>4, <2>5, FS_CardinalityType
  <2>7. Cardinality(GoodTrials) >= Trials
    BY <1>1 DEF Earned
  <2>8. Cardinality(GoodTrials') >= Trials
    BY <2>5, <2>6, <2>7, Sizes
  <2> QED
    BY <1>1, <2>8 DEF Earned
<1>2. CASE s = "dispatch"
  <2>1. run[<<"dispatch", 1>>].orphan /\ run[<<"dispatch", 1>>].gen = 1 /\ Ended(<<"dispatch", 1>>)
    BY <1>2 DEF Earned
  <2>2. /\ run'[<<"dispatch", 1>>].orphan /\ run'[<<"dispatch", 1>>].gen = 1
        /\ Ended(<<"dispatch", 1>>)'
    BY <1>0, <2>1, EndedStays
  <2> QED
    BY <1>2, <2>2 DEF Earned
<1>3. CASE s = "outage"
  <2>1. \A i \in 1..Outage : run[<<"outage", i>>].dark
    BY <1>3 DEF Earned
  <2>2. \A i \in 1..Outage : run'[<<"outage", i>>].dark
    BY <1>0, <2>1, EndedStays
  <2> QED
    BY <1>3, <2>2 DEF Earned
<1>4. CASE s \in {"429", "timeout"}
  <2>1. PICK i \in 1..Batch : run[<<s, i>>].retried
    BY <1>4 DEF Earned
  <2>2. run'[<<s, i>>].retried
    BY <1>0, <1>4, <2>1, EndedStays
  <2> QED
    BY <1>4, <2>2 DEF Earned
<1>5. CASE s \notin {"crash", "dispatch", "outage", "429", "timeout"}
  BY <1>5 DEF Earned
<1> QED
  BY <1>1, <1>2, <1>3, <1>4, <1>5

\* A stage that is judged well has seen what it was to see.
LEMMA EarnedNow ==
  ASSUME TypeInv, ProgressInv, DarkInv, OrphanInv, Judge, Meets(v.stage)
  PROVE  Earned(v.stage)
<1>0. v.pc = "judge" /\ v.stage \in Stages /\ v.n \in Nat /\ v \in VerifierRec
  BY VerifierTypes DEF Judge, At, VerifierPcs, Between
<1>1. CASE v.stage = "crash"
  <2>1. Cardinality(v.trials) = Trials /\ \A i \in v.trials : GoodTrial(i)
    BY <1>1 DEF Meets
  <2>2. v.trials \subseteq GoodTrials
    BY <1>0, <2>1 DEF GoodTrials, ProgressInv, VerifierRec
  <2>3. IsFiniteSet(1..Candidates) /\ GoodTrials \subseteq 1..Candidates
    BY Sizes, FS_Interval DEF GoodTrials
  <2>4. IsFiniteSet(GoodTrials)
    BY <2>3, FS_Subset
  <2>5. Cardinality(v.trials) <= Cardinality(GoodTrials)
    BY <2>2, <2>4, FS_Subset
  <2>6. Cardinality(GoodTrials) \in Nat
    BY <2>4, FS_CardinalityType
  <2>7. Cardinality(GoodTrials) >= Trials
    BY <2>1, <2>5, <2>6, Sizes
  <2> QED
    BY <1>1, <2>7 DEF Earned
<1>2. CASE v.stage = "dispatch"
  <2>1. v.exited /\ run[<<"dispatch", 1>>].gen = 1
    BY <1>2 DEF Meets, DispatcherDied
  <2>2. <<"dispatch", 1>> \in Runs /\ <<"dispatch", 1>>[1] = "dispatch"
    BY RunIs, Counts DEF Stages
  <2>3. <<"dispatch", 1>> \in Own
    BY <1>0, <1>2, <2>2, JudgedRuns DEF At
  <2>4. Ended(<<"dispatch", 1>>) /\ run[<<"dispatch", 1>>].orphan
    BY <1>0, <1>2, <2>1, <2>3 DEF ProgressInv, OrphanInv
  <2> QED
    BY <1>2, <2>1, <2>4 DEF Earned
<1>3. CASE v.stage = "outage"
  <2>1. v.pending
    BY <1>3 DEF Meets
  <2>2. ASSUME NEW i \in 1..Outage PROVE run[<<"outage", i>>].dark
    <3>1. <<"outage", i>> \in Runs /\ <<"outage", i>>[1] = "outage"
      BY RunIs, Counts DEF Stages
    <3>2. <<"outage", i>> \in Own
      BY <1>0, <1>3, <3>1, JudgedRuns DEF At
    <3> QED
      BY <1>3, <2>1, <3>2 DEF DarkInv
  <2> QED
    BY <1>3, <2>2 DEF Earned
<1>4. CASE v.stage \in {"429", "timeout"}
  <2>1. PICK k \in Own : run[k].retried
    BY <1>4 DEF Meets
  <2>2. k \in Runs /\ k[1] = v.stage
    BY <1>0, <1>4, OwnRuns, VerifierTypes
  <2>3. k = <<v.stage, k[2]>> /\ k[2] \in 1..Batch
    BY <1>0, <1>4, <2>2, RunParts, Counts
  <2>4. \E i \in 1..Batch : run[<<v.stage, i>>].retried
    BY <2>1, <2>3
  <2> QED
    BY <1>4, <2>4 DEF Earned
<1>5. CASE v.stage \notin {"crash", "dispatch", "outage", "429", "timeout"}
  BY <1>5 DEF Earned
<1> QED
  BY <1>1, <1>2, <1>3, <1>4, <1>5

LEMMA PassedStep ==
  ASSUME TypeInv, PlaneInv, FreshInv, ProgressInv, DarkInv, OrphanInv, PassedInv, [Next]_vars
  PROVE  PassedInv'
<1>0. v' \in VerifierRec /\ Shape(v') /\ v \in VerifierRec
  BY ShapeStep, VerifierTypes
<1>1. CASE v'.pc = "off" \/ Launch
  <2>1. v'.passed = {} /\ v'.pc \in {"off", "begin"}
    BY <1>0, <1>1, LaunchGoes DEF Shape
  <2> QED
    BY <2>1 DEF PassedInv, At
<1>2. ASSUME NEW s \in v.passed PROVE Earned(s)'
  BY <1>0, <1>2, EarnedStays DEF PassedInv, VerifierRec
<1>3. CASE NextOne
  <2>1. v.stage \in Stages /\ Judge /\ v'.pc # "write"
    BY <1>3, VerifierTypes DEF NextOne, Judge, At, VerifierPcs, Between
  <2>2. ASSUME NEW s \in Stages, s = v.stage, Meets(v.stage) PROVE Earned(s)'
    <3>1. Earned(s)
      BY <2>1, <2>2, EarnedNow
    <3> QED
      BY <3>1, EarnedStays
  <2>3. ASSUME NEW s \in v'.passed PROVE Earned(s)'
    <3>1. s \in v.passed \/ (s = v.stage /\ Meets(v.stage))
      BY <1>3, <2>3 DEF NextOne
    <3> QED
      BY <1>2, <2>1, <2>2, <3>1
  <2>4. "timeout" \in v'.passed => "429" \in v'.passed
    BY <1>3 DEF NextOne, PassedInv
  <2> QED
    BY <2>1, <2>3, <2>4 DEF PassedInv, At
<1>4. CASE GoesOn /\ v'.pc # "off"
  <2>1. /\ \A s \in v'.passed : Earned(s)'
        /\ "timeout" \in v'.passed => "429" \in v'.passed
    BY <1>2, <1>4 DEF GoesOn, PassedInv
  <2>2. ASSUME v'.pc = "write", NEW k \in Runs PROVE run'[k].home # "normal"
    <3>1. v' = v \/ Verifier
      BY <2>2, WithinStage
    <3>2. CASE v' = v
      <4>1. run[k].home # "normal" /\ ~Post
        BY <2>2, <3>2 DEF PassedInv, At, Post
      <4> QED
        BY <4>1, HomesStay
    <3>3. CASE Verifier
      <4>1. Leaked
        BY <2>2, <3>3, Arrivals
      <4>2. run[k].home # "normal" /\ run' = run
        BY <1>0, <2>2, <4>1, FailGoes DEF Leaked, Require, Gone
      <4> QED
        BY <4>2
    <3> QED
      BY <3>1, <3>2, <3>3
  <2> QED
    BY <2>1, <2>2 DEF PassedInv, At
<1> QED
  BY <1>1, <1>3, <1>4, VerifierSteps

LEMMA GateWritten ==
  ASSUME [Next]_vars, "gate" \in report', "gate" \notin report
  PROVE  WriteGate /\ v' = NoVerifier /\ Experiments \subseteq v.passed
<1>1. ~(Script \/ System \/ VerifierKilled \/ UNCHANGED vars)
  BY SystemFrame, ScriptFrame DEF VerifierKilled, vars, gate
<1>2. CASE VerifierFails
  BY <1>2 DEF VerifierFails, Fail
<1>3. CASE Verifier /\ ~WriteGate
  BY <1>3 DEF Verifier, Begin, Quiet, Setup, Post, Wait, Candidate, Watch, Kill, Rescale, Record,
     AwaitCrash, ReadRow, Repair, AwaitRow, Observe, StartRedis, ResumeServices, Stream, Compare,
     Judge,
     Reset, Leaked, Require, Fail
<1>4. CASE WriteGate
  BY <1>4 DEF WriteGate, Fail
<1> QED
  BY <1>1, <1>2, <1>3, <1>4 DEF Next

LEMMA GateStep ==
  ASSUME TypeInv, PlaneInv, FreshInv, ProgressInv, PassedInv, GateInv, [Next]_vars
  PROVE  GateInv'
<1> SUFFICES ASSUME "gate" \in report'
             PROVE  /\ ~Begun'
                    /\ \A s \in Experiments \cup {"429"} : Earned(s)'
                    /\ \A k \in Runs : run'[k].home # "normal" /\ (k[1] # "crash" => InM3(k)' /\ Ended(k)')
  BY DEF GateInv
<1>0. Experiments \cup {"429"} \subseteq Stages
  BY DEF Experiments, Stages
<1>1. /\ ~Begun' /\ ~Post
      /\ \A s \in Experiments \cup {"429"} : Earned(s)
      /\ \A k \in Runs : run[k].home # "normal" /\ (k[1] # "crash" => InM3(k) /\ Ended(k))
  <2>1. CASE "gate" \in report
    <3>1. ~Begun /\ \A k \in Runs : k[1] # "crash" => InM3(k)
      BY <2>1 DEF GateInv
    <3>2. ~Untouched
      <4>1. <<"dispatch", 1>> \in Runs /\ <<"dispatch", 1>>[1] # "crash"
        BY RunIs, Counts DEF Stages
      <4> QED
        BY <3>1, <4>1 DEF Untouched, InM3
    <3>3. ~Begun' /\ ~Post
      BY <3>1, <3>2, VerifierSteps, LaunchGoes DEF GoesOn, NextOne, Judge, Post, At, Begun
    <3> QED
      BY <2>1, <3>3 DEF GateInv
  <2>2. CASE "gate" \notin report
    <3>1. WriteGate /\ v' = NoVerifier /\ Experiments \subseteq v.passed
      BY <2>2, GateWritten
    <3>2. v.pc = "write" /\ v.stage = "end" /\ ~Begun' /\ ~Post /\ Begun
      BY <3>1, VerifierTypes, PlaceOf DEF WriteGate, At, Begun, NoVerifier, Post
    <3>3. \A s \in Experiments \cup {"429"} : Earned(s)
      BY <3>1 DEF PassedInv, Experiments
    <3>4. \A k \in Runs : run[k].home # "normal"
      BY <3>2 DEF PassedInv, At
    <3>5. \A k \in Runs : k[1] # "crash" => InM3(k) /\ Ended(k)
      BY <3>2, RunParts, Ranks DEF ProgressInv
    <3> QED
      BY <3>2, <3>3, <3>4, <3>5
  <2> QED
    BY <2>1, <2>2
<1>2. \A s \in Experiments \cup {"429"} : Earned(s)'
  BY <1>0, <1>1, EarnedStays
<1>3. \A k \in Runs : run'[k].home # "normal"
  BY <1>1, HomesStay
<1>4. \A k \in Runs : k[1] # "crash" => InM3(k)' /\ Ended(k)'
  BY <1>1, EndedStays
<1> QED
  BY <1>1, <1>2, <1>3, <1>4

LEMMA Evidence == Spec => []EvidenceInv
<1>1. Init => EvidenceInv
  <2> SUFFICES ASSUME Init PROVE EvidenceInv
    OBVIOUS
  <2>1. /\ v.pc = "off" /\ v.stage = "crash" /\ v.trials = {} /\ v.passed = {} /\ report = {}
    BY DEF Init, NoVerifier
  <2>2. SafeInv
    BY <2>1, TypeInit, PlaneInit DEF SafeInv, KnownInv, QuietInv, Begun, Underway
  <2>3. FreshInv /\ ProgressInv /\ DarkInv /\ OrphanInv /\ PassedInv /\ GateInv
    BY <2>1 DEF FreshInv, ProgressInv, DarkInv, OrphanInv, PassedInv, GateInv, Begun, At
  <2> QED
    BY <2>2, <2>3 DEF EvidenceInv
<1>2. EvidenceInv /\ [Next]_vars => EvidenceInv'
  <2> SUFFICES ASSUME EvidenceInv, [Next]_vars PROVE EvidenceInv'
    OBVIOUS
  <2>1. SafeInv'
    BY TypeStep, PlaneStep, KnownStep, QuietStep DEF EvidenceInv, SafeInv
  <2>2. FreshInv' /\ ProgressInv' /\ DarkInv' /\ OrphanInv'
    BY FreshStep, ProgressStep, DarkStep, OrphanStep DEF EvidenceInv, SafeInv
  <2>3. PassedInv' /\ GateInv'
    BY PassedStep, GateStep DEF EvidenceInv, SafeInv
  <2> QED
    BY <2>1, <2>2, <2>3 DEF EvidenceInv
<1> QED
  BY <1>1, <1>2, PTL DEF Spec

\* An experiment that passes has seen its fault and the recovery from it: enough runs of EXP-1
\* were taken over and ended with one write each, the run of EXP-2 was published by a dispatcher
\* that died of it and was started once, those of EXP-3 were submitted with Redis down, both arms
\* of EXP-4 had a retry.  When gate_m3.json is there, all six passed, no run has got into the
\* ordinary database, and every run of EXP-2 to EXP-6 has ended in the gate's own.
THEOREM PassesAreEarned == Spec => []PassIsEarned
<1>1. ASSUME EvidenceInv PROVE PassIsEarned
  <2>1. \A s \in Passed : Earned(s)
    BY <1>1 DEF EvidenceInv, PassedInv, GateInv, Passed
  <2>2. "crash" \in Passed =>
          Cardinality({i \in 1..Candidates : GoodTrial(i) /\ Ended(<<"crash", i>>)}) >= Trials
    BY <2>1 DEF Earned, GoodTrials
  <2>3. "dispatch" \in Passed => run[<<"dispatch", 1>>].orphan /\ run[<<"dispatch", 1>>].gen = 1
    BY <2>1 DEF Earned
  <2>4. "outage" \in Passed => \A i \in 1..Outage : run[<<"outage", i>>].dark
    BY <2>1 DEF Earned
  <2>5. \A s \in Passed \cap {"429", "timeout"} : \E i \in 1..Batch : run[<<s, i>>].retried
    <3>1. ASSUME NEW s \in {"429", "timeout"}, Earned(s) PROVE \E i \in 1..Batch : run[<<s, i>>].retried
      BY <3>1 DEF Earned
    <3> QED
      BY <2>1, <3>1
  <2>6. "gate" \in report => /\ \A k \in Runs : run[k].home # "normal"
                             /\ \A k \in Runs : k[1] # "crash" => InM3(k) /\ Ended(k)
    BY <1>1 DEF EvidenceInv, GateInv
  <2> QED
    BY <2>2, <2>3, <2>4, <2>5, <2>6 DEF PassIsEarned
<1> QED
  BY <1>1, Evidence, PTL
-----------------------------------------------------------------------------
(* EXP-2, when nothing breaks but what it breaks                             *)

Undisturbed(r) ==
    /\ r.status = "queued" => r.gen = 0
    /\ r.status \notin {"absent", "queued"} => r.gen = 1
    /\ r.status = "running" => r.live
Mine == <<"dispatch", 1>>
\* A dispatcher that is armed dies of the run, and what it leaves behind is there to be read;
\* the one that replaces it stays.
DispatchInv ==
    v.stage = "dispatch" =>
        /\ Undisturbed(run[Mine])
        /\ v.pc \in {"post", "await_crash"} => ~dispatcher.restart
        /\ v.pc \in {"post", "await_crash"} /\ ~dispatcher.up => At("await_crash") /\ run[Mine].row = "pending"
        /\ At("crash_row") /\ v.exited =>
              ~dispatcher.restart /\ ~dispatcher.up /\ run[Mine].row = "pending"
        /\ v.pc \in {"repair", "wait", "row", "judge"} /\ v.exited => v.pending
        /\ v.pc \in {"wait", "row", "judge"} => dispatcher = Fresh(FALSE)
TrialInv ==
    faults = 0 =>
        /\ ~stray
        /\ DispatcherTrialFair
        /\ ~At("off") /\ v.stage \in {"crash", "dispatch"} => redis
        /\ DispatchInv

Unordered == DispatcherDies \/ VerifierFails \/ VerifierKilled \/ ScriptFails \/ Signal
             \/ CutOff \/ \E k \in Runs : HorseDies(k)

LEMMA NoFault ==
  ASSUME TypeInv, [Next]_vars, faults' = 0
  PROVE  faults = 0 /\ ~Unordered
<1>1. faults \in Nat
  BY Sizes DEF TypeInv, GateTypes
<1>2. Unordered => faults' = faults + 1
  BY DEF Unordered, DispatcherDies, VerifierFails, VerifierKilled, ScriptFails, Signal,
     CutOff, HorseDies
<1>3. UNCHANGED faults \/ faults' = faults + 1
  <2>1. CASE System
    BY <2>1 DEF System, Commit, DispatcherRestarts, DispatcherDies, Publish, Claim, UseTool, Resume,
       MeetFault, End, Sweep, HorseDies
  <2>2. CASE Verifier \/ VerifierFails \/ VerifierKilled \/ UNCHANGED vars
    BY <2>2, VerifierFrame DEF VerifierFails, VerifierKilled, vars
  <2>3. CASE Script
    BY <2>3 DEF Script, Start, Prepare, Up, Launch, VerifierEnded, ScriptFails, Signal,
       CutOff, Restore
  <2> QED
    BY <2>1, <2>2, <2>3 DEF Next
<1> QED
  BY <1>1, <1>2, <1>3

\* A run that changes neither in status nor attempts is as undisturbed as it was.
LEMMA RolledBackIs ==
  ASSUME NEW f \in [Runs -> RunRec], NEW k \in Runs
  PROVE  LET t == RolledBack(f)[k] IN
         /\ t.status = f[k].status /\ t.gen = f[k].gen /\ t.live = f[k].live /\ t.home = f[k].home
         /\ f[k].row = "pending" => t.row = "pending"
<1>1. RolledBack(f)[k] = IF f[k].row = "published" THEN [f[k] EXCEPT !.row = "pending"] ELSE f[k]
  BY DEF RolledBack
<1>2. f[k] \in RunRec
  OBVIOUS
<1> QED
  BY <1>1, <1>2 DEF RunRec

LEMMA CalmSystem ==
  ASSUME TypeInv, System, ~Unordered, NEW d \in Runs, d[1] # "crash", Undisturbed(run[d])
  PROVE  /\ Undisturbed(run'[d])
         /\ ~dispatcher.up /\ run[d].row = "pending" => run'[d].row = "pending"
<1>0. run \in [Runs -> RunRec] /\ run[d] \in RunRec /\ Sound(run[d])
  BY DEF TypeInv, RunTypes
<1>1. CASE Commit
  <2>1. run'[d] = IF run[d].row = "published" THEN [run[d] EXCEPT !.row = "dispatched"] ELSE run[d]
    BY <1>1 DEF Commit
  <2> QED
    BY <1>0, <2>1 DEF Undisturbed, RunRec
<1>2. ASSUME NEW k \in Runs, Publish(k) PROVE Undisturbed(run'[d]) /\ dispatcher.up
  <2>0. run[k] \in RunRec
    BY <1>0
  <2> DEFINE sent == [run[k] EXCEPT !.waiting = @ \/ ~run[k].known, !.known = TRUE]
             done == [sent EXCEPT !.row = "published"]
             died == [sent EXCEPT !.orphan = TRUE]
             f == [run EXCEPT ![k] = died]
  <2>1. /\ done \in RunRec /\ done.status = run[k].status /\ done.gen = run[k].gen /\ done.live = run[k].live
        /\ died \in RunRec /\ died.status = run[k].status /\ died.gen = run[k].gen /\ died.live = run[k].live
    BY <2>0 DEF RunRec
  <2>2. dispatcher.up /\ (run' = [run EXCEPT ![k] = done] \/ run' = RolledBack(f))
    BY <1>2 DEF Publish
  <2> HIDE DEF done, died
  <2>3. CASE run' = [run EXCEPT ![k] = done]
    BY <1>0, <2>1, <2>2, <2>3 DEF Undisturbed
  <2>4. CASE run' = RolledBack(f)
    <3>1. f \in [Runs -> RunRec] /\ f[d].status = run[d].status /\ f[d].gen = run[d].gen /\ f[d].live = run[d].live
      BY <1>0, <2>1
    <3> HIDE DEF f
    <3>2. run'[d].status = run[d].status /\ run'[d].gen = run[d].gen /\ run'[d].live = run[d].live
      BY <2>4, <3>1, RolledBackIs
    <3> QED
      BY <2>2, <3>2 DEF Undisturbed
  <2> QED
    BY <2>2, <2>3, <2>4
<1>3. ASSUME NEW k \in Runs, k # d, \E t : run' = [run EXCEPT ![k] = t] PROVE run'[d] = run[d]
  BY <1>0, <1>3
<1>4. CASE Claim(d)
  <2>1. CASE run[d].status = "queued"
    <3>1. run'[d] = [run[d] EXCEPT !.waiting = FALSE, !.status = "running", !.gen = run[d].gen + 1, !.live = TRUE]
      BY <1>0, <1>4, <2>1 DEF Claim
    <3>2. run'[d].status = "running" /\ run'[d].gen = run[d].gen + 1 /\ run'[d].live /\ run'[d].row = run[d].row
      BY <1>0, <3>1 DEF RunRec
    <3> QED
      BY <2>1, <3>2 DEF Undisturbed
  <2>2. CASE run[d].status # "queued"
    <3>1. run'[d] = [run[d] EXCEPT !.waiting = FALSE]
      BY <1>0, <1>4, <2>2 DEF Claim
    <3> QED
      BY <1>0, <3>1 DEF RunRec, Undisturbed
  <2> QED
    BY <2>1, <2>2
<1>5. CASE Resume(d)
  <2>1. run'[d] = [run[d] EXCEPT !.paused = FALSE]
    BY <1>0, <1>5 DEF Resume
  <2> QED
    BY <1>0, <2>1 DEF RunRec, Undisturbed
<1>6. CASE MeetFault(d)
  <2>1. run'[d] = [run[d] EXCEPT !.retried = TRUE]
    BY <1>0, <1>6 DEF MeetFault
  <2> QED
    BY <1>0, <2>1 DEF RunRec, Undisturbed
<1>7. CASE End(d)
  <2>1. run[d].live /\ \E o \in {"completed"} : run' = [run EXCEPT ![d].status = o, ![d].live = FALSE]
    BY <1>7 DEF End, Outcomes
  <2>2. run'[d] = [run[d] EXCEPT !.status = "completed", !.live = FALSE]
    BY <1>0, <2>1
  <2>3. run[d].gen = 1
    BY <1>0, <2>1 DEF Undisturbed, Sound
  <2>4. run'[d].status = "completed" /\ run'[d].gen = 1 /\ run'[d].row = run[d].row
    BY <1>0, <2>2, <2>3 DEF RunRec
  <2> QED
    BY <2>4 DEF Undisturbed
<1>8. ~Sweep(d) /\ ~UseTool(d)
  BY DEF Sweep, UseTool, Undisturbed
<1>9. CASE DispatcherRestarts
  BY <1>9 DEF DispatcherRestarts
<1>10. ASSUME NEW k \in Runs, k # d, Claim(k) \/ UseTool(k) \/ Resume(k) \/ MeetFault(k) \/ End(k) \/ Sweep(k)
       PROVE  run'[d] = run[d]
  <2>1. Claim(k) \/ UseTool(k) \/ Sweep(k) => \E t : run' = [run EXCEPT ![k] = t]
    BY DEF Claim, UseTool, Sweep
  <2>2. Resume(k) \/ MeetFault(k) \/ End(k) => run'[d] = run[d]
    BY <1>0, <1>10 DEF Resume, MeetFault, End
  <2> QED
    BY <1>3, <1>10, <2>1, <2>2
<1> QED
  BY <1>1, <1>2, <1>4, <1>5, <1>6, <1>7, <1>8, <1>9, <1>10 DEF System, Unordered

LEMMA CalmDispatcher ==
  ASSUME TypeInv, System, ~Unordered
  PROVE  \/ dispatcher' = dispatcher
         \/ ~dispatcher.up /\ dispatcher.restart
         \/ ~dispatcher'.up /\ \E k \in Runs : Publish(k) /\ dispatcher.crash /\ ~marker
<1>1. dispatcher \in [up: BOOLEAN, crash: BOOLEAN, restart: BOOLEAN]
  BY DEF TypeInv, ServiceTypes
<1>2. ASSUME NEW k \in Runs, Publish(k) PROVE dispatcher' = dispatcher \/ (~dispatcher'.up /\ dispatcher.crash /\ ~marker)
  BY <1>1, <1>2 DEF Publish
<1>3. DispatcherRestarts => ~dispatcher.up /\ dispatcher.restart
  BY DEF DispatcherRestarts
<1>4. Commit \/ (\E k \in Runs : Claim(k) \/ UseTool(k) \/ Resume(k) \/ MeetFault(k) \/ End(k) \/ Sweep(k))
        => dispatcher' = dispatcher
  BY DEF Commit, Claim, UseTool, Resume, MeetFault, End, Sweep, services
<1> QED
  BY <1>2, <1>3, <1>4 DEF System, Unordered

LEMMA MineIs ==
  /\ Mine \in Runs /\ Mine[1] = "dispatch" /\ Mine[2] = 1
  /\ \A k \in Runs : k[1] = "dispatch" => k = Mine
<1>1. Mine \in Runs /\ Mine[1] = "dispatch" /\ Mine[2] = 1
  BY RunIs, Counts DEF Mine, Stages
<1>2. ASSUME NEW k \in Runs, k[1] = "dispatch" PROVE k = Mine
  <2>1. k[2] \in 1..1 /\ k = <<k[1], k[2]>>
    BY <1>2, RunParts, Counts
  <2> QED
    BY <1>2, <2>1 DEF Mine
<1> QED
  BY <1>1, <1>2

\* Redis is only stopped for EXP-3.
LEMMA RedisStays ==
  ASSUME [Next]_vars, ~Unordered, redis, v.stage # "outage"
  PROVE  redis'
<1>1. CASE System \/ UNCHANGED vars
  BY <1>1, SystemFrame DEF vars, services
<1>2. CASE Verifier
  BY <1>2 DEF Verifier, Begin, Quiet, Setup, Post, Wait, Candidate, Watch, Kill, Rescale, Record,
     ScaleWorkers,
     AwaitCrash, ReadRow, Repair, AwaitRow, Observe, StartRedis, ResumeServices, Stream, Compare,
     Judge,
     Reset, Leaked, WriteGate, services
<1>3. CASE Script
  BY <1>3 DEF Script, Start, Prepare, Up, Launch, VerifierEnded, ScriptFails, Signal,
     CutOff, Restore,
     RedisAfter, services
<1> QED
  BY <1>1, <1>2, <1>3 DEF Next, Unordered

\* The verifier blames EXP-2 in two places.
LEMMA WhoBlames ==
  ASSUME TypeInv, Verifier, v'.why = "dispatch"
  PROVE  \/ v' = [NoVerifier EXCEPT !.why = "dispatch", !.exited = v.exited]
            /\ \/ AwaitRow /\ RowLate(Mine)
               \/ Judge /\ v.stage = "dispatch" /\ ~Meets("dispatch")
<1>0. v \in VerifierRec /\ v.why = "none"
  BY VerifierFrame, VerifierTypes DEF At, Shape
<1>f. Fail("none") => v'.why = "none"
  BY <1>0, FailGoes DEF Gone
<1>t. \A pc : To(pc) => v'.why = "none"
  BY <1>0 DEF To, VerifierRec
<1>r. \A condition, pc : Require(condition, pc) => v'.why = "none"
  BY <1>f, <1>t DEF Require
<1>1. ~(Begin \/ Quiet \/ Compare \/ Leaked \/ Kill)
  BY <1>r DEF Begin, Quiet, Compare, Leaked, Kill
<1>2. ~(Setup \/ Wait \/ Candidate \/ Watch \/ Rescale \/ Repair \/ StartRedis \/ ResumeServices \/ Reset)
  BY <1>f, <1>t DEF Setup, Wait, Candidate, Watch, Rescale, Repair, StartRedis, ResumeServices, Reset
<1>3. ~Post
  BY <1>0 DEF Post, VerifierRec
<1>4. ~Record
  BY <1>0 DEF Record, VerifierRec
<1>5. ~AwaitCrash
  BY <1>0, <1>f DEF AwaitCrash, VerifierRec
<1>6. ~ReadRow
  BY <1>0 DEF ReadRow, VerifierRec
<1>7. ~Observe
  BY <1>0 DEF Observe, VerifierRec
<1>8. ~Stream
  BY <1>0, <1>f DEF Stream, VerifierRec
<1>9. ~WriteGate
  BY <1>f DEF WriteGate, NoVerifier
<1>10. AwaitRow => Fail("dispatch") /\ RowLate(Mine)
  BY <1>t DEF AwaitRow, Mine
<1>11. Judge => Fail("dispatch") /\ v.stage = "dispatch" /\ ~Meets("dispatch")
  <2> DEFINE passed == IF Meets(v.stage) THEN v.passed \cup {v.stage} ELSE v.passed
             pc == IF v.stage = "sse" THEN "reset" ELSE "quiet"
             good == (v.stage = "429" \/ Meets(v.stage)) /\ (v.stage = "timeout" => "429" \in v.passed)
  <2>1. Judge => \/ v' = [v EXCEPT !.stage = NextStage(v.stage), !.n = 0, !.passed = passed, !.seen = {},
                                  !.exited = FALSE, !.pending = FALSE, !.pc = pc]
                 \/ Fail("dispatch") /\ v.stage = "dispatch" /\ ~good
                 \/ Fail("none")
    BY DEF Judge
  <2>2. v.stage = "dispatch" /\ ~good => ~Meets("dispatch")
    OBVIOUS
  <2> HIDE DEF passed, pc, good
  <2>3. v' # [v EXCEPT !.stage = NextStage(v.stage), !.n = 0, !.passed = passed, !.seen = {},
                       !.exited = FALSE, !.pending = FALSE, !.pc = pc]
    BY <1>0 DEF VerifierRec
  <2> QED
    BY <1>f, <2>1, <2>2, <2>3
<1> QED
  BY <1>1, <1>2, <1>3, <1>4, <1>5, <1>6, <1>7, <1>8, <1>9, <1>10, <1>11 DEF Verifier, Fail

LEMMA DispatchStep ==
  ASSUME SafeInv, FreshInv, DispatchInv, [Next]_vars, ~Unordered, ~stray, v'.stage = "dispatch"
  PROVE  DispatchInv'
<1>0. /\ TypeInv /\ PlaneInv /\ QuietInv /\ v' \in VerifierRec /\ Shape(v') /\ v'.pc # "off" /\ v'.pc # "begin"
      /\ run \in [Runs -> RunRec] /\ run[Mine] \in RunRec /\ Sound(run[Mine])
      /\ dispatcher \in [up: BOOLEAN, crash: BOOLEAN, restart: BOOLEAN]
  <2>1. TypeInv
    BY DEF SafeInv
  <2>2. v' \in VerifierRec /\ Shape(v')
    BY <2>1, ShapeStep
  <2> QED
    BY <2>1, <2>2, PlaceOf, MineIs DEF SafeInv, Shape, VerifierRec, TypeInv, RunTypes, ServiceTypes
<1>1. CASE NextOne
  <2>1. v.pc = "judge" /\ v.stage \in Stages /\ run' = run
    BY <1>0, <1>1, VerifierTypes DEF NextOne, Judge, At, VerifierPcs, Between
  <2>2. Rank("dispatch") = Rank(v.stage) + 1
    BY <1>1, <2>1, NextStages DEF NextOne
  <2>3. ~HasPosted(Mine) /\ Begun
    BY <2>1, <2>2, MineIs, RankValues, Ranks DEF HasPosted, Begun
  <2>4. run'[Mine] = Absent
    BY <1>0, <2>1, <2>3, MineIs DEF FreshInv, Sound
  <2>5. Undisturbed(run'[Mine])
    BY <2>4 DEF Undisturbed, Absent
  <2> QED
    BY <1>1, <2>5 DEF DispatchInv, NextOne, At
<1>2. CASE GoesOn
  <2>0. /\ v.stage = "dispatch" /\ v.pc # "off" /\ v.pc \in Places("dispatch")
        /\ v.n \in Nat /\ (v.pc = "post" => v.n < 1)
    BY <1>0, <1>2, VerifierTypes, Counts DEF GoesOn, Shape
  <2>1. script = "driving" /\ ~Script
    <3>1. script = "driving"
      BY <1>0, <2>0 DEF PlaneInv, At
    <3> QED
      BY <2>0, <3>1 DEF Script, Start, Prepare, Up, Launch, VerifierEnded, ScriptFails, Signal,
         CutOff,
         Restore, InScript,
         At, Unordered
  <2>2. (System /\ v' = v) \/ Verifier \/ UNCHANGED vars
    BY <2>1, SystemFrame DEF Next, Unordered
  <2>i. /\ Undisturbed(run[Mine])
        /\ v.pc \in {"post", "await_crash"} => ~dispatcher.restart
        /\ v.pc \in {"post", "await_crash"} /\ ~dispatcher.up => v.pc = "await_crash" /\ run[Mine].row = "pending"
        /\ v.pc = "crash_row" /\ v.exited => ~dispatcher.restart /\ ~dispatcher.up /\ run[Mine].row = "pending"
        /\ v.pc \in {"repair", "wait", "row", "judge"} /\ v.exited => v.pending
        /\ v.pc \in {"wait", "row", "judge"} => dispatcher = Fresh(FALSE)
    BY <2>0 DEF DispatchInv, At
  <2>3. CASE System /\ v' = v
    <3>1. /\ Undisturbed(run'[Mine])
          /\ ~dispatcher.up /\ run[Mine].row = "pending" => run'[Mine].row = "pending"
      BY <1>0, <2>3, <2>i, CalmSystem, MineIs
    <3>2. dispatcher'.restart = dispatcher.restart
      BY <1>0, <2>3, SystemKeeps
    <3>3. ASSUME v.pc \in {"post", "await_crash"}, ~dispatcher'.up
          PROVE  v.pc = "await_crash" /\ run'[Mine].row = "pending"
      <4>1. CASE dispatcher' = dispatcher
        BY <2>i, <3>1, <3>3, <4>1
      <4>2. CASE \E k \in Runs : Publish(k) /\ dispatcher.crash /\ ~marker
        <5>1. v.n >= 1 /\ run'[Mine].row = "pending"
          BY <1>0, <2>0, <3>3, <4>2, CrashIsOwn DEF Mine
        <5> QED
          BY <2>0, <3>3, <5>1
      <4> QED
        BY <1>0, <2>3, <2>i, <3>3, <4>1, <4>2, CalmDispatcher
    <3>4. ~dispatcher.up /\ ~dispatcher.restart => dispatcher' = dispatcher
      BY <1>0, <2>3, CalmDispatcher DEF Publish
    <3>5. dispatcher = Fresh(FALSE) => dispatcher' = dispatcher
      BY <1>0, <2>3, CalmDispatcher DEF Fresh
    <3> QED
      BY <2>3, <2>i, <3>1, <3>2, <3>3, <3>4, <3>5 DEF DispatchInv, At
  <2>4. CASE UNCHANGED vars
    BY <2>4 DEF DispatchInv, At, vars, services, gate
  <2>5. CASE Verifier
    <3>1. Undisturbed(run'[Mine])
      <4>1. CASE Post
        <5>1. run'[Mine] = run[Mine] \/ run'[Mine] = Posted
          BY <1>0, <4>1, MineIs DEF Post
        <5>2. Undisturbed(Posted)
          BY <1>0, <4>1, PostedRun DEF Undisturbed
        <5> QED
          BY <2>i, <5>1, <5>2
      <4>2. CASE ~Post
        <5>1. ~(Candidate \/ Kill \/ Rescale \/ ResumeServices \/ Reset)
          BY <2>0 DEF Candidate, Kill, Rescale, ResumeServices, Reset, At, Places, Between
        <5>2. run' = run \/ run' = RolledBack(run)
          BY <2>0, <2>5, <4>2, <5>1 DEF Verifier, Begin, Quiet, Setup, Wait, Watch, Record,
             AwaitCrash, ReadRow,
             Repair, AwaitRow, Observe, StartRedis, Stream, Compare, Judge, Leaked, WriteGate
        <5>3. /\ run'[Mine].status = run[Mine].status /\ run'[Mine].gen = run[Mine].gen
              /\ run'[Mine].live = run[Mine].live
          BY <1>0, <5>2, RolledBackIs, MineIs
        <5> QED
          BY <2>i, <5>3 DEF Undisturbed
      <4> QED
        BY <4>1, <4>2
    <3>2. ~Candidate /\ ~Compare
      BY <2>0 DEF Candidate, Compare, At, Places, Between
    <3>3. ASSUME v'.pc \in {"post", "await_crash"} PROVE dispatcher'.up /\ ~dispatcher'.restart
      <4>1. CASE Setup
        BY <2>0, <4>1 DEF Setup, Fresh
      <4>2. CASE Post
        BY <2>i, <4>2 DEF Post, At, services
      <4> QED
        BY <1>0, <2>5, <3>2, <3>3, <4>1, <4>2, Arrivals
    <3>4. ASSUME v'.pc = "crash_row", v'.exited
          PROVE  ~dispatcher'.restart /\ ~dispatcher'.up /\ run'[Mine].row = "pending"
      <4>1. AwaitCrash
        BY <1>0, <2>5, <3>4, Arrivals
      <4>2. v.pc = "await_crash" /\ ~dispatcher.up /\ run' = run /\ dispatcher' = dispatcher
        BY <1>0, <3>4, <4>1, FailGoes, VerifierTypes DEF AwaitCrash, At, Gone, VerifierRec, services
      <4> QED
        BY <2>i, <4>2
    <3>5. ASSUME v'.pc \in {"repair", "wait", "row", "judge"}, v'.exited
          PROVE  v'.pending
      <4>1. CASE ReadRow
        <5>1. v.pc = "crash_row" /\ v'.pending = (Own \subseteq PendingOutbox) /\ v'.exited = v.exited
          BY <1>0, <4>1, VerifierTypes DEF ReadRow, At, VerifierRec
        <5>2. run[Mine].row = "pending"
          BY <2>i, <3>5, <5>1
        <5>3. run[Mine].home = "m3"
          BY <1>0, <5>2, MineIs DEF PlaneInv, NormalUntouched, Sound, Absent, RunRec, Databases
        <5>4. Mine \in PendingOutbox
          BY <5>2, <5>3, MineIs DEF PendingOutbox, Row, InM3
        <5>5. \A k \in Own : k = Mine
          BY <1>0, <2>0, VerifierTypes, OwnRuns, MineIs
        <5> QED
          BY <5>1, <5>4, <5>5
      <4>2. CASE Wait \/ AwaitRow \/ Repair
        <5>1. v.pc \in {"wait", "row", "repair"} /\ ~AwaitCrash /\ ~ReadRow /\ ~Observe
          BY <4>2 DEF Wait, AwaitRow, Repair, AwaitCrash, ReadRow, Observe, At
        <5>2. v'.exited = v.exited /\ v'.pending = v.pending
          BY <1>2, <5>1 DEF GoesOn
        <5> QED
          BY <2>i, <3>5, <5>1, <5>2
      <4> QED
        BY <1>0, <2>0, <2>5, <3>2, <3>5, <4>1, <4>2, Arrivals
    <3>6. ASSUME v'.pc \in {"wait", "row", "judge"} PROVE dispatcher' = Fresh(FALSE)
      <4>1. CASE Repair
        BY <4>1 DEF Repair
      <4>2. CASE Wait \/ AwaitRow
        BY <2>i, <4>2 DEF Wait, AwaitRow, At, services
      <4> QED
        BY <1>0, <2>0, <2>5, <3>2, <3>6, <4>1, <4>2, Arrivals
    <3> QED
      BY <3>1, <3>3, <3>4, <3>5, <3>6 DEF DispatchInv, At
  <2> QED
    BY <2>2, <2>3, <2>4, <2>5
<1> QED
  BY <1>0, <1>1, <1>2, VerifierSteps, LaunchGoes

LEMMA TrialStep ==
  ASSUME SafeInv, FreshInv, ProgressInv, TrialInv, [Next]_vars
  PROVE  TrialInv'
<1> SUFFICES ASSUME faults' = 0
             PROVE  /\ ~stray' /\ DispatcherTrialFair' /\ DispatchInv'
                    /\ v'.pc # "off" /\ v'.stage \in {"crash", "dispatch"} => redis'
  BY DEF TrialInv, At
<1>0. TypeInv /\ PlaneInv /\ v' \in VerifierRec /\ Shape(v')
  BY ShapeStep DEF SafeInv
<1>1. faults = 0 /\ ~Unordered
  BY <1>0, NoFault
<1>2. ~stray /\ DispatcherTrialFair /\ DispatchInv /\ (v.pc # "off" /\ v.stage \in {"crash", "dispatch"} => redis)
  BY <1>1 DEF TrialInv, At
<1>3. ~stray'
  BY <1>1, <1>2, SystemFrame, VerifierFrame DEF Next, Unordered, Script, Start, Prepare, Up,
     Launch, VerifierEnded,
     Restore, vars, gate
<1>4. ASSUME v'.pc # "off", v'.stage \in {"crash", "dispatch"} PROVE redis'
  <2>1. CASE Launch
    BY <1>0, <2>1 DEF Launch, PlaneInv, InScript, services
  <2>2. CASE NextOne
    <3>1. v.stage \in Stages /\ v.pc = "judge"
      BY <1>0, <2>2, VerifierTypes DEF NextOne, Judge, At, VerifierPcs, Between
    <3>2. Rank(v'.stage) = Rank(v.stage) + 1 /\ Rank(v.stage) \in 1..10
      BY <2>2, <3>1, NextStages, Ranks DEF NextOne
    <3>3. Rank(v.stage) = Rank("crash") /\ "crash" \in Stages
      BY <1>4, <3>2, RankValues DEF Stages
    <3>4. v.stage = "crash"
      BY <3>1, <3>3, Ranks
    <3> QED
      BY <1>1, <1>2, <3>1, <3>4, RedisStays
  <2>3. CASE GoesOn
    BY <1>1, <1>2, <1>4, <2>3, RedisStays DEF GoesOn
  <2> QED
    BY <1>0, <1>4, <2>1, <2>2, <2>3, VerifierSteps
<1>5. DispatcherTrialFair'
  <2> SUFFICES ASSUME v'.why = "dispatch" PROVE ~v'.exited
    BY DEF DispatcherTrialFair
  <2>1. CASE v' = v
    BY <1>1, <1>2, <2>1 DEF DispatcherTrialFair
  <2>2. CASE Launch
    BY <2>2, LaunchGoes
  <2>3. CASE Verifier
    <3>1. v'.exited = v.exited /\ ((AwaitRow /\ RowLate(Mine)) \/ (Judge /\ v.stage = "dispatch" /\ ~Meets("dispatch")))
      BY <1>0, <2>3, WhoBlames DEF NoVerifier
    <3>2. Mine \in Own /\ v.stage = "dispatch" /\ v.pc \in {"row", "judge"}
      <4>1. v.stage = "dispatch" /\ v.pc \in {"row", "judge"}
        BY <1>0, <3>1, VerifierTypes, PlaceOf DEF AwaitRow, Judge, At
      <4>2. v.n = 1
        BY <1>0, <4>1, VerifierTypes, Counts DEF Shape, Unposted, Between
      <4> QED
        BY <4>1, <4>2 DEF Own, Mine
    <3>3. /\ Ended(Mine) /\ InM3(Mine) /\ dispatcher = Fresh(FALSE) /\ redis /\ plane["dispatcher"] = "m3"
          /\ Undisturbed(run[Mine]) /\ (v.exited => v.pending)
      BY <1>0, <1>2, <3>2 DEF ProgressInv, DispatchInv, PlaneInv, At, Services
    <3>4. ~RowLate(Mine)
      BY <3>3 DEF RowLate, Fresh, On, InM3
    <3>5. ~v.exited
      BY <3>1, <3>3, <3>4 DEF Meets, DispatcherDied, Undisturbed, Ended, Mine
    <3> QED
      BY <3>1, <3>5
  <2>4. CASE VerifierFails \/ VerifierKilled
    BY <1>1, <2>4 DEF Unordered
  <2> QED
    BY <2>1, <2>2, <2>3, <2>4, SystemFrame, ScriptFrame DEF Next, vars, gate
<1>6. DispatchInv'
  <2>1. CASE v'.stage = "dispatch"
    BY <1>1, <1>2, <2>1, DispatchStep
  <2>2. CASE v'.stage # "dispatch"
    BY <2>2 DEF DispatchInv
  <2> QED
    BY <2>1, <2>2
<1> QED
  BY <1>3, <1>4, <1>5, <1>6

\* If nothing broke but what the verifier broke, and the gate failed in EXP-2, the dispatcher
\* had not been seen to die: a dispatcher that died when it should is found to have left the row
\* pending, to be replaced, and to be recovered from with the run started once.
THEOREM DispatcherTrialsAreFair == Spec => []DispatcherTrialFair
<1>1. Init => TrialInv
  BY DEF Init, TrialInv, DispatcherTrialFair, DispatchInv, At, NoVerifier
<1>2. EvidenceInv /\ TrialInv /\ [Next]_vars => TrialInv'
  BY TrialStep DEF EvidenceInv
<1>3. TrialInv => DispatcherTrialFair
  BY DEF TrialInv, DispatcherTrialFair
<1> QED
  BY <1>1, <1>2, <1>3, Evidence, PTL DEF Spec
=============================================================================
