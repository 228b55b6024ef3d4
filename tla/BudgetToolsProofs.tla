-------------------------- MODULE BudgetToolsProofs --------------------------
(***************************************************************************)
(* Machine-checked facts about BudgetTools, for any number of runs,        *)
(* campaigns, generations and rounds, any prompts and any requests.        *)
(***************************************************************************)
EXTENDS BudgetTools, TLAPS, FiniteSetTheorems

LEMMA Constants ==
  /\ Opening \in Nat \ {0} /\ Opening % 100 = 0
  /\ Nowhere \notin Campaigns /\ Missing \notin Int /\ Malformed \notin Int
  /\ Intents \subseteq Intent \cup {NoIntent} /\ NoIntent \notin Intent
  /\ Requests \subseteq Call
  /\ Attempts \in Nat \ {0} /\ MaxRounds \in Nat \ {0} /\ 1 \in 1..MaxRounds
<1>1. ASSUME NEW asked \in Dialogues PROVE asked[3] \in Call
  BY <1>1, NamesAssumption
<1> QED
  BY <1>1, MoneyAssumption, NamesAssumption, LimitsAssumption DEF Cent, Requests

LEMMA OffAgentType ==
  ASSUME NEW p \in {"off", "ready", "over"}
  PROVE  [OffAgent EXCEPT !.pc = p] \in Agent /\ OffAgent \in Agent
<1>1. 1 \in 1..MaxRounds /\ 0 \in Int /\ "" \in Codes /\ NoCall \in Call \cup {NoCall}
  BY Constants DEF Codes
<1> QED
  BY <1>1 DEF OffAgent, Agent

\* Storing keeps an integer; it never rounds half a cent or more down to nothing.
LEMMA StoredFacts ==
  ASSUME NEW x \in Int
  PROVE  Stored(x) \in Int /\ (x >= 50 => Stored(x) >= 100)
<1>1. CASE x >= 0
  <2>1. Stored(x) = ((x + 50) \div 100) * 100
    BY <1>1 DEF Stored, Abs, Cent
  <2>2. (x + 50) \div 100 \in Int /\ (x >= 50 => (x + 50) \div 100 >= 1)
    BY <1>1
  <2> QED
    BY <2>1, <2>2
<1>2. CASE x < 0
  <2>1. Stored(x) = -(((-x + 50) \div 100) * 100)
    BY <1>2 DEF Stored, Abs, Cent
  <2>2. (-x + 50) \div 100 \in Int
    BY <1>2
  <2> QED
    BY <1>2, <2>1, <2>2
<1> QED
  BY <1>1, <1>2

\* Normalisation asks for a call of the same tool.
LEMMA NormalizedType ==
  ASSUME NEW r \in Runs, NEW call \in Call
  PROVE  Normalized(r, call) \in Call
  BY DEF Normalized, Call, Arguments

\* One agent changes, the others stay as they are.
LEMMA BecomesOne ==
  ASSUME TypeOK, NEW r \in Runs, NEW g \in Generations, NEW a \in Agent, Becomes(r, g, a)
  PROVE  /\ agent' \in [Runs -> [Generations -> Agent]]
         /\ \A q \in Runs, h \in Generations :
              agent'[q][h] = IF q = r /\ h = g THEN a ELSE agent[q][h]
  BY DEF TypeOK, Becomes

\* A call that passes is a read, or an authorised adjustment of an existing budget.
LEMMA VerdictFacts ==
  ASSUME NEW r \in Runs, NEW call \in Call, NEW b \in Int, intent[r] \in Intent \cup {NoIntent}
  PROVE  /\ Verdict(r, call, b) \in Codes \ {"TOOL_UNKNOWN"}
         /\ Verdict(r, call, b) = "" /\ call.tool = "adjust_budget" =>
              call.args.delta \in Int /\ Authorized(r, call, b) /\ ~OverLimit(call.args.delta, b)
<1>1. call.tool \in {"read", "adjust_budget", "other"} /\ call.args.delta \in Int \cup {Missing, Malformed}
  BY DEF Call, Arguments
<1>2. CASE call.tool = "read"
  BY <1>2 DEF Verdict, Codes
<1>3. CASE call.tool = "other"
  BY <1>3 DEF Verdict, Codes
<1>4. CASE call.tool = "adjust_budget"
  <2>1. CASE call.args.delta = Malformed
    BY <1>4, <2>1 DEF Verdict, Codes
  <2>2. CASE call.args.delta = Missing
    BY <1>4, <2>2, NamesAssumption DEF Verdict, Codes
  <2>3. CASE call.args.delta \in Int
    <3>1. Verdict(r, call, b) = IF Authorized(r, call, b) /\ ~OverLimit(call.args.delta, b)
                                THEN "" ELSE "TOOL_ERROR"
      BY <1>4, <2>3, NamesAssumption DEF Verdict
    <3> QED
      BY <2>3, <3>1 DEF Codes
  <2> QED
    BY <1>1, <2>1, <2>2, <2>3
<1> QED
  BY <1>1, <1>2, <1>3, <1>4
\* The types, and: a transaction has one of the calls a model can make.
TypeInv ==
    /\ TypeOK
    /\ \A r \in Runs, g \in Generations :
         /\ agent[r][g].pc \in {"begun", "decided"} => agent[r][g].call \in Call
         /\ agent[r][g].pc = "decided" => agent[r][g].call.args.campaign \in Campaigns
         /\ agent[r][g].pc = "decided" /\ agent[r][g].call.tool = "adjust_budget" =>
              agent[r][g].call.args.delta \in Int

\* The changes a step may make to one agent keep the types of all agents.
LEMMA AgentType ==
  ASSUME TypeInv, NEW r \in Runs, NEW g \in Generations, NEW a \in Agent, Becomes(r, g, a),
         a.pc \in {"begun", "decided"} => a.call \in Call,
         a.pc = "decided" => a.call.args.campaign \in Campaigns,
         a.pc = "decided" /\ a.call.tool = "adjust_budget" => a.call.args.delta \in Int
  PROVE  /\ agent' \in [Runs -> [Generations -> Agent]]
         /\ \A q \in Runs, h \in Generations :
              /\ agent'[q][h].pc \in {"begun", "decided"} => agent'[q][h].call \in Call
              /\ agent'[q][h].pc = "decided" => agent'[q][h].call.args.campaign \in Campaigns
              /\ agent'[q][h].pc = "decided" /\ agent'[q][h].call.tool = "adjust_budget" =>
                   agent'[q][h].call.args.delta \in Int
<1>1. TypeOK
  BY DEF TypeInv
<1>2. /\ agent' \in [Runs -> [Generations -> Agent]]
      /\ \A q \in Runs, h \in Generations :
           agent'[q][h] = IF q = r /\ h = g THEN a ELSE agent[q][h]
  BY <1>1, BecomesOne
<1> QED
  BY <1>2 DEF TypeInv

LEMMA ReleasedType ==
  ASSUME TypeOK, NEW r \in Runs, NEW g \in Generations, Released(r, g)
  PROVE  /\ runLock' \in [Runs -> 0..Attempts]
         /\ campaignLock' \in [Campaigns -> (Runs \X Generations) \cup {<<>>}]
<1>1. \A n \in 0..Attempts : n \in 0..Attempts /\ 0 \in 0..Attempts
  BY Constants
<1> QED
  BY <1>1 DEF TypeOK, Released

LEMMA TypeStep == TypeInv /\ [Next]_vars => TypeInv'
<1> SUFFICES ASSUME TypeInv, [Next]_vars PROVE TypeInv'
  OBVIOUS
<1>0. /\ TypeOK
      /\ \A r \in Runs, g \in Generations :
           agent[r][g] \in Agent /\ intent[r] \in Intent \cup {NoIntent}
  BY Constants DEF TypeInv, TypeOK
<1>1. CASE UNCHANGED vars
  BY <1>1 DEF vars, TypeInv, TypeOK
<1>2. ASSUME NEW r \in Runs, Claim(r) PROVE TypeInv'
  <2>1. gen[r] + 1 \in Generations /\ gen[r] + 1 \in 0..Attempts
    BY <1>0, <1>2, Constants DEF Claim, Generations, TypeOK
  <2>2. Becomes(r, gen[r] + 1, [OffAgent EXCEPT !.pc = "ready"])
    BY <1>2 DEF Claim, Becomes
  <2>3. [OffAgent EXCEPT !.pc = "ready"] \in Agent /\ [OffAgent EXCEPT !.pc = "ready"].pc = "ready"
    BY OffAgentType DEF OffAgent
  <2> HIDE DEF OffAgent
  <2> QED
    BY <1>0, <1>2, <2>1, <2>2, <2>3, AgentType DEF TypeInv, TypeOK, Claim
<1>3. ASSUME NEW r \in Runs, Bury(r) PROVE TypeInv'
  BY <1>0, <1>3 DEF TypeInv, TypeOK, Bury, Codes
<1>4. ASSUME NEW r \in Runs, NEW g \in Generations, NEW asked \in Requests, BeginCall(r, g, asked)
      PROVE  TypeInv'
  <2>1. Normalized(r, asked) \in Call
    BY Constants, NormalizedType
  <2> DEFINE a == [agent[r][g] EXCEPT !.pc = "begun", !.call = Normalized(r, asked)]
  <2>2. a \in Agent /\ a.pc = "begun" /\ a.call \in Call
    BY <1>0, <2>1 DEF Agent
  <2>3. Becomes(r, g, a)
    BY <1>4 DEF BeginCall
  <2>4. runLock' \in [Runs -> 0..Attempts]
    BY <1>0, <1>4, Constants DEF BeginCall, TypeOK, Generations
  <2> HIDE DEF a
  <2> QED
    BY <1>0, <1>4, <2>2, <2>3, <2>4, AgentType DEF TypeInv, TypeOK, BeginCall
<1>5. ASSUME NEW r \in Runs, NEW g \in Generations, NEW a \in Agent, Becomes(r, g, a),
             a.pc \notin {"begun", "decided"},
             runLock' \in [Runs -> 0..Attempts],
             campaignLock' \in [Campaigns -> (Runs \X Generations) \cup {<<>>}],
             UNCHANGED <<status, error, gen, intent, budget, calls, audits>>
      PROVE  TypeInv'
  BY <1>0, <1>5, AgentType DEF TypeInv, TypeOK
<1>6. ASSUME NEW r \in Runs, NEW g \in Generations, NEW asked \in Requests, ReplayCall(r, g, asked)
      PROVE  TypeInv'
  <2>1. Normalized(r, asked) \in Call
    BY Constants, NormalizedType
  <2> DEFINE a == [agent[r][g] EXCEPT !.told = Normalized(r, asked)]
             b == [agent[r][g] EXCEPT !.pc = "failing", !.code = "TOOL_UNKNOWN"]
  <2>2. a \in Agent /\ b \in Agent /\ a.pc = "ready" /\ b.pc = "failing"
    BY <1>0, <1>6, <2>1 DEF Agent, Codes, ReplayCall
  <2>3. Becomes(r, g, a) \/ Becomes(r, g, b)
    BY <1>6 DEF ReplayCall
  <2> HIDE DEF a, b
  <2> QED
    BY <1>0, <1>5, <1>6, <2>2, <2>3 DEF ReplayCall, TypeOK
<1>7. ASSUME NEW r \in Runs, NEW g \in Generations, DecideCall(r, g) PROVE TypeInv'
  <2> DEFINE c == agent[r][g].call.args.campaign
             a == [agent[r][g] EXCEPT !.pc = "decided", !.seen = budget[c]]
  <2>1. c \in Campaigns /\ budget[c] \in Int /\ agent[r][g].call \in Call
    BY <1>0, <1>7 DEF DecideCall, TypeInv, TypeOK
  <2>2. a \in Agent /\ a.pc = "decided" /\ a.call = agent[r][g].call
    BY <1>0, <2>1 DEF Agent
  <2>3. a.call.tool = "adjust_budget" => a.call.args.delta \in Int
    BY <1>0, <1>7, <2>1, <2>2, VerdictFacts DEF DecideCall
  <2>4. Becomes(r, g, a)
    BY <1>7 DEF DecideCall
  <2>5. campaignLock' \in [Campaigns -> (Runs \X Generations) \cup {<<>>}]
    BY <1>0, <1>7, <2>1 DEF DecideCall, TypeOK
  <2> HIDE DEF a
  <2> QED
    BY <1>0, <1>7, <2>1, <2>2, <2>3, <2>4, <2>5, AgentType DEF TypeInv, TypeOK, DecideCall
<1>8. ASSUME NEW r \in Runs, NEW g \in Generations, RejectCall(r, g) PROVE TypeInv'
  <2>1. PICK code \in Codes : Becomes(r, g, [agent[r][g] EXCEPT !.pc = "failing", !.code = code,
                                                                !.call = NoCall])
    BY <1>8 DEF RejectCall
  <2>2. [agent[r][g] EXCEPT !.pc = "failing", !.code = code, !.call = NoCall] \in Agent
    BY <1>0 DEF Agent
  <2>3. [agent[r][g] EXCEPT !.pc = "failing", !.code = code, !.call = NoCall].pc = "failing"
    BY <1>0 DEF Agent
  <2> QED
    BY <1>0, <1>5, <1>8, <2>1, <2>2, <2>3, ReleasedType DEF RejectCall
<1>9. ASSUME NEW r \in Runs, NEW g \in Generations, CommitCall(r, g) PROVE TypeInv'
  <2> DEFINE me == agent[r][g]
             c == me.call.args.campaign
             a == [me EXCEPT !.pc = "ready", !.call = NoCall, !.seen = 0, !.told = me.call]
  <2>1. me.call \in Call /\ c \in Campaigns /\ me.step \in 1..MaxRounds /\ me.seen \in Int
    BY <1>0, <1>9 DEF CommitCall, TypeInv, Agent
  <2>2. a \in Agent /\ a.pc = "ready" /\ Becomes(r, g, a)
    <3>1. Becomes(r, g, a)
      BY <1>9 DEF CommitCall
    <3>2. 0 \in Int /\ NoCall \in Call \cup {NoCall} /\ me \in Agent
      BY <1>0
    <3>3. a \in Agent /\ a.pc = "ready"
      BY <2>1, <3>2 DEF Agent
    <3> QED
      BY <3>1, <3>3
  <2>3. calls' \subseteq Row
    BY <1>0, <1>9, <2>1 DEF CommitCall, TypeOK, Row
  <2>4. budget' \in [Campaigns -> Int] /\ audits' \in Seq(Audit)
    <3>1. CASE me.call.tool = "adjust_budget"
      <4>1. me.call.args.delta \in Int /\ budget[c] \in Int
        BY <1>0, <1>9, <2>1, <3>1 DEF CommitCall, TypeInv, TypeOK
      <4>2. me.seen + me.call.args.delta \in Int
        BY <2>1, <4>1
      <4>3. Stored(me.call.args.delta) \in Int /\ Stored(me.seen + me.call.args.delta) \in Int
        BY <4>1, <4>2, StoredFacts
      <4>4. [run |-> r, step |-> me.step, call |-> me.call, campaign |-> c,
             delta |-> Stored(me.call.args.delta), exact |-> me.call.args.delta,
             before |-> budget[c]] \in Audit
        BY <2>1, <4>1, <4>3 DEF Audit
      <4>5. /\ budget' = [budget EXCEPT ![c] = Stored(me.seen + me.call.args.delta)]
            /\ audits' = NewAudit(r, g)
        BY <1>9, <3>1 DEF CommitCall
      <4>6. audits' \in Seq(Audit)
        BY <1>0, <4>4, <4>5 DEF NewAudit, TypeOK
      <4> QED
        BY <1>0, <4>3, <4>5, <4>6 DEF TypeOK
    <3>2. CASE me.call.tool # "adjust_budget"
      BY <1>0, <1>9, <3>2 DEF CommitCall, TypeOK
    <3> QED
      BY <3>1, <3>2
  <2> HIDE DEF a
  <2> QED
    BY <1>0, <1>9, <2>2, <2>3, <2>4, AgentType, ReleasedType DEF TypeInv, TypeOK, CommitCall
<1>10. ASSUME NEW r \in Runs, NEW g \in Generations, NextRound(r, g) \/ ModelFails(r, g)
       PROVE  TypeInv'
  <2>1. PICK a \in Agent : a.pc \in {"ready", "failing"} /\ Becomes(r, g, a)
    <3>1. CASE NextRound(r, g) /\ RoundsLeft(agent[r][g].step)
      <4> DEFINE a == [agent[r][g] EXCEPT !.step = agent[r][g].step + 1]
      <4>1. agent[r][g].step + 1 \in 1..MaxRounds
        BY <1>0, <3>1, Constants DEF Agent, RoundsLeft
      <4>2. a \in Agent /\ a.pc = "ready" /\ Becomes(r, g, a)
        BY <1>0, <3>1, <4>1 DEF Agent, NextRound
      <4> QED
        BY <4>2
    <3>2. CASE ~(NextRound(r, g) /\ RoundsLeft(agent[r][g].step))
      <4>1. PICK code \in {"BAD_OUTPUT", "MODEL_5XX"} :
              Becomes(r, g, [agent[r][g] EXCEPT !.pc = "failing", !.code = code])
        BY <1>10, <3>2 DEF NextRound, ModelFails
      <4>2. [agent[r][g] EXCEPT !.pc = "failing", !.code = code] \in Agent
        BY <1>0 DEF Agent, Codes
      <4>3. [agent[r][g] EXCEPT !.pc = "failing", !.code = code].pc = "failing"
        BY <1>0 DEF Agent
      <4> QED
        BY <4>1, <4>2, <4>3
    <3> QED
      BY <3>1, <3>2
  <2> QED
    BY <1>0, <1>5, <1>10, <2>1 DEF NextRound, ModelFails, TypeOK
<1>11. ASSUME NEW r \in Runs, NEW g \in Generations, Refused(r, g) \/ Crash(r, g) PROVE TypeInv'
  <2>1. Becomes(r, g, [OffAgent EXCEPT !.pc = "over"])
    BY <1>11 DEF Refused, Crash
  <2>2. [OffAgent EXCEPT !.pc = "over"] \in Agent /\ [OffAgent EXCEPT !.pc = "over"].pc = "over"
    BY OffAgentType DEF OffAgent
  <2>3. /\ runLock' \in [Runs -> 0..Attempts]
        /\ campaignLock' \in [Campaigns -> (Runs \X Generations) \cup {<<>>}]
    BY <1>0, <1>11, ReleasedType DEF Refused, Crash, TypeOK
  <2> HIDE DEF OffAgent
  <2> QED
    BY <1>5, <1>11, <2>1, <2>2, <2>3 DEF Refused, Crash
<1>12. ASSUME NEW r \in Runs, NEW g \in Generations, Finish(r, g) PROVE TypeInv'
  <2>1. Becomes(r, g, [OffAgent EXCEPT !.pc = "over"])
    BY <1>12 DEF Finish
  <2>2. [OffAgent EXCEPT !.pc = "over"] \in Agent /\ [OffAgent EXCEPT !.pc = "over"].pc = "over"
    BY OffAgentType DEF OffAgent
  <2>3. agent[r][g].code \in Codes
    BY <1>0 DEF Agent
  <2> HIDE DEF OffAgent
  <2> QED
    BY <1>0, <1>12, <2>1, <2>2, <2>3, AgentType DEF TypeInv, TypeOK, Finish
<1> QED
  BY <1>1, <1>2, <1>3, <1>4, <1>6, <1>7, <1>8, <1>9, <1>10, <1>11, <1>12
     DEF Next, RunAgent, ToolCall, Settled
-----------------------------------------------------------------------------
(* The locks: whoever has an open transaction holds the run behind a fence   *)
(* that is still good, and whoever has decided holds the campaign as read.   *)

InTx(r, g) == agent[r][g].pc \in {"begun", "decided"}

LockInv ==
    \A r \in Runs, g \in Generations :
        InTx(r, g) => runLock[r] = g /\ status[r] = "running" /\ gen[r] = g

DecidedBy(r, g) ==
    LET me == agent[r][g]
        c  == me.call.args.campaign
    IN
    /\ campaignLock[c] = <<r, g>>
    /\ me.seen = budget[c]
    /\ me.call.tool = "adjust_budget" =>
         Authorized(r, me.call, me.seen) /\ ~OverLimit(me.call.args.delta, me.seen)

DecidedInv ==
    \A r \in Runs, g \in Generations : agent[r][g].pc = "decided" => DecidedBy(r, g)

TxInv == TypeInv /\ LockInv /\ DecidedInv

\* What the steps outside a commit have in common: one agent moves, and at most
\* its own locks are released.
Quiet(r, g, a) ==
    /\ Becomes(r, g, a)
    /\ \/ UNCHANGED <<runLock, campaignLock>>
       \/ Released(r, g)
    /\ UNCHANGED <<status, gen, intent, budget, calls, audits>>

\* An agent that is not in a transaction: before it, after it, or given up.
LEMMA QuietSteps ==
  ASSUME TypeInv, NEW r \in Runs, NEW g \in Generations,
         \/ \E asked \in Requests : ReplayCall(r, g, asked)
         \/ RejectCall(r, g) \/ NextRound(r, g) \/ ModelFails(r, g)
         \/ Refused(r, g) \/ Crash(r, g)
  PROVE  \E a \in Agent : a.pc \in {"ready", "failing", "over"} /\ Quiet(r, g, a)
<1>0. agent[r][g] \in Agent
  BY DEF TypeInv, TypeOK
<1>1. ASSUME NEW asked \in Requests, ReplayCall(r, g, asked)
      PROVE  \E a \in Agent : a.pc \in {"ready", "failing", "over"} /\ Quiet(r, g, a)
  <2>1. Normalized(r, asked) \in Call
    BY Constants, NormalizedType
  <2> DEFINE a == [agent[r][g] EXCEPT !.told = Normalized(r, asked)]
             b == [agent[r][g] EXCEPT !.pc = "failing", !.code = "TOOL_UNKNOWN"]
  <2>2. a \in Agent /\ b \in Agent /\ a.pc = "ready" /\ b.pc = "failing"
    BY <1>0, <1>1, <2>1 DEF Agent, Codes, ReplayCall
  <2>3. Quiet(r, g, a) \/ Quiet(r, g, b)
    BY <1>1 DEF ReplayCall, Quiet
  <2> QED
    BY <2>2, <2>3
<1>2. ASSUME NEW code \in Codes,
             RejectCall(r, g),
             Becomes(r, g, [agent[r][g] EXCEPT !.pc = "failing", !.code = code, !.call = NoCall])
      PROVE  \E a \in Agent : a.pc \in {"ready", "failing", "over"} /\ Quiet(r, g, a)
  <2> DEFINE a == [agent[r][g] EXCEPT !.pc = "failing", !.code = code, !.call = NoCall]
  <2>1. a \in Agent /\ a.pc = "failing"
    BY <1>0 DEF Agent
  <2>2. Quiet(r, g, a)
    BY <1>2 DEF RejectCall, Quiet
  <2> QED
    BY <2>1, <2>2
<1>3. ASSUME NextRound(r, g), RoundsLeft(agent[r][g].step)
      PROVE  \E a \in Agent : a.pc \in {"ready", "failing", "over"} /\ Quiet(r, g, a)
  <2> DEFINE a == [agent[r][g] EXCEPT !.step = agent[r][g].step + 1]
  <2>1. agent[r][g].step + 1 \in 1..MaxRounds
    BY <1>0, <1>3, Constants DEF Agent, RoundsLeft
  <2>2. a \in Agent /\ a.pc = "ready" /\ Quiet(r, g, a)
    BY <1>0, <1>3, <2>1 DEF Agent, NextRound, Quiet
  <2> QED
    BY <2>2
<1>4. ASSUME NEW code \in Codes,
             UNCHANGED <<status, error, gen, intent, runLock, campaignLock, budget, calls, audits>>,
             Becomes(r, g, [agent[r][g] EXCEPT !.pc = "failing", !.code = code])
      PROVE  \E a \in Agent : a.pc \in {"ready", "failing", "over"} /\ Quiet(r, g, a)
  <2> DEFINE a == [agent[r][g] EXCEPT !.pc = "failing", !.code = code]
  <2>1. a \in Agent /\ a.pc = "failing"
    BY <1>0 DEF Agent
  <2>2. Quiet(r, g, a)
    BY <1>4 DEF Quiet
  <2> QED
    BY <2>1, <2>2
<1>5. ASSUME ModelFails(r, g) \/ (NextRound(r, g) /\ ~RoundsLeft(agent[r][g].step))
      PROVE  \E a \in Agent : a.pc \in {"ready", "failing", "over"} /\ Quiet(r, g, a)
  <2>1. "BAD_OUTPUT" \in Codes /\ "MODEL_5XX" \in Codes
    BY DEF Codes
  <2> QED
    BY <1>4, <1>5, <2>1 DEF NextRound, ModelFails
<1>6. ASSUME Refused(r, g) \/ Crash(r, g)
      PROVE  \E a \in Agent : a.pc \in {"ready", "failing", "over"} /\ Quiet(r, g, a)
  <2> DEFINE a == [OffAgent EXCEPT !.pc = "over"]
  <2>1. a \in Agent /\ a.pc = "over"
    BY OffAgentType DEF OffAgent
  <2>2. Quiet(r, g, a)
    BY <1>6 DEF Refused, Crash, Quiet
  <2> QED
    BY <2>1, <2>2
<1>7. RejectCall(r, g) => \E code \in Codes :
        Becomes(r, g, [agent[r][g] EXCEPT !.pc = "failing", !.code = code, !.call = NoCall])
  BY DEF RejectCall
<1> QED
  BY <1>1, <1>2, <1>3, <1>5, <1>6, <1>7

\* No transaction holds a free run.
LEMMA FreeRun ==
  ASSUME TxInv, NEW r \in Runs, RunFree(r), NEW g \in Generations
  PROVE  ~InTx(r, g)
  BY DEF TxInv, LockInv, RunFree, Generations

LEMMA QuietTx ==
  ASSUME TxInv, NEW r \in Runs, NEW g \in Generations, NEW a \in Agent, Quiet(r, g, a),
         a.pc \in {"ready", "failing", "over"}
  PROVE  LockInv' /\ DecidedInv'
<1>1. \A q \in Runs, h \in Generations :
        agent'[q][h] = IF q = r /\ h = g THEN a ELSE agent[q][h]
  BY BecomesOne DEF TxInv, TypeInv, Quiet
<1>2. ASSUME NEW q \in Runs, NEW h \in Generations, InTx(q, h)'
      PROVE  agent'[q][h] = agent[q][h] /\ InTx(q, h) /\ (q # r \/ h # g)
  BY <1>1, <1>2 DEF InTx
<1>3. ASSUME NEW q \in Runs, NEW h \in Generations, InTx(q, h)'
      PROVE  runLock'[q] = h /\ status'[q] = "running" /\ gen'[q] = h
  <2>1. runLock[q] = h /\ status[q] = "running" /\ gen[q] = h
    BY <1>2, <1>3 DEF TxInv, LockInv
  <2> QED
    BY <1>2, <1>3, <2>1 DEF Quiet, Released, TxInv, TypeInv, TypeOK
<1>4. ASSUME NEW q \in Runs, NEW h \in Generations, agent'[q][h].pc = "decided"
      PROVE  DecidedBy(q, h)'
  <2>1. InTx(q, h)'
    BY <1>4 DEF InTx
  <2>2. agent'[q][h] = agent[q][h] /\ DecidedBy(q, h) /\ <<q, h>> # <<r, g>>
    BY <1>2, <1>4, <2>1 DEF TxInv, DecidedInv
  <2>3. agent[q][h].call.args.campaign \in Campaigns
    BY <1>4, <2>2 DEF TxInv, TypeInv
  <2>4. campaignLock'[agent[q][h].call.args.campaign] = <<q, h>>
    BY <2>2, <2>3 DEF Quiet, Released, DecidedBy
  <2>5. Authorized(q, agent[q][h].call, agent[q][h].seen) =>
          Authorized(q, agent[q][h].call, agent[q][h].seen)'
    BY <2>2 DEF Quiet, Authorized, SingleUse, Written
  <2> QED
    BY <2>2, <2>4, <2>5 DEF DecidedBy, Quiet
<1> QED
  BY <1>3, <1>4 DEF LockInv, DecidedInv
\* The new value of an agent's record leaves every other transaction alone.
LEMMA OthersKeep ==
  ASSUME TxInv, NEW r \in Runs, NEW g \in Generations, NEW a \in Agent, Becomes(r, g, a),
         UNCHANGED <<budget, calls, intent>>,
         \A q \in Runs, h \in Generations :
            agent[q][h].pc = "decided" /\ <<q, h>> # <<r, g>> =>
              campaignLock'[agent[q][h].call.args.campaign] = <<q, h>>,
         a.pc # "decided"
  PROVE  DecidedInv'
<1>1. \A q \in Runs, h \in Generations :
        agent'[q][h] = IF q = r /\ h = g THEN a ELSE agent[q][h]
  BY BecomesOne DEF TxInv, TypeInv
<1> SUFFICES ASSUME NEW q \in Runs, NEW h \in Generations, agent'[q][h].pc = "decided"
             PROVE  DecidedBy(q, h)'
  BY DEF DecidedInv
<1>2. agent'[q][h] = agent[q][h] /\ DecidedBy(q, h) /\ <<q, h>> # <<r, g>>
  BY <1>1 DEF TxInv, DecidedInv
<1>3. Authorized(q, agent[q][h].call, agent[q][h].seen) =>
        Authorized(q, agent[q][h].call, agent[q][h].seen)'
  BY <1>2 DEF Authorized, SingleUse, Written
<1> QED
  BY <1>2, <1>3 DEF DecidedBy

LEMMA ClaimTx ==
  ASSUME TxInv, NEW r \in Runs, Claim(r)
  PROVE  LockInv' /\ DecidedInv'
<1> DEFINE a == [OffAgent EXCEPT !.pc = "ready"]
           g == gen[r] + 1
<1>1. g \in Generations /\ a \in Agent /\ a.pc = "ready"
  <2>1. gen[r] \in 0..Attempts
    BY DEF TxInv, TypeInv, TypeOK
  <2>2. g \in Generations
    BY <2>1, Constants DEF Claim, Generations
  <2>3. a \in Agent /\ a.pc = "ready"
    BY OffAgentType DEF OffAgent
  <2> QED
    BY <2>2, <2>3
<1>2. Becomes(r, g, a)
  BY DEF Claim, Becomes
<1>3. \A q \in Runs, h \in Generations :
        agent'[q][h] = IF q = r /\ h = g THEN a ELSE agent[q][h]
  BY <1>1, <1>2, BecomesOne DEF TxInv, TypeInv
<1>4. LockInv'
  <2> SUFFICES ASSUME NEW q \in Runs, NEW h \in Generations, InTx(q, h)'
               PROVE  runLock'[q] = h /\ status'[q] = "running" /\ gen'[q] = h
    BY DEF LockInv
  <2>1. InTx(q, h)
    BY <1>1, <1>3 DEF InTx
  <2>2. q # r
    BY <2>1, FreeRun DEF Claim
  <2> QED
    BY <2>1, <2>2 DEF Claim, TxInv, LockInv, TypeInv, TypeOK
<1>5. DecidedInv'
  <2>1. \A q \in Runs, h \in Generations : agent[q][h].pc = "decided" =>
           campaignLock'[agent[q][h].call.args.campaign] = <<q, h>>
    BY DEF Claim, TxInv, DecidedInv, DecidedBy
  <2>2. UNCHANGED <<budget, calls, intent>>
    BY DEF Claim
  <2> HIDE DEF a, g
  <2> QED
    BY <1>1, <1>2, <2>1, <2>2, OthersKeep
<1> QED
  BY <1>4, <1>5

LEMMA EndTx ==
  ASSUME TxInv, NEW r \in Runs, Bury(r) \/ \E g \in Generations : Finish(r, g)
  PROVE  LockInv' /\ DecidedInv'
<1>1. CASE Bury(r)
  <2>1. LockInv'
    BY <1>1, FreeRun DEF Bury, TxInv, LockInv, InTx, TypeInv, TypeOK
  <2>2. DecidedInv'
    BY <1>1 DEF Bury, TxInv, DecidedInv, DecidedBy, Authorized, SingleUse, Written
  <2> QED
    BY <2>1, <2>2
<1>2. ASSUME NEW g \in Generations, Finish(r, g) PROVE LockInv' /\ DecidedInv'
  <2> DEFINE a == [OffAgent EXCEPT !.pc = "over"]
  <2>1. a \in Agent /\ a.pc = "over" /\ Becomes(r, g, a)
    BY <1>2, OffAgentType DEF Finish, OffAgent
  <2>2. \A q \in Runs, h \in Generations :
          agent'[q][h] = IF q = r /\ h = g THEN a ELSE agent[q][h]
    BY <2>1, BecomesOne DEF TxInv, TypeInv
  <2>3. ASSUME NEW q \in Runs, NEW h \in Generations, InTx(q, h)'
        PROVE  runLock'[q] = h /\ status'[q] = "running" /\ gen'[q] = h
    <3>1. InTx(q, h)
      BY <2>1, <2>2, <2>3 DEF InTx
    <3>2. q # r
      BY <1>2, <3>1, FreeRun DEF Finish
    <3> QED
      BY <1>2, <3>1, <3>2 DEF Finish, TxInv, LockInv, TypeInv, TypeOK
  <2>4. DecidedInv'
    <3>1. \A q \in Runs, h \in Generations : agent[q][h].pc = "decided" =>
             campaignLock'[agent[q][h].call.args.campaign] = <<q, h>>
      BY <1>2 DEF Finish, TxInv, DecidedInv, DecidedBy
    <3>2. UNCHANGED <<budget, calls, intent>>
      BY <1>2 DEF Finish
    <3> HIDE DEF a
    <3> QED
      BY <2>1, <3>1, <3>2, OthersKeep
  <2> QED
    BY <2>3, <2>4 DEF LockInv
<1> QED
  BY <1>1, <1>2

LEMMA BeginTx ==
  ASSUME TxInv, NEW r \in Runs, NEW g \in Generations, NEW asked \in Requests, BeginCall(r, g, asked)
  PROVE  LockInv' /\ DecidedInv'
<1> DEFINE a == [agent[r][g] EXCEPT !.pc = "begun", !.call = Normalized(r, asked)]
<1>1. a \in Agent /\ a.pc = "begun" /\ Becomes(r, g, a)
  <2>1. Normalized(r, asked) \in Call /\ agent[r][g] \in Agent
    BY Constants, NormalizedType DEF TxInv, TypeInv, TypeOK
  <2> QED
    BY <2>1 DEF Agent, BeginCall
<1>2. \A q \in Runs, h \in Generations :
        agent'[q][h] = IF q = r /\ h = g THEN a ELSE agent[q][h]
  BY <1>1, BecomesOne DEF TxInv, TypeInv
<1>3. ASSUME NEW q \in Runs, NEW h \in Generations, InTx(q, h)'
      PROVE  runLock'[q] = h /\ status'[q] = "running" /\ gen'[q] = h
  <2>1. CASE q = r /\ h = g
    BY <2>1 DEF BeginCall, Fenced, TxInv, TypeInv, TypeOK
  <2>2. CASE ~(q = r /\ h = g)
    <3>1. InTx(q, h)
      BY <1>2, <1>3, <2>2 DEF InTx
    <3>2. q # r
      BY <3>1, FreeRun DEF BeginCall
    <3> QED
      BY <3>1, <3>2 DEF BeginCall, TxInv, LockInv, TypeInv, TypeOK
  <2> QED
    BY <2>1, <2>2
<1>4. DecidedInv'
  <2>1. \A q \in Runs, h \in Generations : agent[q][h].pc = "decided" =>
           campaignLock'[agent[q][h].call.args.campaign] = <<q, h>>
    BY DEF BeginCall, TxInv, DecidedInv, DecidedBy
  <2>2. UNCHANGED <<budget, calls, intent>>
    BY DEF BeginCall
  <2> HIDE DEF a
  <2> QED
    BY <1>1, <2>1, <2>2, OthersKeep
<1> QED
  BY <1>3, <1>4 DEF LockInv

LEMMA DecideTx ==
  ASSUME TxInv, NEW r \in Runs, NEW g \in Generations, DecideCall(r, g)
  PROVE  LockInv' /\ DecidedInv'
<1> DEFINE me == agent[r][g]
           c == me.call.args.campaign
           a == [me EXCEPT !.pc = "decided", !.seen = budget[c]]
<1>1. me \in Agent /\ c \in Campaigns /\ budget[c] \in Int /\ me.call \in Call
  BY DEF DecideCall, TxInv, TypeInv, TypeOK
<1>2. a \in Agent /\ a.pc = "decided" /\ a.call = me.call /\ a.seen = budget[c] /\ Becomes(r, g, a)
  BY <1>1 DEF Agent, DecideCall
<1>3. \A q \in Runs, h \in Generations :
        agent'[q][h] = IF q = r /\ h = g THEN a ELSE agent[q][h]
  BY <1>2, BecomesOne DEF TxInv, TypeInv
<1>4. ASSUME NEW q \in Runs, NEW h \in Generations, InTx(q, h)'
      PROVE  runLock'[q] = h /\ status'[q] = "running" /\ gen'[q] = h
  <2>1. InTx(q, h)
    BY <1>3, <1>4 DEF InTx, DecideCall
  <2> QED
    BY <2>1 DEF DecideCall, TxInv, LockInv
<1>5. ASSUME NEW q \in Runs, NEW h \in Generations, agent'[q][h].pc = "decided"
      PROVE  DecidedBy(q, h)'
  <2>1. CASE q = r /\ h = g
    <3>1. agent'[q][h] = a /\ campaignLock'[c] = <<q, h>> /\ UNCHANGED <<budget, calls, intent>>
      BY <1>1, <1>3, <2>1 DEF DecideCall, TxInv, TypeInv, TypeOK
    <3>2. intent[r] \in Intent \cup {NoIntent}
      BY Constants DEF TxInv, TypeInv, TypeOK
    <3>3. me.call.tool = "adjust_budget" =>
            Authorized(r, me.call, budget[c]) /\ ~OverLimit(me.call.args.delta, budget[c])
      BY <1>1, <3>2, VerdictFacts DEF DecideCall
    <3>4. a.call.tool = "adjust_budget" =>
            /\ Authorized(q, agent[q][h].call, agent[q][h].seen)'
            /\ ~OverLimit(a.call.args.delta, a.seen)
      <4>1. Authorized(r, me.call, budget[c]) => Authorized(q, agent[q][h].call, agent[q][h].seen)'
        BY <1>2, <2>1, <3>1 DEF Authorized, SingleUse, Written
      <4> QED
        BY <1>2, <3>3, <4>1
    <3> QED
      <4>1. /\ campaignLock'[a.call.args.campaign] = <<q, h>>
            /\ a.seen = budget'[a.call.args.campaign]
        BY <1>2, <3>1
      <4>2. agent'[q][h] = a
        BY <3>1
      <4> HIDE DEF a
      <4> QED
        BY <3>1, <3>4, <4>1, <4>2 DEF DecidedBy
  <2>2. CASE ~(q = r /\ h = g)
    <3>1. agent'[q][h] = agent[q][h] /\ DecidedBy(q, h)
      BY <1>3, <1>5, <2>2 DEF TxInv, DecidedInv
    <3>2. campaignLock[agent[q][h].call.args.campaign] = <<q, h>> /\ <<q, h>> # <<>>
      BY <3>1 DEF DecidedBy
    <3>3. campaignLock'[agent[q][h].call.args.campaign] = <<q, h>>
      BY <1>1, <1>5, <3>1, <3>2 DEF DecideCall, CampaignFree, TxInv, TypeInv, TypeOK
    <3>4. Authorized(q, agent[q][h].call, agent[q][h].seen) =>
            Authorized(q, agent[q][h].call, agent[q][h].seen)'
      BY <3>1 DEF DecideCall, Authorized, SingleUse, Written
    <3> QED
      BY <3>1, <3>3, <3>4 DEF DecidedBy, DecideCall
  <2> QED
    BY <2>1, <2>2
<1> QED
  BY <1>4, <1>5 DEF LockInv, DecidedInv

\* A commit frees the locks of its own transaction; another open one is of another
\* run and has decided about another campaign, so nothing it relies on changes.
LEMMA CommitTx ==
  ASSUME TxInv, NEW r \in Runs, NEW g \in Generations, CommitCall(r, g)
  PROVE  LockInv' /\ DecidedInv'
<1> DEFINE me == agent[r][g]
           c == me.call.args.campaign
           a == [me EXCEPT !.pc = "ready", !.call = NoCall, !.seen = 0, !.told = me.call]
<1>1. me \in Agent /\ me.pc = "decided" /\ me.call \in Call /\ c \in Campaigns
  BY DEF CommitCall, TxInv, TypeInv, TypeOK
<1>2. Becomes(r, g, a)
  BY DEF CommitCall
<1>3. a \in Agent /\ a.pc = "ready"
  <2>1. 0 \in Int /\ NoCall \in Call \cup {NoCall}
    OBVIOUS
  <2> QED
    BY <1>1, <2>1 DEF Agent
<1>4. \A q \in Runs, h \in Generations :
        agent'[q][h] = IF q = r /\ h = g THEN a ELSE agent[q][h]
  <2> HIDE DEF a
  <2> QED
    BY <1>2, <1>3, BecomesOne DEF TxInv, TypeInv
<1>5. ASSUME NEW q \in Runs, NEW h \in Generations, InTx(q, h)'
      PROVE  /\ agent'[q][h] = agent[q][h] /\ InTx(q, h) /\ q # r
             /\ runLock'[q] = h /\ status'[q] = "running" /\ gen'[q] = h
  <2>1. agent'[q][h] = agent[q][h] /\ InTx(q, h) /\ ~(q = r /\ h = g)
    <3> HIDE DEF a
    <3> QED
      BY <1>3, <1>4, <1>5 DEF InTx
  <2>2. runLock[q] = h /\ status[q] = "running" /\ gen[q] = h
    BY <2>1 DEF TxInv, LockInv
  <2>3. InTx(r, g) /\ runLock[r] = g
    BY <1>1 DEF InTx, TxInv, LockInv
  <2>4. q # r
    BY <2>1, <2>2, <2>3
  <2>5. runLock'[q] = runLock[q]
    BY <2>4 DEF CommitCall, Released, TxInv, TypeInv, TypeOK
  <2> QED
    BY <2>1, <2>2, <2>4, <2>5 DEF CommitCall
<1>6. ASSUME NEW q \in Runs, NEW h \in Generations, agent'[q][h].pc = "decided"
      PROVE  DecidedBy(q, h)'
  <2> DEFINE d == agent[q][h].call.args.campaign
  <2>1. agent'[q][h] = agent[q][h] /\ q # r /\ DecidedBy(q, h) /\ d \in Campaigns
    BY <1>5, <1>6 DEF InTx, TxInv, DecidedInv, TypeInv
  <2>2. campaignLock[d] = <<q, h>> /\ campaignLock[c] = <<r, g>>
    BY <1>1, <2>1 DEF DecidedBy, TxInv, DecidedInv
  <2>3. d # c /\ <<q, h>> # <<r, g>>
    BY <2>1, <2>2
  <2>4. campaignLock'[d] = <<q, h>>
    BY <2>1, <2>2, <2>3 DEF CommitCall, Released
  <2>5. budget'[d] = budget[d]
    BY <1>1, <2>1, <2>3 DEF CommitCall, TxInv, TypeInv, TypeOK
  <2>6. Written(q)' = Written(q)
    BY <2>1 DEF CommitCall, Written
  <2>7. Authorized(q, agent[q][h].call, agent[q][h].seen) =>
          Authorized(q, agent[q][h].call, agent[q][h].seen)'
    BY <2>1, <2>6 DEF CommitCall, Authorized, SingleUse
  <2> QED
    BY <2>1, <2>4, <2>5, <2>7 DEF DecidedBy
<1> QED
  BY <1>5, <1>6 DEF LockInv, DecidedInv

LEMMA TxInit == Init => TxInv
<1> SUFFICES ASSUME Init PROVE TxInv
  OBVIOUS
<1>1. OffAgent \in Agent
  BY OffAgentType
<1>2. \A r \in Runs, g \in Generations : agent[r][g] = OffAgent
  BY DEF Init
<1>3. \A r \in Runs, g \in Generations : agent[r][g].pc = "off"
  <2>1. OffAgent.pc = "off"
    BY DEF OffAgent
  <2> QED
    BY <1>2, <2>1
<1>4. TypeOK
  <2>1. 0 \in 0..Attempts /\ Opening \in Int
    BY Constants
  <2>2. calls \subseteq Row /\ audits \in Seq(Audit)
    <3>1. calls = {} /\ audits = <<>>
      BY DEF Init
    <3>2. <<>> \in Seq(Audit)
      OBVIOUS
    <3> QED
      BY <3>1, <3>2
  <2>3. agent \in [Runs -> [Generations -> Agent]]
    BY <1>1 DEF Init
  <2>4. /\ error \in [Runs -> Codes] /\ gen \in [Runs -> 0..Attempts]
        /\ status \in [Runs -> {"queued", "running", "completed", "failed"}]
    BY <2>1 DEF Init, Codes
  <2>5. /\ runLock \in [Runs -> 0..Attempts]
        /\ campaignLock \in [Campaigns -> (Runs \X Generations) \cup {<<>>}]
        /\ budget \in [Campaigns -> Int]
    BY <2>1 DEF Init
  <2>6. intent \in [Runs -> Intents]
    BY NamesAssumption DEF Init
  <2> QED
    BY <2>2, <2>3, <2>4, <2>5, <2>6 DEF TypeOK
<1> QED
  BY <1>3, <1>4 DEF TxInv, TypeInv, LockInv, DecidedInv, InTx

LEMMA TxStep == TxInv /\ [Next]_vars => TxInv'
<1> SUFFICES ASSUME TxInv, [Next]_vars PROVE TxInv'
  OBVIOUS
<1>1. TypeInv'
  BY TypeStep DEF TxInv
<1>2. CASE UNCHANGED vars
  <2>1. LockInv'
    BY <1>2 DEF vars, TxInv, LockInv, InTx
  <2>2. DecidedInv'
    BY <1>2 DEF vars, TxInv, DecidedInv, DecidedBy, Authorized, SingleUse, Written
  <2> QED
    BY <1>1, <2>1, <2>2 DEF TxInv
<1>3. ASSUME NEW r \in Runs, Claim(r) \/ Bury(r) PROVE TxInv'
  BY <1>1, <1>3, ClaimTx, EndTx DEF TxInv
<1>4. ASSUME NEW r \in Runs, NEW g \in Generations, RunAgent(r, g) PROVE TxInv'
  <2>1. CASE \/ \E asked \in Requests : ReplayCall(r, g, asked)
             \/ RejectCall(r, g) \/ NextRound(r, g) \/ ModelFails(r, g)
             \/ Refused(r, g) \/ Crash(r, g)
    <3>1. PICK a \in Agent : a.pc \in {"ready", "failing", "over"} /\ Quiet(r, g, a)
      BY <2>1, QuietSteps DEF TxInv
    <3> QED
      BY <1>1, <3>1, QuietTx DEF TxInv
  <2>2. CASE \E asked \in Requests : BeginCall(r, g, asked)
    BY <1>1, <2>2, BeginTx DEF TxInv
  <2>3. CASE DecideCall(r, g)
    BY <1>1, <2>3, DecideTx DEF TxInv
  <2>4. CASE CommitCall(r, g)
    BY <1>1, <2>4, CommitTx DEF TxInv
  <2>5. CASE Finish(r, g)
    BY <1>1, <2>5, EndTx DEF TxInv
  <2> QED
    BY <1>4, <2>1, <2>2, <2>3, <2>4, <2>5 DEF RunAgent, ToolCall
<1> QED
  BY <1>2, <1>3, <1>4 DEF Next, Settled

LEMMA TxAlways == Spec => []TxInv
<1> QED
  BY TxInit, TxStep, PTL DEF Spec

\* Whatever the prompts ask for and the model requests, the rows of the tables and
\* the agents' records keep their types.
THEOREM TypeCorrect == Spec => []TypeOK
<1>1. TxInv => TypeOK
  BY DEF TxInv, TypeInv
<1> QED
  BY <1>1, TxAlways, PTL

\* The transaction that commits a tool call still holds the run behind the fence
\* that it passed when it began: no generation that lost its run writes.
THEOREM WritesBehindFence == Spec => CommitsBehindFence
<1>1. TxInv => \A r \in Runs, g \in Generations :
        agent[r][g].pc = "decided" => status[r] = "running" /\ gen[r] = g
  BY DEF TxInv, LockInv, InTx
<1>2. TxInv /\ [Next]_vars =>
        [\A r \in Runs, g \in Generations :
           agent[r][g].pc = "decided" /\ calls' # calls /\ agent'[r][g] # agent[r][g]
             => status[r] = "running" /\ gen[r] = g]_vars
  BY <1>1
<1> QED
  BY <1>2, TxAlways, PTL DEF Spec, CommitsBehindFence
-----------------------------------------------------------------------------
(* The ledger: what the committed rows say of each other and of the budgets. *)

\* A run writes once because its second write would find the row of the first,
\* and the first write and its audit row were committed together.
OneAudit ==
    \A i, j \in DOMAIN audits : audits[i].run = audits[j].run => i = j

\* What an agent knows is so: it was told of no write that is not there.
Honest(r, a) ==
    /\ a.code # "TOOL_UNKNOWN"
    /\ a.told.tool = "adjust_budget" => \E row \in Written(r) : row.call = a.told

Ledger ==
    /\ \A row \in calls : row.status = "succeeded"
    /\ AllOrNothing
    /\ OneAudit
    /\ WritesAuthorized
    /\ \A c \in Campaigns : budget[c] >= 100
    /\ NeverUnknown
    /\ \A r \in Runs, g \in Generations : Honest(r, agent[r][g])

LedgerInv == TxInv /\ Ledger

\* A step that changes no table but agent_runs keeps the ledger.
LEMMA LedgerKept ==
  ASSUME LedgerInv, NEW r \in Runs, NEW g \in Generations, NEW a \in Agent,
         Becomes(r, g, a), Honest(r, a), NeverUnknown',
         UNCHANGED <<intent, budget, calls, audits>>
  PROVE  Ledger'
<1>1. \A q \in Runs, h \in Generations :
        agent'[q][h] = IF q = r /\ h = g THEN a ELSE agent[q][h]
  BY BecomesOne DEF LedgerInv, TxInv, TypeInv
<1>2. \A q \in Runs : Written(q)' = Written(q) /\ AuditsOf(q)' = AuditsOf(q)
  BY DEF Written, AuditsOf
<1>3. AllOrNothing'
  BY DEF AllOrNothing, LedgerInv, Ledger, Written, AuditsOf
<1>4. OneAudit' /\ WritesAuthorized'
  BY DEF LedgerInv, Ledger, OneAudit, WritesAuthorized
<1>5. ASSUME NEW q \in Runs, NEW h \in Generations PROVE Honest(q, agent[q][h])'
  <2>1. CASE q = r /\ h = g
    <3>1. agent'[q][h] = a
      BY <1>1, <2>1
    <3> QED
      BY <1>2, <2>1, <3>1 DEF Honest
  <2>2. CASE ~(q = r /\ h = g)
    <3>1. agent'[q][h] = agent[q][h] /\ Honest(q, agent[q][h])
      BY <1>1, <2>2 DEF LedgerInv, Ledger
    <3> QED
      BY <1>2, <3>1 DEF Honest
  <2> QED
    BY <2>1, <2>2
<1> QED
  BY <1>3, <1>4, <1>5 DEF LedgerInv, Ledger

\* A fresh agent has been told nothing.
LEMMA OffHonest ==
  ASSUME NEW r \in Runs, NEW p \in {"off", "ready", "over"}
  PROVE  Honest(r, [OffAgent EXCEPT !.pc = p]) /\ Honest(r, OffAgent)
  BY DEF OffAgent, NoCall, Honest

LEMMA ClaimLedger ==
  ASSUME LedgerInv, NEW r \in Runs, Claim(r) \/ Bury(r)
  PROVE  Ledger'
<1>1. CASE Claim(r)
  <2> DEFINE a == [OffAgent EXCEPT !.pc = "ready"]
             g == gen[r] + 1
  <2>1. gen[r] \in 0..Attempts
    BY DEF LedgerInv, TxInv, TypeInv, TypeOK
  <2>2. g \in Generations
    BY <1>1, <2>1, Constants DEF Claim, Generations
  <2>3. a \in Agent /\ Honest(r, a)
    BY OffAgentType, OffHonest
  <2>4. Becomes(r, g, a) /\ UNCHANGED <<error, intent, budget, calls, audits>>
    BY <1>1 DEF Claim, Becomes
  <2>5. NeverUnknown'
    BY <2>4 DEF LedgerInv, Ledger, NeverUnknown
  <2> HIDE DEF a, g
  <2> QED
    BY <2>2, <2>3, <2>4, <2>5, LedgerKept
<1>2. CASE Bury(r)
  <2>1. NeverUnknown'
    BY <1>2 DEF Bury, NeverUnknown, LedgerInv, Ledger, TxInv, TypeInv, TypeOK
  <2> QED
    BY <1>2, <2>1 DEF Bury, LedgerInv, Ledger, AllOrNothing, OneAudit, WritesAuthorized,
                      Honest, Written, AuditsOf
<1> QED
  BY <1>1, <1>2

\* The calls that only read, refuse or fail.
LEMMA QuietLedger ==
  ASSUME LedgerInv, NEW r \in Runs, NEW g \in Generations,
         \/ \E asked \in Requests : BeginCall(r, g, asked) \/ ReplayCall(r, g, asked)
         \/ DecideCall(r, g) \/ RejectCall(r, g)
         \/ NextRound(r, g) \/ ModelFails(r, g)
         \/ Finish(r, g) \/ Refused(r, g) \/ Crash(r, g)
  PROVE  Ledger'
<1> DEFINE me == agent[r][g]
<1>0. me \in Agent /\ Honest(r, me) /\ TypeOK /\ NeverUnknown
  BY DEF LedgerInv, TxInv, TypeInv, TypeOK, Ledger
<1>1. ASSUME NEW a \in Agent, Becomes(r, g, a), a.told = me.told, a.code # "TOOL_UNKNOWN",
             UNCHANGED <<error, intent, budget, calls, audits>>
      PROVE  Ledger'
  BY <1>0, <1>1, LedgerKept DEF Honest, NeverUnknown
<1>2. ASSUME NEW asked \in Requests, BeginCall(r, g, asked) PROVE Ledger'
  <2> DEFINE a == [me EXCEPT !.pc = "begun", !.call = Normalized(r, asked)]
  <2>1. Normalized(r, asked) \in Call
    BY Constants, NormalizedType
  <2>2. a \in Agent /\ a.told = me.told /\ a.code = me.code
    BY <1>0, <2>1 DEF Agent
  <2>3. Becomes(r, g, a) /\ UNCHANGED <<error, intent, budget, calls, audits>>
    BY <1>2 DEF BeginCall
  <2> HIDE DEF a, me
  <2> QED
    BY <1>0, <1>1, <2>2, <2>3 DEF Honest
<1>3. ASSUME NEW asked \in Requests, ReplayCall(r, g, asked) PROVE Ledger'
  <2> DEFINE call == Normalized(r, asked)
             a == [me EXCEPT !.told = call]
  <2>1. call \in Call
    BY Constants, NormalizedType
  <2>2. PICK row \in RowsWithKey(r, me.step, call) :
           IF row.status = "succeeded" THEN Becomes(r, g, a)
           ELSE Becomes(r, g, [me EXCEPT !.pc = "failing", !.code = "TOOL_UNKNOWN"])
    BY <1>3 DEF ReplayCall
  <2>3. row \in calls /\ row.run = r /\ row.call = call /\ row.status = "succeeded"
    BY <2>2 DEF RowsWithKey, LedgerInv, Ledger
  <2>4. a \in Agent /\ a.told = call /\ a.code = me.code
    BY <1>0, <2>1 DEF Agent
  <2>5. call.tool = "adjust_budget" => row \in Written(r)
    BY <2>3 DEF Written
  <2>6. Becomes(r, g, a) /\ UNCHANGED <<error, intent, budget, calls, audits>>
    BY <1>3, <2>2, <2>3 DEF ReplayCall
  <2> HIDE DEF a, me, call
  <2>7. Honest(r, a)
    BY <1>0, <2>3, <2>4, <2>5 DEF Honest
  <2> QED
    BY <1>0, <2>4, <2>6, <2>7, LedgerKept DEF NeverUnknown
<1>4. ASSUME DecideCall(r, g) PROVE Ledger'
  <2> DEFINE a == [me EXCEPT !.pc = "decided", !.seen = budget[me.call.args.campaign]]
  <2>1. budget[me.call.args.campaign] \in Int
    BY <1>0, <1>4 DEF DecideCall, TypeOK
  <2>2. a \in Agent /\ a.told = me.told /\ a.code = me.code
    BY <1>0, <2>1 DEF Agent
  <2>3. Becomes(r, g, a) /\ UNCHANGED <<error, intent, budget, calls, audits>>
    BY <1>4 DEF DecideCall
  <2> HIDE DEF a, me
  <2> QED
    BY <1>0, <1>1, <2>2, <2>3 DEF Honest
<1>5. ASSUME RejectCall(r, g) PROVE Ledger'
  <2>1. PICK code \in Codes \ {""} :
          /\ \/ code = "TOOL_ERROR"
             \/ me.call.args.campaign # Nowhere
                /\ code = Verdict(r, me.call, budget[me.call.args.campaign])
          /\ Becomes(r, g, [me EXCEPT !.pc = "failing", !.code = code, !.call = NoCall])
    BY <1>5 DEF RejectCall
  <2>2. code # "TOOL_UNKNOWN"
    <3>1. me.call \in Call /\ me.call.args.campaign \in Campaigns \cup {Nowhere}
      BY <1>5 DEF RejectCall, LedgerInv, TxInv, TypeInv, Call, Arguments
    <3>2. me.call.args.campaign # Nowhere => budget[me.call.args.campaign] \in Int
      BY <1>0, <3>1 DEF TypeOK
    <3>3. intent[r] \in Intent \cup {NoIntent}
      BY <1>0, Constants DEF TypeOK
    <3> QED
      BY <2>1, <3>1, <3>2, <3>3, VerdictFacts
  <2> DEFINE a == [me EXCEPT !.pc = "failing", !.code = code, !.call = NoCall]
  <2>3. a \in Agent /\ a.told = me.told /\ a.code = code
    BY <1>0, <2>1 DEF Agent
  <2>4. Becomes(r, g, a) /\ UNCHANGED <<error, intent, budget, calls, audits>>
    BY <1>5, <2>1 DEF RejectCall
  <2> HIDE DEF a, me
  <2> QED
    BY <1>1, <2>2, <2>3, <2>4
<1>6. ASSUME NextRound(r, g) \/ ModelFails(r, g) PROVE Ledger'
  <2>1. UNCHANGED <<error, intent, budget, calls, audits>>
    BY <1>6 DEF NextRound, ModelFails
  <2>2. CASE NextRound(r, g) /\ RoundsLeft(me.step)
    <3> DEFINE a == [me EXCEPT !.step = me.step + 1]
    <3>1. me.step + 1 \in 1..MaxRounds
      BY <1>0, <2>2, Constants DEF Agent, RoundsLeft
    <3>2. a \in Agent /\ a.told = me.told /\ a.code = me.code
      BY <1>0, <3>1 DEF Agent
    <3>3. Becomes(r, g, a)
      BY <2>2 DEF NextRound
    <3> HIDE DEF a, me
    <3> QED
      BY <1>0, <1>1, <2>1, <3>2, <3>3 DEF Honest
  <2>3. CASE ~(NextRound(r, g) /\ RoundsLeft(me.step))
    <3>1. PICK code \in {"BAD_OUTPUT", "MODEL_5XX"} :
            Becomes(r, g, [me EXCEPT !.pc = "failing", !.code = code])
      BY <1>6, <2>3 DEF NextRound, ModelFails
    <3> DEFINE a == [me EXCEPT !.pc = "failing", !.code = code]
    <3>2. a \in Agent /\ a.told = me.told /\ a.code # "TOOL_UNKNOWN"
      BY <1>0 DEF Agent, Codes
    <3>3. Becomes(r, g, a)
      BY <3>1
    <3> HIDE DEF a, me
    <3> QED
      BY <1>1, <2>1, <3>2, <3>3
  <2> QED
    BY <2>2, <2>3
<1>7. ASSUME Finish(r, g) \/ Refused(r, g) \/ Crash(r, g) PROVE Ledger'
  <2> DEFINE a == [OffAgent EXCEPT !.pc = "over"]
  <2>1. a \in Agent /\ Honest(r, a)
    BY OffAgentType, OffHonest
  <2>2. Becomes(r, g, a) /\ UNCHANGED <<intent, budget, calls, audits>>
    BY <1>7 DEF Finish, Refused, Crash
  <2>3. NeverUnknown'
    BY <1>0, <1>7 DEF Finish, Refused, Crash, NeverUnknown, Honest, TypeOK
  <2> HIDE DEF a
  <2> QED
    BY <2>1, <2>2, <2>3, LedgerKept
<1> QED
  BY <1>2, <1>3, <1>4, <1>5, <1>6, <1>7

\* A commit writes into a run that has not written yet, what the prompt authorised
\* and no more than a fifth of the budget that is still in the table.
LEMMA CommitFacts ==
  ASSUME LedgerInv, NEW r \in Runs, NEW g \in Generations, CommitCall(r, g),
         agent[r][g].call.tool = "adjust_budget"
  PROVE  LET me == agent[r][g]
             c == me.call.args.campaign
             delta == me.call.args.delta
         IN  /\ c \in Campaigns /\ me.call \in Call /\ delta \in Int /\ me.seen = budget[c]
             /\ Written(r) = {} /\ \A i \in DOMAIN audits : audits[i].run # r
             /\ intent[r] # NoIntent /\ intent[r].campaign = c /\ delta = Resolve(intent[r], budget[c])
             /\ Abs(delta) * 5 <= Abs(budget[c])
             /\ Stored(budget[c] + delta) >= 100
<1> DEFINE me == agent[r][g]
           c == me.call.args.campaign
           delta == me.call.args.delta
<1>1. c \in Campaigns /\ me.call \in Call /\ delta \in Int /\ me.pc = "decided"
  BY DEF CommitCall, LedgerInv, TxInv, TypeInv
<1>2. DecidedBy(r, g)
  BY <1>1 DEF LedgerInv, TxInv, DecidedInv
<1>3. me.seen = budget[c] /\ Authorized(r, me.call, me.seen) /\ ~OverLimit(delta, me.seen)
  BY <1>2 DEF DecidedBy
<1>4. budget[c] \in Int /\ budget[c] >= 100
  BY <1>1 DEF LedgerInv, Ledger, TxInv, TypeInv, TypeOK
<1>5. Written(r) = {}
  BY <1>3 DEF Authorized, SingleUse
<1>6. \A i \in DOMAIN audits : audits[i].run # r
  BY <1>5 DEF LedgerInv, Ledger, AllOrNothing
<1>7. Abs(delta) * 5 <= Abs(budget[c])
  BY <1>1, <1>3, <1>4 DEF OverLimit, Abs
<1>8. budget[c] + delta >= 50 /\ budget[c] + delta \in Int
  BY <1>1, <1>4, <1>7 DEF Abs
<1>9. Stored(budget[c] + delta) >= 100
  BY <1>8, StoredFacts
<1> QED
  BY <1>1, <1>3, <1>5, <1>6, <1>7, <1>9 DEF Authorized

\* The run of an audit row.
LEMMA AuditType ==
  ASSUME TypeOK, NEW i \in DOMAIN audits
  PROVE  audits[i].run \in Runs
<1>1. audits[i] \in Audit
  BY DEF TypeOK
<1> QED
  BY <1>1 DEF Audit

LEMMA CommitLedger ==
  ASSUME LedgerInv, NEW r \in Runs, NEW g \in Generations, CommitCall(r, g)
  PROVE  Ledger'
<1> DEFINE me == agent[r][g]
           c == me.call.args.campaign
           new == [run |-> r, step |-> me.step, call |-> me.call, status |-> "succeeded"]
           a == [me EXCEPT !.pc = "ready", !.call = NoCall, !.seen = 0, !.told = me.call]
<1>0. TypeOK /\ me \in Agent /\ me.pc = "decided" /\ me.call \in Call /\ c \in Campaigns
  BY DEF CommitCall, LedgerInv, TxInv, TypeInv, TypeOK
<1>1. calls' = calls \cup {new} /\ UNCHANGED <<status, error, gen, intent>> /\ Becomes(r, g, a)
  BY DEF CommitCall
<1>2. a \in Agent /\ a.told = me.call /\ a.code = me.code
  <2>1. 0 \in Int /\ NoCall \in Call \cup {NoCall}
    OBVIOUS
  <2> QED
    BY <1>0, <2>1 DEF Agent
<1>3. \A q \in Runs, h \in Generations :
        agent'[q][h] = IF q = r /\ h = g THEN a ELSE agent[q][h]
  <2> HIDE DEF a, me
  <2> QED
    BY <1>0, <1>1, <1>2, BecomesOne
<1>4. /\ new.run = r /\ new.step = me.step /\ new.call = me.call /\ new.status = "succeeded"
      /\ \A row \in calls : row \in calls'
  BY <1>1
<1> HIDE DEF new, a
<1>5. \A q \in Runs : Written(q) \subseteq Written(q)'
  BY <1>4 DEF Written
<1>6. \A row \in calls' : row.status = "succeeded"
  BY <1>1, <1>4 DEF LedgerInv, Ledger
<1>7. ASSUME NEW q \in Runs, NEW h \in Generations PROVE Honest(q, agent[q][h])'
  <2>1. CASE q = r /\ h = g
    <3>1. agent'[q][h] = a
      BY <1>3, <2>1
    <3>2. me.call.tool = "adjust_budget" => new \in Written(r)'
      BY <1>1, <1>4 DEF Written
    <3>3. Honest(r, me)
      BY DEF LedgerInv, Ledger
    <3> QED
      BY <1>2, <1>4, <2>1, <3>1, <3>2, <3>3 DEF Honest
  <2>2. CASE ~(q = r /\ h = g)
    <3>1. agent'[q][h] = agent[q][h] /\ Honest(q, agent[q][h])
      BY <1>3, <2>2 DEF LedgerInv, Ledger
    <3> QED
      BY <1>5, <3>1 DEF Honest
  <2> QED
    BY <2>1, <2>2
<1>8. NeverUnknown'
  BY <1>1 DEF NeverUnknown, LedgerInv, Ledger
<1>9. CASE me.call.tool # "adjust_budget"
  <2>1. UNCHANGED <<budget, audits, intent>>
    BY <1>1, <1>9 DEF CommitCall
  <2>2. \A q \in Runs : Written(q)' = Written(q)
    BY <1>1, <1>4, <1>9 DEF Written
  <2>3. AllOrNothing'
    <3>1. ASSUME NEW i \in DOMAIN audits
          PROVE  \E row \in Written(audits[i].run)' : row.step = audits[i].step /\ row.call = audits[i].call
      <4>1. audits[i].run \in Runs
        BY <1>0, <3>1, AuditType
      <4>2. Written(audits[i].run)' = Written(audits[i].run)
        BY <1>1, <1>4, <1>9, <2>1 DEF Written
      <4>3. \E row \in Written(audits[i].run) : row.step = audits[i].step /\ row.call = audits[i].call
        BY <3>1 DEF LedgerInv, Ledger, AllOrNothing
      <4> QED
        BY <4>2, <4>3
    <3>2. ASSUME NEW q \in Runs, NEW row \in Written(q)'
          PROVE  \E i \in AuditsOf(q) : row.step = audits[i].step /\ row.call = audits[i].call
      BY <2>2, <3>2 DEF LedgerInv, Ledger, AllOrNothing
    <3> QED
      BY <2>1, <3>1, <3>2 DEF AllOrNothing, AuditsOf
  <2>4. OneAudit' /\ WritesAuthorized'
    BY <2>1 DEF LedgerInv, Ledger, OneAudit, WritesAuthorized
  <2> QED
    BY <1>6, <1>7, <1>8, <2>1, <2>3, <2>4 DEF LedgerInv, Ledger
<1>10. CASE me.call.tool = "adjust_budget"
  <2> DEFINE delta == me.call.args.delta
             entry == [run |-> r, step |-> me.step, call |-> me.call, campaign |-> c,
                       delta |-> Stored(delta), exact |-> delta, before |-> budget[c]]
             n == Len(audits) + 1
  <2>1. /\ delta \in Int /\ me.seen = budget[c]
        /\ Written(r) = {} /\ \A i \in DOMAIN audits : audits[i].run # r
        /\ intent[r] # NoIntent /\ intent[r].campaign = c /\ delta = Resolve(intent[r], budget[c])
        /\ Abs(delta) * 5 <= Abs(budget[c])
        /\ Stored(budget[c] + delta) >= 100
    BY <1>10, CommitFacts
  <2>2. audits' = Append(audits, entry) /\ budget' = [budget EXCEPT ![c] = Stored(budget[c] + delta)]
    BY <1>10, <2>1 DEF CommitCall, NewAudit
  <2>3. /\ entry.run = r /\ entry.step = me.step /\ entry.call = me.call /\ entry.campaign = c
        /\ entry.exact = delta /\ entry.before = budget[c]
    OBVIOUS
  <2> HIDE DEF entry, delta
  <2>4. /\ n \in Nat /\ DOMAIN audits = 1..Len(audits) /\ DOMAIN audits' = 1..n /\ n \notin DOMAIN audits
        /\ n \in DOMAIN audits'
        /\ audits'[n] = entry /\ \A i \in DOMAIN audits : i \in DOMAIN audits' /\ audits'[i] = audits[i]
        /\ \A i \in DOMAIN audits' : i = n \/ i \in DOMAIN audits
    BY <1>0, <2>2 DEF TypeOK
  <2> HIDE DEF n
  <2>5. \A i \in DOMAIN audits : audits[i].run \in Runs
    BY <1>0, AuditType
  <2>6. AllOrNothing'
    <3>1. ASSUME NEW i \in DOMAIN audits'
          PROVE  \E row \in Written(audits[i].run)' : row.step = audits'[i].step /\ row.call = audits'[i].call
      <4>1. CASE i = n
        <5>1. new \in Written(r)'
          BY <1>1, <1>4, <1>10 DEF Written
        <5> QED
          BY <1>4, <2>3, <2>4, <4>1, <5>1
      <4>2. CASE i \in DOMAIN audits
        <5>1. \E row \in Written(audits[i].run) : row.step = audits[i].step /\ row.call = audits[i].call
          BY <4>2 DEF LedgerInv, Ledger, AllOrNothing
        <5> QED
          BY <1>5, <2>4, <2>5, <4>2, <5>1
      <4> QED
        BY <2>4, <3>1, <4>1, <4>2
    <3>2. ASSUME NEW q \in Runs, NEW row \in Written(q)'
          PROVE  \E i \in AuditsOf(q)' : row.step = audits'[i].step /\ row.call = audits'[i].call
      <4>1. CASE row = new
        <5>0. q = r
          BY <1>4, <3>2, <4>1 DEF Written
        <5>1. n \in AuditsOf(q)'
          <6>1. n \in DOMAIN audits' /\ audits'[n].run = q
            BY <2>3, <2>4, <5>0
          <6> QED
            BY <6>1 DEF AuditsOf
        <5> QED
          BY <1>4, <2>3, <2>4, <4>1, <5>1
      <4>2. CASE row # new
        <5>1. row \in Written(q)
          BY <1>1, <3>2, <4>2 DEF Written
        <5>2. PICK i \in AuditsOf(q) : row.step = audits[i].step /\ row.call = audits[i].call
          BY <5>1 DEF LedgerInv, Ledger, AllOrNothing
        <5>3. i \in AuditsOf(q)' /\ audits'[i] = audits[i]
          BY <2>4, <5>2 DEF AuditsOf
        <5> QED
          BY <5>2, <5>3
      <4> QED
        BY <4>1, <4>2
    <3> QED
      BY <3>1, <3>2 DEF AllOrNothing
  <2>7. OneAudit'
    BY <2>1, <2>3, <2>4 DEF LedgerInv, Ledger, OneAudit
  <2>8. WritesAuthorized'
    <3>1. ASSUME NEW i \in DOMAIN audits' PROVE
            /\ intent'[audits'[i].run] # NoIntent /\ intent'[audits'[i].run].campaign = audits'[i].campaign
            /\ audits'[i].exact = Resolve(intent'[audits'[i].run], audits'[i].before)
            /\ Abs(audits'[i].exact) * 5 <= Abs(audits'[i].before)
      <4>1. CASE i = n
        BY <1>1, <2>1, <2>3, <2>4, <4>1
      <4>2. CASE i \in DOMAIN audits
        BY <1>1, <2>4, <4>2 DEF LedgerInv, Ledger, WritesAuthorized
      <4> QED
        BY <2>4, <3>1, <4>1, <4>2
    <3> QED
      BY <3>1 DEF WritesAuthorized
  <2>9. \A d \in Campaigns : budget'[d] >= 100
    BY <1>0, <2>1, <2>2 DEF TypeOK, LedgerInv, Ledger
  <2> QED
    BY <1>6, <1>7, <1>8, <2>6, <2>7, <2>8, <2>9 DEF Ledger
<1> QED
  BY <1>9, <1>10

LEMMA LedgerInit == Init => LedgerInv
<1> SUFFICES ASSUME Init PROVE LedgerInv
  OBVIOUS
<1>1. calls = {} /\ audits = <<>> /\ DOMAIN audits = {}
  <2>1. calls = {} /\ audits = <<>>
    BY DEF Init
  <2>2. DOMAIN <<>> = {}
    OBVIOUS
  <2> QED
    BY <2>1, <2>2
<1>2. AllOrNothing /\ OneAudit /\ WritesAuthorized
  BY <1>1 DEF AllOrNothing, OneAudit, WritesAuthorized, Written
<1>3. \A c \in Campaigns : budget[c] >= 100
  <2>1. Opening >= 100
    BY Constants
  <2> QED
    BY <2>1 DEF Init
<1>4. NeverUnknown
  BY DEF Init, NeverUnknown
<1>5. \A r \in Runs, g \in Generations : Honest(r, agent[r][g])
  <2>1. \A r \in Runs, g \in Generations : agent[r][g] = OffAgent
    BY DEF Init
  <2>2. \A r \in Runs : Honest(r, OffAgent)
    BY OffHonest
  <2> QED
    BY <2>1, <2>2
<1> QED
  BY <1>1, <1>2, <1>3, <1>4, <1>5, TxInit DEF LedgerInv, Ledger

LEMMA LedgerStep == LedgerInv /\ [Next]_vars => LedgerInv'
<1> SUFFICES ASSUME LedgerInv, [Next]_vars PROVE LedgerInv'
  OBVIOUS
<1>1. TxInv'
  BY TxStep DEF LedgerInv
<1>2. CASE UNCHANGED vars
  BY <1>1, <1>2 DEF vars, LedgerInv, Ledger, AllOrNothing, OneAudit, WritesAuthorized,
                    NeverUnknown, Honest, Written, AuditsOf
<1>3. ASSUME NEW r \in Runs, Claim(r) \/ Bury(r) PROVE LedgerInv'
  BY <1>1, <1>3, ClaimLedger DEF LedgerInv
<1>4. ASSUME NEW r \in Runs, NEW g \in Generations, RunAgent(r, g) PROVE LedgerInv'
  <2>1. CASE CommitCall(r, g)
    BY <1>1, <2>1, CommitLedger DEF LedgerInv
  <2>2. CASE ~CommitCall(r, g)
    BY <1>1, <1>4, <2>2, QuietLedger DEF LedgerInv, RunAgent, ToolCall
  <2> QED
    BY <2>1, <2>2
<1> QED
  BY <1>2, <1>3, <1>4 DEF Next, Settled

LEMMA LedgerAlways == Spec => []LedgerInv
<1> QED
  BY LedgerInit, LedgerStep, PTL DEF Spec

\* A run changes a budget at most once, for any number of attempts, rounds and
\* requests: tools.py's single-use check under the run lock is enough.
THEOREM WritesOnce == Spec => []OneWritePerRun
<1>1. ASSUME OneAudit PROVE OneWritePerRun
  <2> SUFFICES ASSUME NEW r \in Runs PROVE Cardinality(AuditsOf(r)) <= 1
    BY DEF OneWritePerRun
  <2>1. CASE AuditsOf(r) = {}
    BY <2>1, FS_EmptySet
  <2>2. ASSUME NEW i \in AuditsOf(r) PROVE Cardinality(AuditsOf(r)) <= 1
    <3>1. AuditsOf(r) = {i}
      BY <1>1, <2>2 DEF AuditsOf, OneAudit
    <3> QED
      BY <3>1, FS_Singleton
  <2> QED
    BY <2>1, <2>2
<1>2. LedgerInv => OneAudit
  BY DEF LedgerInv, Ledger
<1> QED
  BY <1>1, <1>2, LedgerAlways, PTL

\* Every audited write is the one the prompt authorised, within the limit, against
\* the budget that it replaced: nothing read before the campaign lock is used.
THEOREM OnlyAuthorizedWrites == Spec => []WritesAuthorized
<1>1. LedgerInv => WritesAuthorized
  BY DEF LedgerInv, Ledger
<1> QED
  BY <1>1, LedgerAlways, PTL

\* Succeeded adjustments and audit rows come together, under any crash.
THEOREM WritesAreWhole == Spec => []AllOrNothing
<1>1. LedgerInv => AllOrNothing
  BY DEF LedgerInv, Ledger
<1> QED
  BY <1>1, LedgerAlways, PTL

\* No sequence of adjustments, of any length, exhausts a budget: a fifth at most is
\* taken each time, and rounding gives back what would fall below a cent.
THEOREM BudgetsLast == Spec => []BudgetStaysPositive
<1>1. LedgerInv => BudgetStaysPositive
  BY DEF LedgerInv, Ledger, TxInv, TypeInv, TypeOK, BudgetStaysPositive
<1> QED
  BY <1>1, LedgerAlways, PTL

\* No run ends as TOOL_UNKNOWN, and what an agent was told of its write, by the call or by
\* a replay, is in the audit.
THEOREM AgentsAreToldTheTruth == Spec => [](NeverUnknown /\ ToldIsWritten)
<1>1. ASSUME LedgerInv PROVE NeverUnknown /\ ToldIsWritten
  <2> SUFFICES ASSUME NEW r \in Runs, NEW g \in Generations,
                      agent[r][g].told.tool = "adjust_budget"
               PROVE  \E i \in AuditsOf(r) : audits[i].call = agent[r][g].told
    BY <1>1 DEF LedgerInv, Ledger, ToldIsWritten
  <2>1. PICK row \in Written(r) : row.call = agent[r][g].told
    BY <1>1 DEF LedgerInv, Ledger, Honest
  <2> QED
    BY <1>1, <2>1 DEF LedgerInv, Ledger, AllOrNothing
<1> QED
  BY <1>1, LedgerAlways, PTL
-----------------------------------------------------------------------------
(* The sum of the audit.  What a recursive total adds up to is not found by induction over  *)
(* the rows but along the run: the invariant speaks of every function that satisfies the    *)
(* recursion, and each step appends at most one row.                                        *)

Contribution(c, n) == IF audits[n].campaign = c THEN audits[n].delta ELSE 0
IsTotal(f, c) ==
    f = [n \in 0..Len(audits) |-> IF n = 0 THEN 0 ELSE f[n - 1] + Contribution(c, n)]
\* The rows whose delta the column rounded.
Uneven(c) == {i \in AuditsIn(c) : audits[i].exact % Cent # 0}
Explained(c) ==
    \A f : IsTotal(f, c) =>
        /\ f[Len(audits)] \in Int
        /\ Abs(budget[c] - Opening - f[Len(audits)]) <= Cent * Cardinality(Uneven(c))
SumInv ==
    \A c \in Campaigns : /\ budget[c] % Cent = 0 /\ IsFiniteSet(Uneven(c))
                         /\ \E f : IsTotal(f, c)
                         /\ Explained(c)

LEMMA TotalIsTotal == ASSUME NEW c, NEW f, IsTotal(f, c) PROVE IsTotal(RunningTotal(c), c)
BY DEF IsTotal, RunningTotal, Contribution

\* A column keeps whole cents, and the new budget and the delta are rounded at most a cent
\* apart; not at all if the delta is whole.
LEMMA Rounding ==
  ASSUME NEW b \in Int, NEW d \in Int, b % 100 = 0, b + d >= 0
  PROVE  /\ Stored(b + d) % 100 = 0
         /\ Abs(Stored(b + d) - b - Stored(d)) <= (IF d % 100 = 0 THEN 0 ELSE 100)
<1> DEFINE k == b \div 100
           m == d \div 100
           x == d % 100
<1>1. b = 100 * k /\ d = 100 * m + x /\ k \in Int /\ m \in Int /\ x \in 0..99
  OBVIOUS
<1>2. Stored(b + d) = ((b + d + 50) \div 100) * 100
  BY DEF Stored, Abs, Cent
<1>3. (b + d + 50) \div 100 = k + m + (IF x >= 50 THEN 1 ELSE 0)
  BY <1>1
<1>4. Stored(b + d) = 100 * (k + m + (IF x >= 50 THEN 1 ELSE 0))
  BY <1>1, <1>2, <1>3
<1>5. CASE d >= 0
  <2>1. Stored(d) = ((d + 50) \div 100) * 100
    BY <1>5 DEF Stored, Abs, Cent
  <2>2. (d + 50) \div 100 = m + (IF x >= 50 THEN 1 ELSE 0)
    BY <1>1
  <2> HIDE DEF k, m, x
  <2>3. Stored(b + d) - b - Stored(d) = 0
    BY <1>1, <1>4, <2>1, <2>2
  <2>4. Stored(b + d) % 100 = 0
    BY <1>1, <1>4
  <2> QED
    BY <2>3, <2>4 DEF Abs
<1>6. CASE d < 0
  <2>1. Stored(d) = -(((-d + 50) \div 100) * 100)
    BY <1>6 DEF Stored, Abs, Cent
  <2>2. (-d + 50) \div 100 = -m - (IF x > 50 THEN 1 ELSE 0)
    BY <1>1
  <2> HIDE DEF k, m
  <2>3. Stored(b + d) - b - Stored(d) = IF x = 50 THEN 100 ELSE 0
    BY <1>1, <1>4, <2>1, <2>2
  <2>4. Stored(b + d) % 100 = 0
    BY <1>1, <1>4
  <2> QED
    BY <2>3, <2>4 DEF Abs
<1> QED
  BY <1>5, <1>6

\* Steps that commit no adjustment.
LEMMA SumKept == ASSUME SumInv, UNCHANGED <<budget, audits>> PROVE SumInv'
<1>1. \A c \in Campaigns : Uneven(c)' = Uneven(c)
  BY DEF Uneven, AuditsIn
<1>2. \A f : \A c : IsTotal(f, c)' <=> IsTotal(f, c)
  BY DEF IsTotal, Contribution
<1> QED
  BY <1>1, <1>2 DEF SumInv, Explained

\* One more row, of campaign c.
LEMMA RowAdded ==
  ASSUME LedgerInv, SumInv, NEW entry, audits' = Append(audits, entry), NEW d \in Campaigns,
         IF entry.campaign = d
         THEN /\ entry.delta \in Int /\ budget'[d] \in Int
              /\ Abs(budget'[d] - budget[d] - entry.delta)
                    <= (IF entry.exact % 100 = 0 THEN 0 ELSE 100)
         ELSE budget'[d] = budget[d]
  PROVE  IsFiniteSet(Uneven(d))' /\ (\E f : IsTotal(f, d)') /\ Explained(d)'
<1>n. PICK n : n = Len(audits)
  OBVIOUS
<1>g. PICK gain : gain = IF entry.campaign = d THEN entry.delta ELSE 0
  OBVIOUS
<1> DEFINE odd == entry.campaign = d /\ entry.exact % Cent # 0
<1>1. /\ audits \in Seq(Audit) /\ n \in Nat /\ budget[d] \in Int /\ Opening \in Int
      /\ DOMAIN audits = 1..n
  BY <1>n, Constants DEF LedgerInv, TxInv, TypeInv, TypeOK
<1>2. /\ Len(audits') = n + 1 /\ DOMAIN audits' = 1..(n + 1) /\ audits'[n + 1] = entry
      /\ \A i \in 1..n : audits'[i] = audits[i]
  BY <1>n, <1>1
<1>3. gain \in Int
  BY <1>g
<1>4. /\ IsFiniteSet(Uneven(d)')
      /\ Cardinality(Uneven(d)') = Cardinality(Uneven(d)) + (IF odd THEN 1 ELSE 0)
      /\ Cardinality(Uneven(d)) \in Nat
  <2>1. IsFiniteSet(Uneven(d)) /\ n + 1 \notin Uneven(d)
    <3>1. \A i : i \in DOMAIN audits <=> i \in 1..n
      BY <1>1
    <3>2. n + 1 \notin DOMAIN audits
      BY <1>1, <3>1
    <3> QED
      BY <3>2 DEF SumInv, Uneven, AuditsIn
  <2>2. Uneven(d)' = IF odd THEN Uneven(d) \cup {n + 1} ELSE Uneven(d)
    <3>1. \A i : i \in DOMAIN audits' <=> i \in DOMAIN audits \/ i = n + 1
      BY <1>1, <1>2
    <3>2. \A i \in DOMAIN audits : audits'[i] = audits[i] /\ i # n + 1
      BY <1>1, <1>2
    <3>3. \A i : i \in Uneven(d)' <=> i \in Uneven(d) \/ (i = n + 1 /\ odd)
      BY <1>2, <3>1, <3>2 DEF Uneven, AuditsIn
    <3> QED
      BY <3>3
  <2> QED
    BY <2>1, <2>2, FS_AddElement, FS_CardinalityType
<1>5. \A i \in 1..n : Contribution(d, i)' = Contribution(d, i)
  BY <1>2 DEF Contribution
<1>6. Contribution(d, n + 1)' = gain
  BY <1>2, <1>g DEF Contribution
<1>7. \E f : IsTotal(f, d)'
  <2>1. PICK f : IsTotal(f, d)
    BY DEF SumInv
  <2> DEFINE h == [i \in 0..(n + 1) |-> IF i <= n THEN f[i] ELSE f[n] + gain]
  <2>2. \A i \in 0..n : f[i] = IF i = 0 THEN 0 ELSE f[i - 1] + Contribution(d, i)
    BY <1>n, <2>1 DEF IsTotal
  <2>3. ASSUME NEW i \in 0..(n + 1)
        PROVE  h[i] = IF i = 0 THEN 0 ELSE h[i - 1] + Contribution(d, i)'
    <3>1. CASE i = 0
      BY <1>1, <2>2, <3>1
    <3>2. CASE i \in 1..n
      <4>1. i - 1 \in 0..(n + 1) /\ i - 1 <= n /\ i <= n /\ i # 0 /\ i \in 0..n
        BY <1>1, <3>2
      <4>2. h[i] = f[i] /\ h[i - 1] = f[i - 1]
        BY <4>1
      <4> QED
        BY <1>5, <2>2, <3>2, <4>1, <4>2
    <3>3. CASE i = n + 1
      <4>1. h[i] = f[n] + gain /\ i # 0 /\ h[i - 1] = f[n]
        BY <1>1, <3>3
      <4> QED
        BY <1>6, <3>3, <4>1
    <3> QED
      BY <1>1, <3>1, <3>2, <3>3
  <2>4. h = [i \in 0..(n + 1) |-> h[i]]
    OBVIOUS
  <2> HIDE DEF h
  <2>5. h = [i \in 0..(n + 1) |-> IF i = 0 THEN 0 ELSE h[i - 1] + Contribution(d, i)']
    BY <2>3, <2>4
  <2>6. IsTotal(h, d)'
    BY <1>2, <2>5 DEF IsTotal
  <2> QED
    BY <2>6
<1>8. Explained(d)'
  <2> SUFFICES ASSUME NEW f, IsTotal(f, d)'
               PROVE  /\ f[n + 1] \in Int
                      /\ Abs(budget'[d] - Opening - f[n + 1]) <= Cent * Cardinality(Uneven(d)')
    BY <1>2 DEF Explained
  <2> DEFINE h == [i \in 0..n |-> f[i]]
  <2>1. f = [i \in 0..(n + 1) |-> IF i = 0 THEN 0 ELSE f[i - 1] + Contribution(d, i)']
    BY <1>2 DEF IsTotal
  <2>2. \A i \in 0..(n + 1) : f[i] = IF i = 0 THEN 0 ELSE f[i - 1] + Contribution(d, i)'
    BY <2>1
  <2>3. ASSUME NEW i \in 0..n PROVE h[i] = IF i = 0 THEN 0 ELSE h[i - 1] + Contribution(d, i)
    <3>1. h[i] = f[i] /\ i \in 0..(n + 1)
      BY <1>1
    <3>2. CASE i = 0
      BY <2>2, <3>1, <3>2
    <3>3. CASE i # 0
      <4>1. i \in 1..n /\ i - 1 \in 0..n
        BY <1>1, <3>3
      <4>2. h[i - 1] = f[i - 1]
        BY <4>1
      <4> QED
        BY <1>5, <2>2, <3>1, <3>3, <4>1, <4>2
    <3> QED
      BY <3>2, <3>3
  <2>4. h = [i \in 0..n |-> h[i]] /\ h[n] = f[n]
    BY <1>1
  <2> HIDE DEF h
  <2>5. IsTotal(h, d)
    BY <1>n, <2>3, <2>4 DEF IsTotal
  <2>6. f[n] \in Int /\ Abs(budget[d] - Opening - f[n]) <= Cent * Cardinality(Uneven(d))
    BY <1>n, <2>4, <2>5 DEF SumInv, Explained
  <2>7. f[n + 1] = f[n] + gain
    <3>1. n + 1 \in 0..(n + 1) /\ n + 1 # 0 /\ (n + 1) - 1 = n
      BY <1>1
    <3> QED
      BY <1>6, <2>2, <3>1
  <2>8. /\ budget'[d] \in Int
        /\ Abs(budget'[d] - budget[d] - gain) <= (IF odd THEN 100 ELSE 0)
    BY <1>1, <1>g DEF Cent, Abs
  <2> HIDE DEF odd
  <2>9. f[n + 1] \in Int
    BY <1>3, <2>6, <2>7
  <2> DEFINE old == budget[d] - Opening - f[n]
             new == budget'[d] - Opening - f[n + 1]
             step == budget'[d] - budget[d] - gain
  <2>10. old \in Int /\ step \in Int /\ new = old + step
    <3>1. /\ budget[d] \in Int /\ budget'[d] \in Int /\ Opening \in Int
          /\ f[n] \in Int /\ gain \in Int
      BY <1>1, <1>3, <2>6, <2>8
    <3>2. old \in Int /\ step \in Int
      BY <3>1
    <3>3. budget'[d] - Opening - (f[n] + gain)
              = (budget[d] - Opening - f[n]) + (budget'[d] - budget[d] - gain)
      BY <3>1
    <3> QED
      BY <2>7, <3>2, <3>3
  <2>11. /\ Abs(old) <= Cent * Cardinality(Uneven(d))
         /\ Abs(step) <= IF odd THEN 100 ELSE 0
    BY <2>6, <2>8
  <2> HIDE DEF old, new, step
  <2>12. /\ Abs(new) <= Abs(old) + Abs(step)
         /\ Abs(old) \in Int /\ Abs(step) \in Int /\ Abs(new) \in Int
    BY <2>10 DEF Abs
  <2>13. Abs(new) <= Cent * Cardinality(Uneven(d)')
    BY <1>4, <2>11, <2>12 DEF Cent
  <2> QED
    BY <2>9, <2>13 DEF new
<1> QED
  BY <1>4, <1>7, <1>8

LEMMA SumStep == ASSUME LedgerInv, SumInv, [Next]_vars PROVE SumInv'
<1>1. CASE UNCHANGED <<budget, audits>>
  BY <1>1, SumKept
<1>2. ASSUME NEW r \in Runs, NEW g \in Generations, CommitCall(r, g),
             agent[r][g].call.tool = "adjust_budget"
      PROVE  SumInv'
  <2> DEFINE me == agent[r][g]
  <2>c. PICK c, delta : c = me.call.args.campaign /\ delta = me.call.args.delta
    OBVIOUS
  <2>e. PICK entry : entry = [run |-> r, step |-> me.step, call |-> me.call, campaign |-> c,
                              delta |-> Stored(delta), exact |-> delta, before |-> budget[c]]
    OBVIOUS
  <2>1. /\ c \in Campaigns /\ delta \in Int /\ me.seen = budget[c]
        /\ Abs(delta) * 5 <= Abs(budget[c])
    BY <1>2, <2>c, CommitFacts
  <2>2. audits' = Append(audits, entry) /\ budget' = [budget EXCEPT ![c] = Stored(budget[c] + delta)]
    BY <1>2, <2>c, <2>e, <2>1 DEF CommitCall, NewAudit
  <2>3. /\ budget \in [Campaigns -> Int] /\ budget[c] >= 100
    BY <2>1 DEF LedgerInv, Ledger, TxInv, TypeInv, TypeOK
  <2>4. entry.campaign = c /\ entry.delta = Stored(delta) /\ entry.exact = delta
    BY <2>e
  <2>5. budget[c] % 100 = 0 /\ budget[c] + delta >= 0 /\ budget[c] \in Int
    BY <2>1, <2>3 DEF SumInv, Cent, Abs
  <2>6. /\ Stored(budget[c] + delta) % 100 = 0
        /\ Abs(Stored(budget[c] + delta) - budget[c] - Stored(delta))
              <= (IF delta % 100 = 0 THEN 0 ELSE 100)
    BY <2>1, <2>5, Rounding
  <2>7. Stored(budget[c] + delta) \in Int /\ Stored(delta) \in Int
    BY <2>1, <2>5, StoredFacts
  <2>8. /\ budget'[c] = Stored(budget[c] + delta)
        /\ \A d \in Campaigns : d # c => budget'[d] = budget[d]
    BY <2>1, <2>2, <2>3
  <2>9. ASSUME NEW d \in Campaigns
        PROVE  /\ budget'[d] % Cent = 0 /\ IsFiniteSet(Uneven(d))'
               /\ (\E f : IsTotal(f, d)') /\ Explained(d)'
    <3>1. budget'[d] % Cent = 0
      BY <2>6, <2>8 DEF SumInv, Cent
    <3>2. IF entry.campaign = d
          THEN /\ entry.delta \in Int /\ budget'[d] \in Int
               /\ Abs(budget'[d] - budget[d] - entry.delta)
                     <= (IF entry.exact % 100 = 0 THEN 0 ELSE 100)
          ELSE budget'[d] = budget[d]
      BY <2>4, <2>6, <2>7, <2>8
    <3> QED
      BY <2>2, <3>1, <3>2, RowAdded
  <2> QED
    BY <2>9 DEF SumInv
<1>3. ASSUME NEW r \in Runs, NEW g \in Generations, RunAgent(r, g),
             ~(CommitCall(r, g) /\ agent[r][g].call.tool = "adjust_budget")
      PROVE  UNCHANGED <<budget, audits>>
  BY <1>3 DEF RunAgent, ToolCall, BeginCall, ReplayCall, DecideCall, RejectCall, CommitCall,
     NextRound, ModelFails, Finish, Refused, Crash
<1>4. ASSUME NEW r \in Runs, Claim(r) \/ Bury(r) PROVE UNCHANGED <<budget, audits>>
  BY <1>4 DEF Claim, Bury
<1>5. CASE UNCHANGED vars
  BY <1>5, SumKept DEF vars
<1> QED
  BY <1>1, <1>2, <1>3, <1>4, <1>5 DEF Next, Settled

LEMMA SumInit == Init => SumInv
<1> SUFFICES ASSUME Init, NEW c \in Campaigns
             PROVE  /\ budget[c] % Cent = 0 /\ IsFiniteSet(Uneven(c))
                    /\ (\E f : IsTotal(f, c)) /\ Explained(c)
  BY DEF SumInv
<1>1. budget[c] = Opening /\ audits = <<>>
  BY DEF Init
<1>o. Opening \in Int
  BY MoneyAssumption
<1>2. Len(audits) = 0 /\ DOMAIN audits = {}
  <2>1. Len(<<>>) = 0 /\ DOMAIN <<>> = {}
    OBVIOUS
  <2> QED
    BY <1>1, <2>1
<1>3. Uneven(c) = {}
  BY <1>2 DEF Uneven, AuditsIn
<1>4. IsTotal([n \in 0..0 |-> 0], c)
  BY <1>2 DEF IsTotal
<1>5. ASSUME NEW f, IsTotal(f, c) PROVE f[0] = 0
  <2>1. f = [n \in 0..0 |-> IF n = 0 THEN 0 ELSE f[n - 1] + Contribution(c, n)]
    BY <1>2, <1>5 DEF IsTotal
  <2> QED
    BY <2>1
<1>6. Explained(c)
  BY <1>1, <1>o, <1>2, <1>3, <1>5, FS_EmptySet DEF Explained, Abs, Cent
<1> QED
  BY <1>1, <1>3, <1>4, <1>6, Constants, FS_EmptySet DEF Cent

\* No update is lost, for any number of runs, rows and rounds: a budget is its opening and
\* what the audit says was moved, up to a cent for each delta that was not a whole number of
\* cents.
THEOREM TheAuditExplainsTheBudget == Spec => []LedgerExplainsBudget
<1> DEFINE I == LedgerInv /\ SumInv
<1>1. Init => I
  BY LedgerInit, SumInit
<1>2. I /\ [Next]_vars => I'
  BY LedgerStep, SumStep
<1>3. I => LedgerExplainsBudget
  <2> SUFFICES ASSUME SumInv, NEW c \in Campaigns
               PROVE  Abs(budget[c] - Opening - Audited(c)) <= Cent * Cardinality(Uneven(c))
    BY DEF LedgerExplainsBudget, Uneven
  <2>1. IsTotal(RunningTotal(c), c)
    BY TotalIsTotal DEF SumInv
  <2> QED
    BY <2>1 DEF SumInv, Explained, Audited
<1> QED
  BY <1>1, <1>2, <1>3, PTL DEF Spec
=============================================================================
