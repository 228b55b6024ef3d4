----------------------------- MODULE BudgetTools -----------------------------
(***************************************************************************)
(* The tools an agent may call, and the one that writes: adjust_budget.    *)
(* Each tool call is one PostgreSQL transaction that locks the run behind  *)
(* the fence, looks the call up by its idempotency key, locks the campaign,*)
(* checks the authorisation the prompt carried, and writes the budget, the *)
(* audit row and the tool call together.  What the model asks for is       *)
(* arbitrary.  A worker may die at any point and the run is then executed  *)
(* again from its first step, while the old worker may still be running.   *)
(*                                                                         *)
(* A transaction is three steps: what it reads under the run lock, what it *)
(* decides under the campaign lock, and its commit.  Uncommitted rows are  *)
(* in the record of the agent that holds the transaction.                  *)
(*                                                                         *)
(* Money is an integer, in hundredths of a cent; the columns are           *)
(* NUMERIC(12,2) and keep whole cents.                                     *)
(***************************************************************************)
EXTENDS Integers, Sequences, FiniteSets

CONSTANTS
    Runs,         \* run identifiers
    Campaigns,    \* the rows of campaigns
    Nowhere,      \* a campaign identifier that names no row
    NoIntent,     \* ToolPolicy(budget_adjustment=None)
    Intents,      \* the authorisations that prompts may carry
    Missing,      \* no delta in the arguments
    Malformed,    \* a delta that Decimal() cannot read
    Prompts,      \* bound: the authorisations that the runs' prompts carry together
    Dialogues,    \* bound: what a model may ask for: <<authorisation, round, tool call>>
    Opening,      \* the budget every campaign starts with
    Attempts,     \* settings.max_attempts
    MaxRounds     \* max_rounds of run_agent

Cent == 100

Intent == [campaign: Campaigns, operation: {"delta", "percent", "zero", "double"}, value: Int]
\* The same number may be written in several forms, 50 and 50.0.
Arguments == [campaign: Campaigns \cup {Nowhere}, abbreviated: BOOLEAN,
              delta: Int \cup {Missing, Malformed}, form: {"integer", "decimal"}]
Call == [tool: {"read", "adjust_budget", "other"}, args: Arguments]

Requests == {asked[3] : asked \in Dialogues}

ASSUME MoneyAssumption == Opening \in Nat \ {0} /\ Opening % Cent = 0
ASSUME NamesAssumption ==
    /\ Nowhere \notin Campaigns
    /\ Missing \notin Int /\ Malformed \notin Int /\ Missing # Malformed
    /\ Intents \subseteq Intent \cup {NoIntent} /\ NoIntent \notin Intent
    /\ Prompts \subseteq [Runs -> Intents]
    /\ Dialogues \subseteq Intents \X (1..MaxRounds) \X Call
ASSUME LimitsAssumption == Attempts \in Nat \ {0} /\ MaxRounds \in Nat \ {0}

VARIABLES
    status,       \* agent_runs.status
    error,        \* agent_runs.error_code
    gen,          \* agent_runs.attempt: the generation that passes the fence
    intent,       \* build_tool_policy(prompt)
    runLock,      \* the generation whose transaction holds the run row, or 0
    campaignLock, \* the <<run, generation>> that holds the campaign row, or <<>>
    budget,       \* campaigns.budget
    calls,        \* committed rows of tool_calls
    audits,       \* committed rows of budget_audit
    agent         \* agent[r][g]: run_agent of generation g of run r

vars == <<status, error, gen, intent, runLock, campaignLock, budget, calls, audits, agent>>

Generations == 1..Attempts

\* canonical_tool_key: run, step, tool and a digest of the arguments.
Row == [run: Runs, step: 1..MaxRounds, call: Call, status: {"executing", "succeeded"}]
\* before is history: the budget in the table when the row was committed, and
\* exact the delta before the column rounded it.
Audit == [run: Runs, step: 1..MaxRounds, call: Call, campaign: Campaigns,
          delta: Int, exact: Int, before: Int]

Codes == {"", "TOOL_ERROR", "TOOL_UNKNOWN", "BAD_OUTPUT", "MODEL_5XX", "INTERNAL_ERROR", "MAX_RETRY"}
NoCall == [tool |-> "none"]
Agent == [pc: {"off", "ready", "begun", "decided", "failing", "over"}, step: 1..MaxRounds,
          call: Call \cup {NoCall}, seen: Int, told: Call \cup {NoCall}, code: Codes]

OffAgent == [pc |-> "off", step |-> 1, call |-> NoCall, seen |-> 0, told |-> NoCall, code |-> ""]

TypeOK ==
    /\ status \in [Runs -> {"queued", "running", "completed", "failed"}]
    /\ error \in [Runs -> Codes]
    /\ gen \in [Runs -> 0..Attempts]
    /\ intent \in [Runs -> Intents]
    /\ runLock \in [Runs -> 0..Attempts]
    /\ campaignLock \in [Campaigns -> (Runs \X Generations) \cup {<<>>}]
    /\ budget \in [Campaigns -> Int]
    /\ calls \subseteq Row
    /\ audits \in Seq(Audit)
    /\ agent \in [Runs -> [Generations -> Agent]]

-----------------------------------------------------------------------------
(* Arithmetic *)

Abs(x) == IF x < 0 THEN -x ELSE x

\* What a NUMERIC(12,2) column keeps: the nearest cent, ties away from zero.
Stored(x) ==
    LET cents == (Abs(x) + Cent \div 2) \div Cent IN
    IF x < 0 THEN -(cents * Cent) ELSE cents * Cent

\* BudgetAdjustmentIntent.resolve against the current budget.
Resolve(i, b) ==
    CASE i.operation = "delta"   -> i.value
      [] i.operation = "percent" -> (b * i.value) \div 100
      [] i.operation = "zero"    -> -b
      [] i.operation = "double"  -> b

\* abs(delta) > abs(budget) * 0.20
OverLimit(delta, b) == Abs(delta) * 5 > Abs(b)

-----------------------------------------------------------------------------
(* Rows, keys and policy *)

\* Only the campaign id of the authorised adjustment gets its prefix back; any
\* other abbreviated id names no campaign.
Normalized(r, call) ==
    IF ~call.args.abbreviated THEN call
    ELSE IF /\ call.tool = "adjust_budget" /\ intent[r] # NoIntent
            /\ call.args.campaign = intent[r].campaign
         THEN [call EXCEPT !.args.abbreviated = FALSE]
    ELSE [call EXCEPT !.args.campaign = Nowhere]

RowsWithKey_AnyRun(r, step, call) == {row \in calls : row.step = step /\ row.call = call}
RowsWithKey(r, step, call) ==
    {row \in calls : row.run = r /\ row.step = step /\ row.call = call}

Written(r) ==
    {row \in calls : row.run = r /\ row.call.tool = "adjust_budget" /\ row.status = "succeeded"}

\* The outcome of a call against the budget b that it has read and locked.
SingleUse_PerCall(r) == TRUE
SingleUse(r) == Written(r) = {}
Authorized(r, call, b) ==
    /\ intent[r] # NoIntent
    /\ intent[r].campaign = call.args.campaign
    /\ call.args.delta = Resolve(intent[r], b)
    /\ SingleUse(r)
Verdict(r, call, b) ==
    CASE call.tool = "read" -> ""
      [] call.tool = "other" -> "TOOL_ERROR"
      [] call.tool = "adjust_budget" ->
           CASE call.args.delta = Malformed -> "INTERNAL_ERROR"
             [] call.args.delta = Missing -> "TOOL_ERROR"
             [] OTHER -> IF Authorized(r, call, b) /\ ~OverLimit(call.args.delta, b)
                         THEN "" ELSE "TOOL_ERROR"

-----------------------------------------------------------------------------
(* The fence: the run row, locked *)

RunFree_Unlocked(r) == TRUE
RunFree(r) == runLock[r] = 0
Fenced(r, g) == status[r] = "running" /\ gen[r] = g

\* A generation is claimed, at first or after the lease of the one before ran out.
Claim(r) ==
    /\ status[r] \in {"queued", "running"} /\ gen[r] < Attempts /\ RunFree(r)
    /\ status' = [status EXCEPT ![r] = "running"]
    /\ gen' = [gen EXCEPT ![r] = gen[r] + 1]
    /\ agent' = [agent EXCEPT ![r][gen[r] + 1] = [OffAgent EXCEPT !.pc = "ready"]]
    /\ UNCHANGED <<error, intent, runLock, campaignLock, budget, calls, audits>>

\* The sweeper buries a run whose attempts are spent.
Bury(r) ==
    /\ status[r] = "running" /\ gen[r] = Attempts /\ RunFree(r)
    /\ status' = [status EXCEPT ![r] = "failed"]
    /\ error' = [error EXCEPT ![r] = "MAX_RETRY"]
    /\ UNCHANGED <<gen, intent, runLock, campaignLock, budget, calls, audits, agent>>

-----------------------------------------------------------------------------
(* One tool call of generation g of run r *)

\* The transaction of <<r, g>> is gone: its locks are free.
Released(r, g) ==
    /\ runLock' = [runLock EXCEPT ![r] = IF runLock[r] = g THEN 0 ELSE runLock[r]]
    /\ campaignLock' = [c \in Campaigns |-> IF campaignLock[c] = <<r, g>> THEN <<>> ELSE campaignLock[c]]

Becomes(r, g, a) == agent' = [agent EXCEPT ![r][g] = a]

\* The key is new: the transaction goes on, holding the run.  The row it inserts
\* as "executing" is set to "succeeded" before it commits (see CommitCall): nobody
\* else reads it in between, so it is not in calls yet.
BeginCall(r, g, asked) ==
    LET me == agent[r][g]
        call == Normalized(r, asked)
    IN
    /\ me.pc = "ready" /\ RunFree(r) /\ Fenced(r, g)
    /\ RowsWithKey(r, me.step, call) = {}
    /\ Becomes(r, g, [me EXCEPT !.pc = "begun", !.call = call])
    /\ runLock' = [runLock EXCEPT ![r] = g]
    /\ UNCHANGED <<status, error, gen, intent, campaignLock, budget, calls, audits>>

\* The key is known and succeeded: the recorded result is returned again.
ReplayCall(r, g, asked) ==
    LET me == agent[r][g]
        call == Normalized(r, asked)
    IN
    /\ me.pc = "ready" /\ RunFree(r) /\ Fenced(r, g)
    /\ \E row \in RowsWithKey(r, me.step, call) :
         IF row.status = "succeeded"
         THEN Becomes(r, g, [me EXCEPT !.told = call])
         ELSE Becomes(r, g, [me EXCEPT !.pc = "failing", !.code = "TOOL_UNKNOWN"])
    /\ UNCHANGED <<status, error, gen, intent, runLock, campaignLock, budget, calls, audits>>

\* The campaign row is locked and read, the policy checked.
CampaignFree_Unlocked(c) == TRUE
CampaignFree(c) == campaignLock[c] = <<>>

DecideCall(r, g) ==
    LET me == agent[r][g]
        c  == me.call.args.campaign
    IN
    /\ me.pc = "begun" /\ c \in Campaigns /\ CampaignFree(c)
    /\ Verdict(r, me.call, budget[c]) = ""
    /\ Becomes(r, g, [me EXCEPT !.pc = "decided", !.seen = budget[c]])
    /\ campaignLock' = [campaignLock EXCEPT ![c] = <<r, g>>]
    /\ UNCHANGED <<status, error, gen, intent, runLock, budget, calls, audits>>

\* Any exception rolls the transaction back and ends run_agent.
RejectCall(r, g) ==
    LET me == agent[r][g]
        c  == me.call.args.campaign
    IN
    /\ me.pc = "begun"
    /\ \E code \in Codes \ {""} :
         /\ \/ c = Nowhere /\ code = "TOOL_ERROR"
            \/ c # Nowhere /\ CampaignFree(c) /\ code = Verdict(r, me.call, budget[c])
         /\ Becomes(r, g, [me EXCEPT !.pc = "failing", !.code = code, !.call = NoCall])
    /\ Released(r, g)
    /\ UNCHANGED <<status, error, gen, intent, budget, calls, audits>>

\* The commit: tool call, budget and audit together.
NewAudit_None(r, g) == audits
NewAudit(r, g) ==
    LET me == agent[r][g] IN
    Append(audits, [run |-> r, step |-> me.step, call |-> me.call,
                    campaign |-> me.call.args.campaign,
                    delta |-> Stored(me.call.args.delta), exact |-> me.call.args.delta,
                    before |-> budget[me.call.args.campaign]])

CommitCall(r, g) ==
    LET me == agent[r][g]
        c  == me.call.args.campaign
    IN
    /\ me.pc = "decided"
    /\ calls' = calls \cup {[run |-> r, step |-> me.step, call |-> me.call, status |-> "succeeded"]}
    /\ IF me.call.tool = "adjust_budget"
       THEN /\ budget' = [budget EXCEPT ![c] = Stored(me.seen + me.call.args.delta)]
            /\ audits' = NewAudit(r, g)
       ELSE UNCHANGED <<budget, audits>>
    /\ Becomes(r, g, [me EXCEPT !.pc = "ready", !.call = NoCall, !.seen = 0, !.told = me.call])
    /\ Released(r, g)
    /\ UNCHANGED <<status, error, gen, intent>>

-----------------------------------------------------------------------------
(* The rest of run_agent and of _execute_run_body *)

\* A new model call; after max_rounds of them the output is bad.
RoundsLeft_OneMore(step) == step <= MaxRounds
RoundsLeft(step) == step < MaxRounds

NextRound(r, g) ==
    LET me == agent[r][g] IN
    /\ me.pc = "ready"
    /\ IF RoundsLeft(me.step)
       THEN Becomes(r, g, [me EXCEPT !.step = me.step + 1])
       ELSE Becomes(r, g, [me EXCEPT !.pc = "failing", !.code = "BAD_OUTPUT"])
    /\ UNCHANGED <<status, error, gen, intent, runLock, campaignLock, budget, calls, audits>>

\* The model is down, or answers what is neither a tool call nor text.
ModelFails(r, g) ==
    /\ agent[r][g].pc = "ready"
    /\ \E code \in {"MODEL_5XX", "BAD_OUTPUT"} :
         Becomes(r, g, [agent[r][g] EXCEPT !.pc = "failing", !.code = code])
    /\ UNCHANGED <<status, error, gen, intent, runLock, campaignLock, budget, calls, audits>>

\* finish_run, with the answer or with the classified error.
Finish(r, g) ==
    LET me == agent[r][g] IN
    /\ me.pc \in {"ready", "failing"} /\ RunFree(r) /\ Fenced(r, g)
    /\ status' = [status EXCEPT ![r] = IF me.pc = "ready" THEN "completed" ELSE "failed"]
    /\ error' = [error EXCEPT ![r] = me.code]
    /\ Becomes(r, g, [OffAgent EXCEPT !.pc = "over"])
    /\ UNCHANGED <<gen, intent, runLock, campaignLock, budget, calls, audits>>

\* A stale generation: every write of it is refused, and so is finish_run.
Refused(r, g) ==
    /\ agent[r][g].pc \in {"ready", "failing"} /\ RunFree(r) /\ ~Fenced(r, g)
    /\ Becomes(r, g, [OffAgent EXCEPT !.pc = "over"])
    /\ UNCHANGED <<status, error, gen, intent, runLock, campaignLock, budget, calls, audits>>

\* The worker dies: what was not committed never happened.
Crash(r, g) ==
    /\ agent[r][g].pc \notin {"off", "over"}
    /\ Becomes(r, g, [OffAgent EXCEPT !.pc = "over"])
    /\ Released(r, g)
    /\ UNCHANGED <<status, error, gen, intent, budget, calls, audits>>

Init ==
    /\ status = [r \in Runs |-> "queued"]
    /\ error = [r \in Runs |-> ""]
    /\ gen = [r \in Runs |-> 0]
    /\ intent \in Prompts
    /\ runLock = [r \in Runs |-> 0]
    /\ campaignLock = [c \in Campaigns |-> <<>>]
    /\ budget = [c \in Campaigns |-> Opening]
    /\ calls = {}
    /\ audits = <<>>
    /\ agent = [r \in Runs |-> [g \in Generations |-> OffAgent]]

MayAsk(r, g, call) == <<intent[r], agent[r][g].step, call>> \in Dialogues
ToolCall(r, g) ==
    \/ \E call \in Requests :
         MayAsk(r, g, call) /\ (BeginCall(r, g, call) \/ ReplayCall(r, g, call))
    \/ DecideCall(r, g) \/ RejectCall(r, g) \/ CommitCall(r, g)

RunAgent(r, g) ==
    \/ ToolCall(r, g)
    \/ NextRound(r, g) \/ ModelFails(r, g)
    \/ Finish(r, g) \/ Refused(r, g) \/ Crash(r, g)

\* Every run is over and every worker has gone home.
Settled ==
    /\ \A r \in Runs : /\ status[r] \in {"completed", "failed"}
                       /\ \A g \in Generations : agent[r][g].pc \in {"off", "over"}
    /\ UNCHANGED vars

Next ==
    \/ \E r \in Runs : Claim(r) \/ Bury(r) \/ \E g \in Generations : RunAgent(r, g)
    \/ Settled

Spec == Init /\ [][Next]_vars

-----------------------------------------------------------------------------
(* Properties *)

AuditsOf(r) == {i \in DOMAIN audits : audits[i].run = r}

\* A run changes a budget at most once, however often its worker dies, whatever
\* the model repeats or rewords, and with both generations running.
OneWritePerRun == \A r \in Runs : Cardinality(AuditsOf(r)) <= 1

\* Every write is the whole adjustment the prompt authorised, resolved against
\* the budget that was in the table when it was committed, and at most 20% of it.
WritesAuthorized ==
    \A i \in DOMAIN audits :
        LET a == audits[i]
            right == intent[a.run]
        IN
        /\ right # NoIntent /\ right.campaign = a.campaign
        /\ a.exact = Resolve(right, a.before)
        /\ Abs(a.exact) * 5 <= Abs(a.before)

AuditsIn(c) == {i \in DOMAIN audits : audits[i].campaign = c}
\* What the first n audit rows moved in campaign c.
RunningTotal(c) ==
    LET total[n \in 0..Len(audits)] ==
          IF n = 0 THEN 0
          ELSE total[n - 1] + (IF audits[n].campaign = c THEN audits[n].delta ELSE 0)
    IN  total
Audited(c) == RunningTotal(c)[Len(audits)]

\* The audit explains the budget: no update is lost.  The column rounds the new
\* budget and the audited delta each for itself, so a delta with a fraction of a
\* cent may put them one cent apart.
LedgerExplainsBudget ==
    \A c \in Campaigns :
        Abs(budget[c] - Opening - Audited(c))
            <= Cent * Cardinality({i \in AuditsIn(c) : audits[i].exact % Cent # 0})

\* A budget adjustment is all or nothing: a succeeded call and an audit row under
\* the same key always come together.
AllOrNothing ==
    /\ \A i \in DOMAIN audits : \E row \in Written(audits[i].run) :
          row.step = audits[i].step /\ row.call = audits[i].call
    /\ \A r \in Runs : \A row \in Written(r) : \E i \in AuditsOf(r) :
          row.step = audits[i].step /\ row.call = audits[i].call

\* What an agent is told about its own write is true, also when it is told by a
\* replay: the run has the audit row for the adjustment the agent relies on.
ToldIsWritten ==
    \A r \in Runs, g \in Generations :
        agent[r][g].told \in Call /\ agent[r][g].told.tool = "adjust_budget" =>
            \E i \in AuditsOf(r) : audits[i].call = agent[r][g].told

\* A call is never found half done, so no run ends as TOOL_UNKNOWN.
NeverUnknown == \A r \in Runs : error[r] # "TOOL_UNKNOWN"

\* No sequence of adjustments brings a budget to zero or below.
BudgetStaysPositive == \A c \in Campaigns : budget[c] > 0

\* The fence holds until the commit: a write is committed only while the run is
\* running and by the generation the row names, though both were checked earlier.
CommitsBehindFence ==
    [][\A r \in Runs, g \in Generations :
         agent[r][g].pc = "decided" /\ calls' # calls /\ agent'[r][g] # agent[r][g]
           => status[r] = "running" /\ gen[r] = g]_vars
=============================================================================
