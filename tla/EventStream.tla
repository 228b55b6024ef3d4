----------------------------- MODULE EventStream -----------------------------
(***************************************************************************)
(* GET /runs/{id}/events: the event log of one run, written by several     *)
(* processes and read over server-sent events by clients whose connections *)
(* break.  A writer locks the run row, numbers its event max(sequence)+1   *)
(* and commits later; what it has written is invisible until then.  The    *)
(* stream polls: one SELECT for the events behind its cursor, a second one *)
(* for the run's status, then it yields, and it returns once the status it *)
(* saw was terminal.  A client that lost its connection comes back with    *)
(* Last-Event-ID.                                                          *)
(***************************************************************************)
EXTENDS Integers, Sequences

CONSTANTS
    Browsers,   \* clients that reconnect until they have a terminal event
    Readers,    \* clients that take the end of the response for the end
    Writers,    \* the processes that append events to the run
    NoWriter,   \* nobody holds the run row
    Script,     \* Script[w]: the types of the events that w appends, in order
    MaxFaults   \* bound: lost connections and rolled-back transactions

Clients == Browsers \cup Readers

EventTypes == {"run.created", "run.enqueued", "run.started", "step.model_call",
               "run.requeued_by_sweeper", "run.completed", "run.failed"}
Statuses == {"queued", "running", "completed", "failed"}
TerminalStatuses == {"completed", "failed"}
TerminalEvents == {"run.completed", "run.failed"}

ASSUME ClientsAssumption == Browsers \cap Readers = {}
ASSUME ScriptAssumption ==
    /\ Script \in [Writers -> Seq(EventTypes)] /\ NoWriter \notin Writers
    /\ MaxFaults \in Nat

VARIABLES
    log,      \* committed run_events, in the order of their sequence
    status,   \* agent_runs.status
    lock,     \* the writer that holds the run row, or NoWriter
    draft,    \* draft[w]: the sequence of w's uncommitted event, or 0
    done,     \* done[w]: how much of its script w has committed
    clash,    \* history: a commit whose sequence was taken, or would have left a gap
    stream,   \* stream[c]: the generator that serves c
    wire,     \* wire[c]: sequences sent to c and not received
    got,      \* got[c]: sequences received by c
    faults

database == <<log, status, lock, draft, done, clash>>
vars == <<log, status, lock, draft, done, clash, stream, wire, got, faults>>

Stream == [pc: {"off", "select", "status", "send", "closing", "over"},
           cursor: Nat, batch: Seq(Nat), seen: Statuses]
Off(cursor) == [pc |-> "off", cursor |-> cursor, batch |-> <<>>, seen |-> "queued"]

TypeOK ==
    /\ log \in Seq(EventTypes) /\ status \in Statuses
    /\ lock \in Writers \cup {NoWriter} /\ draft \in [Writers -> Nat]
    /\ done \in [Writers -> Nat] /\ clash \in BOOLEAN
    /\ stream \in [Clients -> Stream]
    /\ wire \in [Clients -> Seq(Nat)] /\ got \in [Clients -> Seq(Nat)]
    /\ faults \in 0..MaxFaults

-----------------------------------------------------------------------------
(* Writers: append_event, alone or in the transaction of finish_run *)

\* claim_run sets "running" a transaction before run.started is appended; a
\* stream cannot tell the difference.
StatusAfter(type) ==
    CASE type = "run.completed" -> "completed"
      [] type = "run.failed" -> "failed"
      [] type = "run.started" -> "running"
      [] type = "run.requeued_by_sweeper" -> "queued"
      [] OTHER -> status

RowFree_Unlocked == TRUE
RowFree == lock = NoWriter

AppendEvent(w) ==
    /\ draft[w] = 0 /\ done[w] < Len(Script[w]) /\ RowFree
    /\ lock' = w
    /\ draft' = [draft EXCEPT ![w] = Len(log) + 1]
    /\ UNCHANGED <<log, status, done, clash, stream, wire, got, faults>>

CommitEvent(w) ==
    /\ draft[w] # 0
    /\ IF draft[w] = Len(log) + 1
       THEN /\ log' = Append(log, Script[w][done[w] + 1])
            /\ status' = StatusAfter(Script[w][done[w] + 1])
            /\ done' = [done EXCEPT ![w] = done[w] + 1]
            /\ UNCHANGED clash
       ELSE clash' = TRUE /\ UNCHANGED <<log, status, done>>
    /\ lock' = IF lock = w THEN NoWriter ELSE lock
    /\ draft' = [draft EXCEPT ![w] = 0]
    /\ UNCHANGED <<stream, wire, got, faults>>

\* The writer dies or its transaction fails; it will be tried again.
Rollback(w) ==
    /\ draft[w] # 0 /\ faults < MaxFaults
    /\ lock' = IF lock = w THEN NoWriter ELSE lock
    /\ draft' = [draft EXCEPT ![w] = 0]
    /\ faults' = faults + 1
    /\ UNCHANGED <<log, status, done, clash, stream, wire, got>>

-----------------------------------------------------------------------------
(* The stream of client c *)

LastEventId_OneBefore(c) == IF got[c] = <<>> THEN -1 ELSE got[c][Len(got[c])] - 1
LastEventId(c) == IF got[c] = <<>> THEN 0 ELSE got[c][Len(got[c])]

\* RunEvent.sequence > cursor, ordered by sequence
Behind_Inclusive(cursor) ==
    LET from == IF cursor = 0 THEN 1 ELSE cursor IN [i \in 1..(Len(log) - from + 1) |-> from + i - 1]
Behind(cursor) == [i \in 1..(Len(log) - cursor) |-> cursor + i]

Connect(c) ==
    /\ stream[c].pc = "off"
    /\ stream' = [stream EXCEPT ![c] = [Off(LastEventId(c)) EXCEPT !.pc = "select"]]
    /\ UNCHANGED <<database, wire, got, faults>>

SelectEvents(c) ==
    /\ stream[c].pc = "select"
    /\ stream' = [stream EXCEPT ![c].pc = "status", ![c].batch = Behind(stream[c].cursor)]
    /\ UNCHANGED <<database, wire, got, faults>>

SelectStatus_Once(c) ==
    /\ stream[c].pc = "status"
    /\ stream' = [stream EXCEPT ![c].pc = "send"]
    /\ UNCHANGED <<database, wire, got, faults>>
SelectStatus(c) ==
    /\ stream[c].pc = "status"
    /\ stream' = [stream EXCEPT ![c].pc = "send", ![c].seen = status]
    /\ UNCHANGED <<database, wire, got, faults>>

Yield(c) ==
    LET me == stream[c] IN
    /\ me.pc = "send" /\ me.batch # <<>>
    /\ wire' = [wire EXCEPT ![c] = Append(wire[c], Head(me.batch))]
    /\ stream' = [stream EXCEPT ![c].cursor = Head(me.batch), ![c].batch = Tail(me.batch)]
    /\ UNCHANGED <<database, got, faults>>

\* All of the batch was yielded: return, or sleep and poll again.
Sent_Anything(c) == TRUE
Sent(c) == stream[c].batch = <<>>
EndPoll(c) ==
    /\ stream[c].pc = "send"
    /\ \/ /\ Sent(c) /\ stream[c].seen \in TerminalStatuses
          /\ stream' = [stream EXCEPT ![c].pc = "closing"]
       \/ /\ stream[c].batch = <<>> /\ stream[c].seen \notin TerminalStatuses
          /\ stream' = [stream EXCEPT ![c].pc = "select"]
    /\ UNCHANGED <<database, wire, got, faults>>

-----------------------------------------------------------------------------
(* Clients *)

Over(c) == [stream EXCEPT ![c] = [Off(stream[c].cursor) EXCEPT !.pc = "over"]]

\* The page closes its EventSource when it is told how the run ended.
Receive(c) ==
    LET id == Head(wire[c]) IN
    /\ wire[c] # <<>>
    /\ got' = [got EXCEPT ![c] = Append(got[c], id)]
    /\ IF c \in Browsers /\ id \in DOMAIN log /\ log[id] \in TerminalEvents
       THEN /\ wire' = [wire EXCEPT ![c] = <<>>]
            /\ stream' = Over(c)
       ELSE /\ wire' = [wire EXCEPT ![c] = Tail(wire[c])]
            /\ UNCHANGED stream
    /\ UNCHANGED <<database, faults>>

\* The response ends.  An EventSource takes any end for a lost connection.
EndOfResponse(c) ==
    /\ stream[c].pc = "closing" /\ wire[c] = <<>>
    /\ stream' = IF c \in Browsers THEN [stream EXCEPT ![c] = Off(stream[c].cursor)] ELSE Over(c)
    /\ UNCHANGED <<database, wire, got, faults>>

\* The connection breaks, or the API process dies: what was on its way is lost.
LoseConnection(c) ==
    /\ stream[c].pc \notin {"off", "over"} /\ faults < MaxFaults
    /\ stream' = [stream EXCEPT ![c] = Off(stream[c].cursor)]
    /\ wire' = [wire EXCEPT ![c] = <<>>]
    /\ faults' = faults + 1
    /\ UNCHANGED <<database, got>>

-----------------------------------------------------------------------------

\* create_run commits the run with its first event.
Init ==
    /\ log = <<"run.created">> /\ status = "queued"
    /\ lock = NoWriter /\ draft = [w \in Writers |-> 0] /\ done = [w \in Writers |-> 0]
    /\ clash = FALSE
    /\ stream = [c \in Clients |-> Off(0)]
    /\ wire = [c \in Clients |-> <<>>] /\ got = [c \in Clients |-> <<>>]
    /\ faults = 0

Serve(c) == Connect(c) \/ SelectEvents(c) \/ SelectStatus(c) \/ Yield(c) \/ EndPoll(c)
Listen(c) == Receive(c) \/ EndOfResponse(c)

Next ==
    \/ \E w \in Writers : AppendEvent(w) \/ CommitEvent(w) \/ Rollback(w)
    \/ \E c \in Clients : Serve(c) \/ Listen(c) \/ LoseConnection(c)

\* Faults are bounded; whoever is not interrupted goes on.
Fairness ==
    /\ \A w \in Writers : SF_vars(AppendEvent(w)) /\ WF_vars(CommitEvent(w))
    /\ \A c \in Clients : WF_vars(Serve(c)) /\ WF_vars(Listen(c))

Spec == Init /\ [][Next]_vars
FairSpec == Spec /\ Fairness

-----------------------------------------------------------------------------
(* Properties *)

\* What a client has, over any number of lost connections, is the beginning of the
\* log: nothing missing, nothing twice, nothing out of order.
GotIsPrefix ==
    \A c \in Clients : Len(got[c]) <= Len(log) /\ \A i \in 1..Len(got[c]) : got[c][i] = i

\* The row lock makes max(sequence) + 1 safe: no transaction fails on the unique
\* sequence or leaves a gap, for which the exporter would reject the run
\* (app/eval/export.py:31), although several processes write to it.
NoSequenceClash == ~clash

HasOutcome(c) == \E i \in 1..Len(got[c]) : log[got[c][i]] \in TerminalEvents

\* Whatever connections are lost, who follows a run that ends is not left hanging: a page
\* is told the outcome, and every stream of a reader is closed by the server.
FollowersLearnTheEnd ==
    /\ \A c \in Browsers : status \in TerminalStatuses ~> HasOutcome(c)
    /\ \A c \in Readers : status \in TerminalStatuses ~> stream[c].pc = "over"

\* docs/harness-lab-plan.md:209: when the run is terminal the stream sends
\* run.completed or run.failed and then closes.
ClosedWithOutcome == \A c \in Readers : stream[c].pc = "over" => HasOutcome(c)
==============================================================================
