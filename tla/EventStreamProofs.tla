-------------------------- MODULE EventStreamProofs --------------------------
(***************************************************************************)
(* Proofs about EventStream, for every set of clients, writers and scripts *)
(* and any number of faults.                                               *)
(***************************************************************************)
EXTENDS EventStream, TLAPS

Serving == {"select", "status", "send", "closing"}

\* Only the holder of the run row has an uncommitted event; it is numbered behind
\* the whole log and there is still an entry of the script for it.
RowInv ==
    \A w \in Writers : draft[w] # 0 =>
      lock = w /\ draft[w] = Len(log) + 1 /\ done[w] < Len(Script[w])

\* What has arrived is the beginning of the log, what is on the wire continues it,
\* and what has been read from the database continues that; nothing is ever sent
\* that is not committed.  The cursor is the last sequence that was sent.  Without a
\* response the wire is empty.
ClientInv(c) ==
    /\ \A i \in 1..Len(got[c]) : got[c][i] = i
    /\ \A i \in 1..Len(wire[c]) : wire[c][i] = Len(got[c]) + i
    /\ \A i \in 1..Len(stream[c].batch) : stream[c].batch[i] = stream[c].cursor + i
    /\ Len(got[c]) + Len(wire[c]) + Len(stream[c].batch) <= Len(log)
    /\ stream[c].pc \in Serving => stream[c].cursor = Len(got[c]) + Len(wire[c])
    /\ stream[c].pc \notin Serving => wire[c] = <<>> /\ stream[c].batch = <<>>
    /\ stream[c].pc \in {"select", "closing"} => stream[c].batch = <<>>

IInv == TypeOK /\ RowInv /\ NoSequenceClash /\ \A c \in Clients : ClientInv(c)

LEMMA Lengths ==
    ASSUME TypeOK, NEW c \in Clients
    PROVE  /\ Len(got[c]) \in Nat /\ Len(wire[c]) \in Nat /\ Len(stream[c].batch) \in Nat
           /\ Len(log) \in Nat /\ got[c] \in Seq(Nat) /\ wire[c] \in Seq(Nat)
           /\ stream[c].batch \in Seq(Nat) /\ stream[c].cursor \in Nat
BY DEF TypeOK, Stream

LEMMA SumBound ==
    ASSUME NEW i \in Nat, NEW j \in Nat, NEW k \in Nat, NEW m \in Nat, NEW n \in Nat,
           i + j + k <= m, m <= n
    PROVE  i + j + k <= n
OBVIOUS

\* A step that leaves a client alone and only adds to the log keeps its invariant.
LEMMA ClientLeftAlone ==
    ASSUME TypeOK, NEW c \in Clients, ClientInv(c), Len(log') \in Nat, Len(log) <= Len(log'),
           got'[c] = got[c], wire'[c] = wire[c], stream'[c] = stream[c]
    PROVE  ClientInv(c)'
<1>0. /\ Len(got[c]) \in Nat /\ Len(wire[c]) \in Nat /\ Len(stream[c].batch) \in Nat
      /\ Len(log) \in Nat
  BY Lengths
<1>1. Len(got[c]) + Len(wire[c]) + Len(stream[c].batch) <= Len(log')
  <2>1. Len(got[c]) + Len(wire[c]) + Len(stream[c].batch) <= Len(log)
    BY DEF ClientInv
  <2>2. QED
    BY <1>0, <2>1, SumBound
<1>2. QED
  BY <1>1 DEF ClientInv

LEMMA OffType ==
    ASSUME NEW n \in Nat
    PROVE  /\ Off(n) \in Stream /\ Off(n).pc = "off" /\ Off(n).cursor = n /\ Off(n).batch = <<>>
           /\ [Off(n) EXCEPT !.pc = "over"] \in Stream
           /\ [Off(n) EXCEPT !.pc = "over"].pc = "over"
           /\ [Off(n) EXCEPT !.pc = "over"].batch = <<>>
           /\ [Off(n) EXCEPT !.pc = "select"] \in Stream
           /\ [Off(n) EXCEPT !.pc = "select"].pc = "select"
           /\ [Off(n) EXCEPT !.pc = "select"].cursor = n
           /\ [Off(n) EXCEPT !.pc = "select"].batch = <<>>
<1>1. <<>> \in Seq(Nat)
  OBVIOUS
<1>2. QED
  BY <1>1 DEF Off, Stream, Statuses

LEMMA InvInit == Init => IInv
<1> SUFFICES ASSUME Init PROVE IInv
  OBVIOUS
<1>1. <<"run.created">> \in Seq(EventTypes) /\ <<>> \in Seq(Nat) /\ Len(<<"run.created">>) = 1
  BY DEF EventTypes
<1>2. Off(0) \in Stream /\ Off(0).pc = "off" /\ Off(0).batch = <<>> /\ Len(<<>>) = 0
  BY OffType
<1>3. TypeOK
  <2>1. stream \in [Clients -> Stream] /\ log \in Seq(EventTypes)
    BY <1>1, <1>2 DEF Init
  <2>2. status \in Statuses /\ faults \in 0..MaxFaults
    BY ScriptAssumption DEF Init, Statuses
  <2>3. QED
    BY <1>1, <2>1, <2>2 DEF Init, TypeOK
<1>4. ASSUME NEW c \in Clients
      PROVE  ClientInv(c)
  <2>1. got[c] = <<>> /\ wire[c] = <<>> /\ stream[c] = Off(0) /\ Len(log) = 1
    BY <1>1 DEF Init
  <2>2. QED
    BY <1>2, <2>1 DEF ClientInv, Serving
<1>5. RowInv /\ NoSequenceClash
  BY DEF Init, RowInv, NoSequenceClash
<1>6. QED
  BY <1>3, <1>4, <1>5 DEF IInv

-----------------------------------------------------------------------------
(* Writers *)

LEMMA WriterStep ==
    ASSUME IInv, NEW w \in Writers, AppendEvent(w) \/ CommitEvent(w) \/ Rollback(w)
    PROVE  IInv'
<1>0. log \in Seq(EventTypes) /\ Len(log) \in Nat
  BY DEF IInv, TypeOK
<1>1. CASE AppendEvent(w)
  <2>1. TypeOK'
    BY <1>0, <1>1 DEF AppendEvent, IInv, TypeOK
  <2>2. RowInv'
    BY <1>0, <1>1, ScriptAssumption DEF AppendEvent, RowFree, IInv, TypeOK, RowInv
  <2>3. NoSequenceClash' /\ \A c \in Clients : ClientInv(c)'
    BY <1>0, <1>1, ClientLeftAlone DEF AppendEvent, IInv, NoSequenceClash
  <2>4. QED
    BY <2>1, <2>2, <2>3 DEF IInv
<1>2. CASE CommitEvent(w)
  <2>1. draft[w] = Len(log) + 1 /\ lock = w /\ done[w] < Len(Script[w])
    BY <1>2 DEF CommitEvent, IInv, RowInv
  <2> DEFINE type == Script[w][done[w] + 1]
  <2>2. /\ log' = Append(log, type) /\ status' = StatusAfter(type)
        /\ done' = [done EXCEPT ![w] = done[w] + 1] /\ clash' = clash
        /\ lock' = NoWriter /\ draft' = [draft EXCEPT ![w] = 0]
        /\ UNCHANGED <<stream, wire, got, faults>>
    BY <1>2, <2>1 DEF CommitEvent
  <2>3. type \in EventTypes /\ done[w] \in Nat
    BY <2>1, ScriptAssumption DEF IInv, TypeOK
  <2>4. StatusAfter(type) \in Statuses
    BY DEF StatusAfter, Statuses, IInv, TypeOK
  <2> HIDE DEF type
  <2>5. log' \in Seq(EventTypes) /\ Len(log') = Len(log) + 1
    BY <1>0, <2>2, <2>3
  <2>6. TypeOK'
    BY <2>2, <2>3, <2>4, <2>5 DEF IInv, TypeOK
  <2>7. \A v \in Writers : draft'[v] = 0
    BY <2>1, <2>2 DEF IInv, TypeOK, RowInv
  <2>8. RowInv' /\ NoSequenceClash'
    BY <2>2, <2>7 DEF IInv, RowInv, NoSequenceClash
  <2>9. \A c \in Clients : ClientInv(c)'
    BY <1>0, <2>2, <2>5, ClientLeftAlone DEF IInv
  <2>10. QED
    BY <2>6, <2>8, <2>9 DEF IInv
<1>3. CASE Rollback(w)
  <2>1. TypeOK'
    BY <1>3, ScriptAssumption DEF Rollback, IInv, TypeOK
  <2>2. RowInv'
    BY <1>3 DEF Rollback, IInv, TypeOK, RowInv
  <2>3. NoSequenceClash' /\ \A c \in Clients : ClientInv(c)'
    BY <1>0, <1>3, ClientLeftAlone DEF Rollback, IInv, NoSequenceClash
  <2>4. QED
    BY <2>1, <2>2, <2>3 DEF IInv
<1>4. QED
  BY <1>1, <1>2, <1>3

-----------------------------------------------------------------------------
(* Streams and clients *)

\* A step of one client touches neither the database nor another client.
LEMMA OneClient ==
    ASSUME IInv, NEW c \in Clients, TypeOK', UNCHANGED database,
           \A d \in Clients \ {c} : got'[d] = got[d] /\ wire'[d] = wire[d] /\ stream'[d] = stream[d],
           ClientInv(c)'
    PROVE  IInv'
<1>1. Len(log') \in Nat /\ Len(log) <= Len(log')
  BY DEF IInv, TypeOK, database
<1>2. ASSUME NEW d \in Clients
      PROVE  ClientInv(d)'
  BY <1>1, <1>2, ClientLeftAlone DEF IInv
<1>3. RowInv' /\ NoSequenceClash'
  BY DEF IInv, RowInv, NoSequenceClash, database
<1>4. QED
  BY <1>2, <1>3 DEF IInv

\* The rows behind a cursor.
LEMMA BehindCursor ==
    ASSUME NEW n \in Nat, log \in Seq(EventTypes), n <= Len(log)
    PROVE  /\ Behind(n) \in Seq(Nat) /\ Len(Behind(n)) = Len(log) - n
           /\ \A i \in 1..Len(Behind(n)) : Behind(n)[i] = n + i
BY DEF Behind

LEMMA Popped ==
    ASSUME NEW s \in Seq(Nat), NEW b \in Nat, Len(s) = b, s # <<>>
    PROVE  /\ Head(s) = s[1] /\ Head(s) \in Nat /\ b >= 1
           /\ Tail(s) \in Seq(Nat) /\ Len(Tail(s)) = b - 1
           /\ \A i \in 1..(b - 1) : Tail(s)[i] = s[i + 1]
OBVIOUS

LEMMA ServeStep ==
    ASSUME IInv, NEW c \in Clients, Serve(c)
    PROVE  IInv'
<1> DEFINE me == stream[c]
<1>0. /\ TypeOK /\ ClientInv(c) /\ me \in Stream /\ me.cursor \in Nat /\ me.batch \in Seq(Nat)
  BY Lengths DEF IInv, TypeOK
<1> PICK g \in Nat, n \in Nat, b \in Nat, l \in Nat :
      Len(got[c]) = g /\ Len(wire[c]) = n /\ Len(me.batch) = b /\ Len(log) = l
  BY Lengths DEF IInv
<1> USE DEF Serving
<1>1. CASE Connect(c)
  <2> DEFINE id == LastEventId(c)
             new == [Off(id) EXCEPT !.pc = "select"]
  <2>1. /\ me.pc = "off" /\ stream' = [stream EXCEPT ![c] = new]
        /\ UNCHANGED <<database, wire, got, faults>>
    BY <1>1 DEF Connect
  <2>2. wire[c] = <<>> /\ n = 0 /\ g + n + b <= l /\ \A i \in 1..g : got[c][i] = i
    BY <1>0, <2>1 DEF ClientInv
  <2>3. id \in Nat /\ id = g
    BY <1>0, <2>2 DEF LastEventId, TypeOK
  <2>4. new \in Stream /\ new.pc = "select" /\ new.cursor = id /\ new.batch = <<>>
    BY <2>3, OffType
  <2>5. g + n + 0 <= l /\ id = g + n
    BY <2>2, <2>3
  <2> HIDE DEF new, id
  <2>6. TypeOK'
    BY <1>0, <2>1, <2>4 DEF TypeOK, database
  <2>7. /\ stream'[c] = new /\ got'[c] = got[c] /\ wire'[c] = wire[c] /\ log' = log
        /\ Len(new.batch) = 0
    BY <1>0, <2>1, <2>4 DEF TypeOK, database
  <2>8. /\ Len(got'[c]) = g /\ Len(wire'[c]) = n /\ Len(stream'[c].batch) = 0 /\ Len(log') = l
        /\ stream'[c].pc = "select" /\ stream'[c].cursor = g + n /\ stream'[c].batch = <<>>
        /\ wire'[c] = wire[c] /\ got'[c] = got[c]
    BY <2>4, <2>5, <2>7
  <2>9. ClientInv(c)'
    BY <2>2, <2>5, <2>8 DEF ClientInv
  <2>10. QED
    BY <2>1, <2>6, <2>9, OneClient DEF TypeOK
<1>2. CASE SelectEvents(c)
  <2> DEFINE rows == Behind(me.cursor)
  <2>1. /\ me.pc = "select"
        /\ stream' = [stream EXCEPT ![c].pc = "status", ![c].batch = rows]
        /\ UNCHANGED <<database, wire, got, faults>>
    BY <1>2 DEF SelectEvents
  <2>2. me.cursor = g + n /\ b = 0 /\ g + n + b <= l
    BY <1>0, <2>1 DEF ClientInv
  <2>3. me.cursor <= l
    BY <1>0, <2>2
  <2>4. /\ rows \in Seq(Nat) /\ Len(rows) = l - me.cursor
        /\ \A i \in 1..Len(rows) : rows[i] = me.cursor + i
    BY <1>0, <2>3, BehindCursor DEF TypeOK
  <2>5. g + n + Len(rows) <= l
    BY <2>2, <2>3, <2>4
  <2> HIDE DEF rows
  <2>6. stream'[c] = [me EXCEPT !.pc = "status", !.batch = rows]
    BY <1>0, <2>1 DEF TypeOK
  <2>7. /\ stream'[c] \in Stream /\ stream'[c].pc = "status" /\ stream'[c].cursor = me.cursor
        /\ stream'[c].batch = rows
    BY <1>0, <2>4, <2>6 DEF Stream
  <2>8. TypeOK'
    BY <1>0, <2>1, <2>7 DEF TypeOK, database
  <2>9. ClientInv(c)'
    BY <1>0, <2>1, <2>2, <2>4, <2>5, <2>7 DEF ClientInv, database
  <2>10. QED
    BY <2>1, <2>8, <2>9, OneClient DEF TypeOK
<1>3. CASE SelectStatus(c)
  <2>1. /\ me.pc = "status"
        /\ stream' = [stream EXCEPT ![c].pc = "send", ![c].seen = status]
        /\ UNCHANGED <<database, wire, got, faults>>
    BY <1>3 DEF SelectStatus
  <2>2. stream'[c] = [me EXCEPT !.pc = "send", !.seen = status] /\ status \in Statuses
    BY <1>0, <2>1 DEF TypeOK
  <2>3. /\ stream'[c] \in Stream /\ stream'[c].pc = "send" /\ stream'[c].cursor = me.cursor
        /\ stream'[c].batch = me.batch
    BY <1>0, <2>2 DEF Stream
  <2>4. TypeOK'
    BY <1>0, <2>1, <2>3 DEF TypeOK, database
  <2>5. ClientInv(c)'
    BY <1>0, <2>1, <2>3 DEF ClientInv, database
  <2>6. QED
    BY <2>1, <2>4, <2>5, OneClient DEF TypeOK
<1>4. CASE Yield(c)
  <2> DEFINE h == Head(me.batch)
             t == Tail(me.batch)
             w == Append(wire[c], h)
  <2>1. /\ me.pc = "send" /\ me.batch # <<>>
        /\ wire' = [wire EXCEPT ![c] = w]
        /\ stream' = [stream EXCEPT ![c].cursor = h, ![c].batch = t]
        /\ UNCHANGED <<database, got, faults>>
    BY <1>4 DEF Yield
  <2>2. /\ me.cursor = g + n /\ g + n + b <= l
        /\ \A i \in 1..b : me.batch[i] = me.cursor + i
        /\ \A i \in 1..n : wire[c][i] = g + i
    BY <1>0, <2>1 DEF ClientInv
  <2>3. /\ h = me.batch[1] /\ h \in Nat /\ b >= 1 /\ t \in Seq(Nat) /\ Len(t) = b - 1
        /\ \A i \in 1..(b - 1) : t[i] = me.batch[i + 1]
    BY <1>0, <2>1, Popped
  <2>4. h = g + n + 1
    BY <2>2, <2>3
  <2> HIDE DEF h, t
  <2>5. \A i \in 1..(b - 1) : t[i] = h + i
    <3>1. ASSUME NEW i \in 1..(b - 1)
          PROVE  t[i] = h + i
      <4>1. i + 1 \in 1..b
        BY <2>3
      <4>2. t[i] = g + n + (i + 1)
        BY <2>2, <2>3, <4>1
      <4>3. QED
        BY <2>4, <4>2
    <3>2. QED
      BY <3>1
  <2>6. wire[c] \in Seq(Nat)
    BY <1>0 DEF TypeOK
  <2>7. /\ w \in Seq(Nat) /\ Len(w) = n + 1
        /\ \A i \in 1..(n + 1) : w[i] = g + i
    <3>1. w \in Seq(Nat) /\ Len(w) = n + 1 /\ w[n + 1] = h
      BY <2>3, <2>6
    <3>2. \A i \in 1..n : w[i] = wire[c][i]
      BY <2>3, <2>6
    <3> HIDE DEF w
    <3>3. ASSUME NEW i \in 1..(n + 1)
          PROVE  w[i] = g + i
      <4>1. i \in 1..n \/ i = n + 1
        OBVIOUS
      <4>2. g + (n + 1) = g + n + 1
        OBVIOUS
      <4>3. QED
        BY <2>2, <2>4, <3>1, <3>2, <4>1, <4>2
    <3>4. QED
      BY <3>1, <3>3
  <2>8. g + (n + 1) + (b - 1) <= l /\ h = g + (n + 1)
    BY <2>2, <2>4
  <2> HIDE DEF w
  <2>9. stream'[c] = [me EXCEPT !.cursor = h, !.batch = t] /\ wire'[c] = w
    BY <1>0, <2>1 DEF TypeOK
  <2>10. h \in Nat /\ t \in Seq(Nat)
    BY <2>3
  <2>11. /\ stream'[c] \in Stream /\ stream'[c].pc = "send" /\ stream'[c].cursor = h
        /\ stream'[c].batch = t
    BY <1>0, <2>1, <2>9, <2>10 DEF Stream
  <2>12. TypeOK'
    BY <1>0, <2>1, <2>7, <2>11 DEF TypeOK, database
  <2>13. /\ got'[c] = got[c] /\ log' = log /\ n + 1 \in Nat /\ b - 1 \in Nat
         /\ \A i \in 1..g : got[c][i] = i
    BY <1>0, <2>1, <2>3 DEF ClientInv, database
  <2>14. ClientInv(c)'
    <3>1. /\ Len(got'[c]) = g /\ Len(wire'[c]) = n + 1 /\ Len(stream'[c].batch) = b - 1
          /\ Len(log') = l /\ stream'[c].pc = "send" /\ stream'[c].cursor = h
      BY <2>3, <2>7, <2>9, <2>11, <2>13
    <3>2. /\ \A i \in 1..g : got'[c][i] = i
          /\ \A i \in 1..(n + 1) : wire'[c][i] = g + i
          /\ \A i \in 1..(b - 1) : stream'[c].batch[i] = stream'[c].cursor + i
      BY <2>5, <2>7, <2>9, <2>11, <2>13
    <3>3. QED
      BY <2>8, <3>1, <3>2 DEF ClientInv
  <2>15. QED
    BY <2>1, <2>12, <2>14, OneClient DEF TypeOK
<1>5. CASE EndPoll(c)
  <2>1. PICK next \in {"closing", "select"} : stream' = [stream EXCEPT ![c].pc = next]
    BY <1>5 DEF EndPoll
  <2>2. /\ me.pc = "send" /\ me.batch = <<>> /\ UNCHANGED <<database, wire, got, faults>>
    BY <1>5 DEF EndPoll, Sent
  <2>3. stream'[c] = [me EXCEPT !.pc = next]
    BY <1>0, <2>1 DEF TypeOK
  <2>4. /\ stream'[c] \in Stream /\ stream'[c].pc = next /\ stream'[c].cursor = me.cursor
        /\ stream'[c].batch = me.batch
    BY <1>0, <2>3 DEF Stream
  <2>5. TypeOK'
    BY <1>0, <2>1, <2>2, <2>4 DEF TypeOK, database
  <2>6. ClientInv(c)'
    BY <1>0, <2>2, <2>4 DEF ClientInv, database
  <2>7. QED
    BY <2>1, <2>2, <2>5, <2>6, OneClient DEF TypeOK
<1>6. QED
  BY <1>1, <1>2, <1>3, <1>4, <1>5 DEF Serve

\* A client without a response: what is left of it is what it has received.
LEMMA WithoutResponse ==
    ASSUME TypeOK, NEW c \in Clients, ClientInv(c), Len(log') = Len(log), got'[c] = got[c],
           wire'[c] = <<>>, stream'[c].pc \in {"off", "over"}, stream'[c].batch = <<>>
    PROVE  ClientInv(c)'
<1> PICK g \in Nat, n \in Nat, b \in Nat, l \in Nat :
      Len(got[c]) = g /\ Len(wire[c]) = n /\ Len(stream[c].batch) = b /\ Len(log) = l
  BY Lengths
<1>2. g + n + b <= l
  BY DEF ClientInv
<1>3. g + 0 + 0 <= l
  BY <1>2
<1>4. Len(<<>>) = 0
  OBVIOUS
<1>5. Len(got'[c]) + Len(wire'[c]) + Len(stream'[c].batch) <= Len(log')
  BY <1>3, <1>4
<1>6. QED
  BY <1>4, <1>5 DEF ClientInv, Serving

LEMMA OverStream ==
    ASSUME TypeOK, NEW c \in Clients, stream' = Over(c)
    PROVE  /\ stream' \in [Clients -> Stream] /\ stream'[c].pc = "over" /\ stream'[c].batch = <<>>
           /\ \A d \in Clients \ {c} : stream'[d] = stream[d]
<1>1. stream[c].cursor \in Nat
  BY Lengths
<1>2. QED
  BY <1>1, OffType DEF Over, TypeOK

LEMMA OffStream ==
    ASSUME TypeOK, NEW c \in Clients, stream' = [stream EXCEPT ![c] = Off(stream[c].cursor)]
    PROVE  /\ stream' \in [Clients -> Stream] /\ stream'[c].pc = "off" /\ stream'[c].batch = <<>>
           /\ \A d \in Clients \ {c} : stream'[d] = stream[d]
<1>1. stream[c].cursor \in Nat
  BY Lengths
<1>2. QED
  BY <1>1, OffType DEF TypeOK

LEMMA ListenStep ==
    ASSUME IInv, NEW c \in Clients, Listen(c) \/ LoseConnection(c)
    PROVE  IInv'
<1>0. /\ TypeOK /\ ClientInv(c) /\ got[c] \in Seq(Nat) /\ wire[c] \in Seq(Nat)
      /\ log \in Seq(EventTypes) /\ <<>> \in Seq(Nat)
  BY Lengths DEF IInv, TypeOK
<1> PICK g \in Nat, n \in Nat, b \in Nat, l \in Nat :
      Len(got[c]) = g /\ Len(wire[c]) = n /\ Len(stream[c].batch) = b /\ Len(log) = l
  BY <1>0, Lengths
<1>1. CASE Receive(c)
  <2> DEFINE id == Head(wire[c])
             u == Append(got[c], id)
             t == Tail(wire[c])
  <2>1. /\ wire[c] # <<>> /\ got' = [got EXCEPT ![c] = u]
        /\ UNCHANGED <<log, status, lock, draft, done, clash, faults>>
        /\ \/ wire' = [wire EXCEPT ![c] = <<>>] /\ stream' = Over(c)
           \/ wire' = [wire EXCEPT ![c] = t] /\ UNCHANGED stream
    BY <1>1 DEF Receive, database
  <2>2. /\ \A i \in 1..g : got[c][i] = i
        /\ \A i \in 1..n : wire[c][i] = g + i
        /\ g + n + b <= l
    BY <1>0 DEF ClientInv
  <2>3. /\ id = wire[c][1] /\ id \in Nat /\ n >= 1 /\ t \in Seq(Nat) /\ Len(t) = n - 1
        /\ \A i \in 1..(n - 1) : t[i] = wire[c][i + 1]
    BY <1>0, <2>1, Popped
  <2>4. id = g + 1 /\ n - 1 \in Nat
    BY <2>2, <2>3
  <2>5. u \in Seq(Nat) /\ Len(u) = g + 1 /\ \A i \in 1..(g + 1) : u[i] = i
    <3>1. u \in Seq(Nat) /\ Len(u) = g + 1 /\ u[g + 1] = id /\ \A i \in 1..g : u[i] = got[c][i]
      <4> HIDE DEF id
      <4>1. id \in Nat
        BY <2>3
      <4>2. QED
        BY <1>0, <4>1
    <3> HIDE DEF u
    <3>2. ASSUME NEW i \in 1..(g + 1)
          PROVE  u[i] = i
      <4>1. i \in 1..g \/ i = g + 1
        OBVIOUS
      <4>2. QED
        BY <2>2, <2>4, <3>1, <4>1
    <3>3. QED
      BY <3>1, <3>2
  <2>6. \A i \in 1..(n - 1) : t[i] = (g + 1) + i
    <3>1. ASSUME NEW i \in 1..(n - 1)
          PROVE  t[i] = (g + 1) + i
      <4>1. i + 1 \in 1..n
        BY <2>3
      <4>2. t[i] = g + (i + 1)
        BY <2>2, <2>3, <4>1
      <4>3. QED
        BY <4>2
    <3>2. QED
      BY <3>1
  <2>7. (g + 1) + (n - 1) + b <= l /\ (g + 1) + (n - 1) = g + n
    BY <2>2
  <2> HIDE DEF id, t, u
  <2>8. got' \in [Clients -> Seq(Nat)] /\ got'[c] = u
    BY <1>0, <2>1, <2>5 DEF TypeOK
  <2>9. CASE wire' = [wire EXCEPT ![c] = <<>>] /\ stream' = Over(c)
    <3>1. /\ stream' \in [Clients -> Stream] /\ stream'[c].pc = "over" /\ stream'[c].batch = <<>>
          /\ \A d \in Clients \ {c} : stream'[d] = stream[d]
      BY <1>0, <2>9, OverStream
    <3>2. wire' \in [Clients -> Seq(Nat)] /\ wire'[c] = <<>> /\ Len(<<>>) = 0
      BY <1>0, <2>9 DEF TypeOK
    <3>3. TypeOK'
      BY <1>0, <2>1, <2>8, <3>1, <3>2 DEF TypeOK
    <3>4. Len(got'[c]) = g + 1 /\ Len(wire'[c]) = 0 /\ Len(stream'[c].batch) = 0 /\ Len(log') = l
      BY <2>1, <2>5, <2>8, <3>1, <3>2
    <3>5. (g + 1) + 0 + 0 <= l
      BY <2>2, <2>3
    <3>6. \A i \in 1..(g + 1) : got'[c][i] = i
      BY <2>5, <2>8
    <3>7. ClientInv(c)'
      BY <3>1, <3>2, <3>4, <3>5, <3>6 DEF ClientInv, Serving
    <3>8. QED
      BY <1>0, <2>1, <2>9, <3>1, <3>3, <3>7, OneClient DEF TypeOK, database
  <2>10. CASE wire' = [wire EXCEPT ![c] = t] /\ UNCHANGED stream
    <3>1. wire' \in [Clients -> Seq(Nat)] /\ wire'[c] = t
      BY <1>0, <2>3, <2>10 DEF TypeOK
    <3>2. TypeOK'
      BY <1>0, <2>1, <2>8, <2>10, <3>1 DEF TypeOK
    <3>3. /\ Len(got'[c]) = g + 1 /\ Len(wire'[c]) = n - 1 /\ Len(stream'[c].batch) = b
          /\ Len(log') = l /\ stream'[c] = stream[c]
      BY <2>1, <2>3, <2>5, <2>8, <2>10, <3>1
    <3>4. /\ \A i \in 1..(g + 1) : got'[c][i] = i
          /\ \A i \in 1..(n - 1) : wire'[c][i] = (g + 1) + i
      BY <2>5, <2>6, <2>8, <3>1
    <3>5. stream[c].pc \in Serving
      BY <1>0, <2>1 DEF ClientInv
    <3>6. ClientInv(c)'
      BY <1>0, <2>7, <3>3, <3>4, <3>5 DEF ClientInv
    <3>7. QED
      BY <1>0, <2>1, <2>10, <3>2, <3>6, OneClient DEF TypeOK, database
  <2>11. QED
    BY <2>1, <2>9, <2>10
<1>2. CASE EndOfResponse(c)
  <2>1. /\ wire[c] = <<>> /\ UNCHANGED <<database, wire, got, faults>>
        /\ stream' = [stream EXCEPT ![c] = Off(stream[c].cursor)] \/ stream' = Over(c)
    BY <1>2 DEF EndOfResponse
  <2>2. /\ stream' \in [Clients -> Stream] /\ stream'[c].pc \in {"off", "over"}
        /\ stream'[c].batch = <<>> /\ \A d \in Clients \ {c} : stream'[d] = stream[d]
    BY <1>0, <2>1, OffStream, OverStream
  <2>3. TypeOK'
    BY <1>0, <2>1, <2>2 DEF TypeOK, database
  <2>4. ClientInv(c)'
    BY <1>0, <2>1, <2>2, WithoutResponse DEF database
  <2>5. QED
    BY <2>1, <2>2, <2>3, <2>4, OneClient
<1>3. CASE LoseConnection(c)
  <2>1. /\ wire' = [wire EXCEPT ![c] = <<>>] /\ UNCHANGED <<database, got>>
        /\ stream' = [stream EXCEPT ![c] = Off(stream[c].cursor)]
        /\ faults' = faults + 1 /\ faults < MaxFaults
    BY <1>3 DEF LoseConnection
  <2>2. /\ stream' \in [Clients -> Stream] /\ stream'[c].pc = "off"
        /\ stream'[c].batch = <<>> /\ \A d \in Clients \ {c} : stream'[d] = stream[d]
    BY <1>0, <2>1, OffStream
  <2>3. faults' \in 0..MaxFaults
    BY <1>0, <2>1, ScriptAssumption DEF TypeOK
  <2>4. wire' \in [Clients -> Seq(Nat)] /\ wire'[c] = <<>>
    BY <1>0, <2>1 DEF TypeOK
  <2>5. TypeOK'
    BY <1>0, <2>1, <2>2, <2>3, <2>4 DEF TypeOK, database
  <2>6. ClientInv(c)'
    BY <1>0, <2>1, <2>2, <2>4, WithoutResponse DEF database
  <2>7. QED
    BY <1>0, <2>1, <2>2, <2>5, <2>6, OneClient DEF TypeOK
<1>4. QED
  BY <1>1, <1>2, <1>3 DEF Listen

LEMMA InvNext == IInv /\ [Next]_vars => IInv'
<1> SUFFICES ASSUME IInv, [Next]_vars PROVE IInv'
  OBVIOUS
<1>1. CASE UNCHANGED vars
  BY <1>1 DEF vars, IInv, TypeOK, RowInv, NoSequenceClash, ClientInv
<1>2. QED
  BY <1>1, WriterStep, ServeStep, ListenStep DEF Next

THEOREM Invariance == Spec => []IInv
BY InvInit, InvNext, PTL DEF Spec

-----------------------------------------------------------------------------

\* Every variable of the event log and of its streams keeps its type.
THEOREM TypeCorrect == Spec => []TypeOK
<1>1. IInv => TypeOK
  BY DEF IInv
<1>2. QED
  BY <1>1, Invariance, PTL

\* Last-Event-ID and the cursor of get_events give every client a prefix of the log,
\* for any number of lost connections and of rolled-back writers.
THEOREM StreamsArePrefixes == Spec => []GotIsPrefix
<1>1. ASSUME IInv, NEW c \in Clients
      PROVE  Len(got[c]) <= Len(log) /\ \A i \in 1..Len(got[c]) : got[c][i] = i
  <2> PICK g \in Nat, n \in Nat, b \in Nat, l \in Nat :
        Len(got[c]) = g /\ Len(wire[c]) = n /\ Len(stream[c].batch) = b /\ Len(log) = l
    BY <1>1, Lengths DEF IInv
  <2>1. g + n + b <= l /\ \A i \in 1..g : got[c][i] = i
    BY <1>1 DEF IInv, ClientInv
  <2>2. QED
    BY <2>1
<1>2. IInv => GotIsPrefix
  BY <1>1 DEF GotIsPrefix
<1>3. QED
  BY <1>2, Invariance, PTL

\* The row lock of append_event keeps UNIQUE (run_id, sequence) from ever failing,
\* for any number of writers.
THEOREM SequencesAreUnique == Spec => []NoSequenceClash
<1>1. IInv => NoSequenceClash
  BY DEF IInv
<1>2. QED
  BY <1>1, Invariance, PTL
==============================================================================
