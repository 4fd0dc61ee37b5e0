------------------------ MODULE TaskDispatch_proofs ------------------------
(***************************************************************************)
(* Theorems about TaskDispatch, for any executors and any values of the    *)
(* bounds.                                                                 *)
(*                                                                         *)
(* A row that is completed or failed is written by an operation of the     *)
(* serializer that took its row from the message of a worker, so the       *)
(* invariant says of every row, operation and undelivered message that it  *)
(* reports an execution that really ended (Fact, TailFacts, MessageFact).  *)
(* That a worker executes the task once at a time needs that every         *)
(* execution keeps the task in runningTaskIds (Work).                      *)
(***************************************************************************)
EXTENDS TaskDispatch, TLAPS

\* What r says of an end is among the ends E.
Fact(E, r) == r.status \in {"completed", "failed"} =>
    [at |-> r.exec, key |-> r.key, status |-> r.status] \in E

OpFact(E, op) ==
    /\ op.row # NoRow => Fact(E, op.row)
    /\ op.kind # "result" => op.status \notin {"completed", "failed"}

\* A result that waits has its row; it is the first one that may have lost it.
TailFacts(E, t) ==
    /\ t \in Seq(Ops)
    /\ \A i \in 1..Len(t) : OpFact(E, t[i])
    /\ \A i \in 2..Len(t) : t[i].kind = "result" => t[i].row \in Row

MessageFact(E, e, m) == m.type = "result" /\ m.status # "cancelled" =>
    [at |-> e, key |-> m.key, status |-> m.status] \in E

SerialFacts(E, r, t) == r \in Row /\ Fact(E, r) /\ TailFacts(E, t)

OutboxFacts(E, o) ==
    /\ o \in [Executor -> Seq(FromWorker)]
    /\ \A e \in Executor : \A i \in 1..Len(o[e]) : MessageFact(E, e, o[e][i])

Serial == SerialFacts(ended, row, tail)
Messages == OutboxFacts(ended, outbox)

Network ==
    /\ pass \subseteq Executor
    /\ sends \subseteq [to : Executor, key : Key, seq : Seqno, open : BOOLEAN]
    /\ sock \subseteq Executor /\ stale \subseteq Executor /\ link \subseteq Executor
    /\ conn \in [Executor -> {"down", "open", "ready"}]
    /\ down \in [Executor -> Seq(FromServer)]
    /\ damage \in BOOLEAN /\ ended \subseteq Ends
    /\ requests \in Nat /\ starts \in Nat /\ faults \in Nat

Work ==
    /\ held \in [Executor -> Task \cup {NoTask}]
    /\ local \in [Executor -> {"none", "queued", "running"}]
    /\ live \subseteq Runs
    /\ \A e \in Executor : local[e] = "queued" => held[e] \in Task
    /\ \A x \in live : local[x.at] = "running"
    /\ OneExecution

IInv == Serial /\ Messages /\ Network /\ Work
-----------------------------------------------------------------------------
(***************************************************************************)
(* Rows, operations and the serializer.                                    *)
(***************************************************************************)
LEMMA RowFields ==
    ASSUME NEW r \in Row
    PROVE  /\ r.status \in Status /\ r.exec \in Executor /\ r.key \in Key
           /\ r.seq \in Nat /\ r.lease \in BOOLEAN /\ r # NoRow
  BY DEF Row, NoRow, Key, Seqno

LEMMA RowUpdates ==
    ASSUME NEW r \in Row
    PROVE  /\ \A s \in Status : [r EXCEPT !.status = s] \in Row
           /\ \A n \in Nat : [r EXCEPT !.seq = n] \in Row
           /\ \A e \in Executor, k \in Key : [r EXCEPT !.exec = e, !.key = k] \in Row
           /\ \A b \in BOOLEAN : [r EXCEPT !.lease = b] \in Row
  BY DEF Row, Seqno

\* Operations that take their row from the database when they begin.
LEMMA NewOps ==
    ASSUME NEW k \in {"event", "report"}, NEW s \in Status, NEW n \in Nat, NEW E,
           s \notin {"completed", "failed"}
    PROVE  Op(k, s, n, NoRow) \in Ops /\ OpFact(E, Op(k, s, n, NoRow))
           /\ Op(k, s, n, NoRow).kind # "result"
  BY DEF Op, Ops, OpFact, Seqno

LEMMA NewResults ==
    ASSUME NEW s \in Status, NEW n \in Nat, NEW r \in Row, NEW E, Fact(E, r)
    PROVE  /\ Op("result", s, n, r) \in Ops /\ OpFact(E, Op("result", s, n, r))
           /\ Op("result", s, n, r).row \in Row
  BY DEF Op, Ops, OpFact, Seqno

LEMMA BeginsWell ==
    ASSUME NEW E, NEW r \in Row, Fact(E, r), NEW op \in Ops, OpFact(E, op),
           op.kind = "result" => op.row \in Row
    PROVE  Begun(op, r) \in Ops /\ OpFact(E, Begun(op, r))
<1>1. op.seq \in Nat /\ op.status \in Status /\ r.seq \in Nat /\ op.kind \in {"event", "report", "result"}
      /\ op.over \in BOOLEAN
  BY RowFields DEF Ops, Seqno
<1>2. \A q \in Row \cup {NoRow} :
        /\ [op EXCEPT !.row = q] \in Ops
        /\ [op EXCEPT !.row = q].row = q
        /\ [op EXCEPT !.row = q].kind = op.kind
        /\ [op EXCEPT !.row = q].status = op.status
  BY DEF Ops
<1>3. \A q \in Row \cup {NoRow} : (q # NoRow => Fact(E, q)) => OpFact(E, [op EXCEPT !.row = q])
  BY <1>2 DEF OpFact
<1>4. CASE op.kind = "result" /\ ~Acceptable(r, op.seq)
  <2>1. Begun(op, r) = [op EXCEPT !.row = NoRow]
    BY <1>4 DEF Begun
  <2> QED
    BY <2>1, <1>2, <1>3
<1>5. CASE op.kind = "result" /\ Acceptable(r, op.seq)
  <2> DEFINE n == IF op.seq # 0 THEN op.seq
                  ELSE IF op.row.seq # 0 THEN op.row.seq ELSE r.seq
             q == [op.row EXCEPT !.seq = n]
  <2>1. op.row \in Row
    BY <1>5
  <2>2. n \in Nat
    BY <2>1, <1>1, RowFields
  <2>3. q \in Row /\ q.status = op.row.status /\ q.exec = op.row.exec /\ q.key = op.row.key
    <3> HIDE DEF n
    <3> QED
      BY <2>1, <2>2, RowUpdates DEF Row
  <2>4. Fact(E, q)
    BY <2>1, <2>3, RowFields DEF OpFact, Fact
  <2>5. Begun(op, r) = [op EXCEPT !.row = q]
    BY <1>5 DEF Begun
  <2> HIDE DEF q
  <2> QED
    BY <2>3, <2>4, <2>5, <1>2, <1>3
<1>6. CASE op.kind # "result" /\ ~Newer(r, op.seq)
  <2>1. Begun(op, r) = [op EXCEPT !.row = NoRow]
    BY <1>6 DEF Begun
  <2> QED
    BY <2>1, <1>2, <1>3
<1>7. CASE op.kind # "result" /\ Newer(r, op.seq)
  <2> DEFINE n == IF op.seq # 0 THEN op.seq ELSE r.seq
             q == [r EXCEPT !.status = op.status, !.seq = n]
  <2>1. n \in Nat
    BY <1>1
  <2>2. q \in Row /\ q.status = op.status
    <3> HIDE DEF n
    <3> QED
      BY <2>1, <1>1, RowUpdates DEF Row, Seqno
  <2>3. Fact(E, q)
    BY <2>2, <1>7 DEF OpFact, Fact
  <2>4. Begun(op, r) = [op EXCEPT !.row = q]
    BY <1>7 DEF Begun, Row
  <2> HIDE DEF q
  <2> QED
    BY <2>2, <2>3, <2>4, <1>2, <1>3
<1> QED
  BY <1>4, <1>5, <1>6, <1>7

LEMMA Enqueues ==
    ASSUME NEW E, NEW r \in Row, Fact(E, r), NEW t, TailFacts(E, t),
           NEW op \in Ops, OpFact(E, op), op.kind = "result" => op.row \in Row
    PROVE  TailFacts(E, Enqueue(t, r, op))
<1>1. CASE t = <<>>
  <2>1. Enqueue(t, r, op) = <<Begun(op, r)>>
    BY <1>1 DEF Enqueue
  <2>2. Begun(op, r) \in Ops /\ OpFact(E, Begun(op, r))
    BY BeginsWell
  <2> QED
    BY <2>1, <2>2 DEF TailFacts
<1>2. CASE t # <<>>
  <2>1. Enqueue(t, r, op) = Append(t, op)
    BY <1>2 DEF Enqueue
  <2>2. t \in Seq(Ops)
    BY DEF TailFacts
  <2>3. /\ Append(t, op) \in Seq(Ops) /\ Len(Append(t, op)) = Len(t) + 1
        /\ \A i \in 1..Len(t) : Append(t, op)[i] = t[i]
        /\ Append(t, op)[Len(t) + 1] = op
    BY <2>2
  <2> QED
    BY <2>1, <2>2, <2>3 DEF TailFacts
<1> QED
  BY <1>1, <1>2

LEMMA Overtakes ==
    ASSUME NEW E, NEW t, TailFacts(E, t)
    PROVE  TailFacts(E, Overtaken(t))
<1>1. t \in Seq(Ops) /\ Len(t) \in Nat /\ \A i \in 1..Len(t) : t[i] \in Ops
  BY DEF TailFacts
<1>2. \A op \in Ops : /\ [op EXCEPT !.over = TRUE] \in Ops
                      /\ [op EXCEPT !.over = TRUE].row = op.row
                      /\ [op EXCEPT !.over = TRUE].kind = op.kind
                      /\ [op EXCEPT !.over = TRUE].status = op.status
  BY DEF Ops
<1>3. \A op \in Ops : OpFact(E, op) => OpFact(E, [op EXCEPT !.over = TRUE])
  BY <1>2 DEF OpFact
<1>4. Overtaken(t) \in [1..Len(t) -> Ops]
  BY <1>1, <1>2 DEF Overtaken
<1>5. Overtaken(t) \in Seq(Ops) /\ Len(Overtaken(t)) = Len(t)
  BY <1>1, <1>4 DEF Overtaken
<1>6. \A i \in 1..Len(t) : Overtaken(t)[i] = [t[i] EXCEPT !.over = TRUE]
  BY DEF Overtaken
<1>7. \A i \in 1..Len(t) : OpFact(E, Overtaken(t)[i]) /\ Overtaken(t)[i].kind = t[i].kind
                           /\ Overtaken(t)[i].row = t[i].row
  BY <1>1, <1>2, <1>3, <1>6 DEF TailFacts
<1>8. \A i \in 2..Len(t) : i \in 1..Len(t) /\ (t[i].kind = "result" => t[i].row \in Row)
  BY <1>1 DEF TailFacts
<1> QED
  BY <1>5, <1>7, <1>8 DEF TailFacts

\* What was written by the first operation; the next one begins.
LEMMA Advances ==
    ASSUME NEW E, NEW r \in Row, Fact(E, r), NEW t, TailFacts(E, t), t # <<>>
    PROVE  TailFacts(E, IF Len(t) = 1 THEN <<>> ELSE <<Begun(t[2], r)>> \o Tail(Tail(t)))
<1>1. t \in Seq(Ops) /\ Len(t) \in Nat \ {0} /\ \A i \in 1..Len(t) : t[i] \in Ops
  BY DEF TailFacts
<1>2. CASE Len(t) = 1
  BY <1>2 DEF TailFacts
<1>3. CASE Len(t) # 1
  <2> DEFINE b == Begun(t[2], r)
             u == Tail(Tail(t))
  <2>1. t[2] \in Ops /\ OpFact(E, t[2]) /\ (t[2].kind = "result" => t[2].row \in Row)
    <3>1. 2 \in 1..Len(t) /\ 2 \in 2..Len(t)
      <4>1. Len(t) \in Nat /\ Len(t) # 0 /\ Len(t) # 1
        BY <1>1, <1>3
      <4>2. \A n \in Nat : n # 0 /\ n # 1 => 2 \in 1..n /\ 2 \in 2..n
        OBVIOUS
      <4> QED
        BY <4>1, <4>2
    <3> QED
      BY <1>1, <3>1 DEF TailFacts
  <2>2. b \in Ops /\ OpFact(E, b)
    BY <2>1, BeginsWell
  <2> HIDE DEF b
  <2>3. Tail(t) \in Seq(Ops) /\ Len(Tail(t)) = Len(t) - 1
        /\ \A i \in 1..(Len(t) - 1) : Tail(t)[i] = t[i + 1]
    BY <1>1
  <2>4. u \in Seq(Ops) /\ Len(u) = Len(t) - 2 /\ \A i \in 1..(Len(t) - 2) : u[i] = t[i + 2]
    BY <2>3, <1>1, <1>3
  <2> HIDE DEF u
  <2>5. /\ <<b>> \o u \in Seq(Ops) /\ Len(<<b>> \o u) = Len(t) - 1
        /\ (<<b>> \o u)[1] = b
        /\ \A i \in 2..(Len(t) - 1) : (<<b>> \o u)[i] = t[i + 1]
    BY <2>2, <2>4, <1>1, <1>3
  <2>6. TailFacts(E, <<b>> \o u)
    BY <2>2, <2>5, <1>1, <1>3 DEF TailFacts
  <2> QED
    BY <2>6, <1>3 DEF b, u
<1> QED
  BY <1>2, <1>3

LEMMA MoreEnds ==
    ASSUME NEW E, NEW F, E \subseteq F
    PROVE  /\ \A r : Fact(E, r) => Fact(F, r)
           /\ \A t : TailFacts(E, t) => TailFacts(F, t)
           /\ \A e, m : MessageFact(E, e, m) => MessageFact(F, e, m)
           /\ \A o : OutboxFacts(E, o) => OutboxFacts(F, o)
  BY DEF Fact, OpFact, TailFacts, MessageFact, OutboxFacts
-----------------------------------------------------------------------------
(***************************************************************************)
(* What the operations of the server do to the row and the serializer.     *)
(***************************************************************************)
LEMMA Writing ==
    ASSUME NEW E, TailFacts(E, tail), NEW r \in Row, Fact(E, r), Write(r)
    PROVE  SerialFacts(E, row', tail')
  BY Overtakes DEF Write, SerialFacts

LEMMA WritingReporting ==
    ASSUME NEW E, TailFacts(E, tail), NEW r \in Row, Fact(E, r),
           NEW s \in Status, s \notin {"completed", "failed"}, WriteAndReport(r, s)
    PROVE  SerialFacts(E, row', tail')
<1>1. TailFacts(E, Overtaken(tail))
  BY Overtakes
<1>2. /\ Op("event", s, 0, NoRow) \in Ops /\ OpFact(E, Op("event", s, 0, NoRow))
      /\ Op("event", s, 0, NoRow).kind # "result"
  BY NewOps
<1>3. TailFacts(E, Enqueue(Overtaken(tail), r, Op("event", s, 0, NoRow)))
  BY <1>1, <1>2, Enqueues
<1> QED
  BY <1>3 DEF WriteAndReport, SerialFacts

LEMMA Reporting ==
    ASSUME NEW E, SerialFacts(E, row, tail), NEW k \in {"event", "report"},
           NEW s \in Status, s \notin {"completed", "failed"}, NEW n \in Nat, Report(k, s, n)
    PROVE  SerialFacts(E, row', tail')
<1>1. /\ Op(k, s, n, NoRow) \in Ops /\ OpFact(E, Op(k, s, n, NoRow))
      /\ Op(k, s, n, NoRow).kind # "result"
  BY NewOps
<1>2. TailFacts(E, Enqueue(tail, row, Op(k, s, n, NoRow)))
  BY <1>1, Enqueues DEF SerialFacts
<1> QED
  BY <1>2 DEF Report, SerialFacts

LEMMA Resulting ==
    ASSUME NEW E, SerialFacts(E, row, tail), NEW s \in Status, NEW n \in Nat,
           NEW r \in Row, Fact(E, r),
           row' = row, tail' = Enqueue(tail, row, Op("result", s, n, r))
    PROVE  SerialFacts(E, row', tail')
<1>1. TailFacts(E, Enqueue(tail, row, Op("result", s, n, r)))
  BY NewResults, Enqueues DEF SerialFacts
<1> QED
  BY <1>1 DEF SerialFacts

HeartbeatMessage == [type : {"heartbeat"}, local : {"none", "queued", "running"}]

LEMMA HandlingHeartbeat ==
    ASSUME NEW E, SerialFacts(E, row, tail), NEW e \in Executor, NEW m \in HeartbeatMessage,
           HandleHeartbeat(e, m)
    PROVE  SerialFacts(E, row', tail')
<1>1. {"executing", "assigned"} \subseteq Status /\ 0 \in Nat
  BY DEF Status
<1>2. CASE Report("report", "executing", 0)
  BY <1>1, <1>2, Reporting
<1>3. CASE Report("report", "assigned", 0)
  BY <1>1, <1>3, Reporting
<1>4. CASE UNCHANGED <<row, tail>>
  BY <1>4
<1> QED
  BY <1>2, <1>3, <1>4 DEF HandleHeartbeat

LEMMA HandlingMessage ==
    ASSUME NEW E, SerialFacts(E, row, tail), NEW e \in Executor, NEW m \in FromWorker,
           MessageFact(E, e, m), Handle(e, m)
    PROVE  SerialFacts(E, row', tail')
<1>1. CASE UNCHANGED <<row, tail>>
  BY <1>1
<1>2. CASE m.type = "ack"
  <2>1. HandleAck(e, m)
    BY <1>2 DEF Handle
  <2>2. CASE Write(row)
    BY <2>2, Writing DEF SerialFacts
  <2> QED
    BY <2>1, <2>2, <1>1 DEF HandleAck
<1>3. CASE m.type = "event"
  <2>1. HandleEvent(e, m)
    BY <1>3 DEF Handle
  <2>2. m.status \in Status /\ m.status \notin {"completed", "failed"} /\ m.seq \in Nat
    BY <1>3 DEF FromWorker, Status, Seqno
  <2>3. CASE Report("event", m.status, m.seq)
    BY <2>2, <2>3, Reporting
  <2> QED
    BY <2>1, <2>3, <1>1 DEF HandleEvent
<1>4. CASE m.type = "result"
  <2>1. HandleResult(e, m)
    BY <1>4 DEF Handle
  <2>2. m.status \in Outcome \cup {"cancelled"} /\ m.seq \in Nat /\ m.base \in Seqno /\ m.key \in Key
    BY <1>4 DEF FromWorker, Seqno
  <2>3. m.status \in Status
    BY <2>2, DispatchAssumption DEF DispatchAssumption, Status, Final
  <2> DEFINE r == [status |-> m.status, exec |-> e, key |-> m.key, seq |-> m.base, lease |-> TRUE]
  <2>4. r \in Row
    BY <2>2, <2>3 DEF Row
  <2>5. Fact(E, r)
    BY <1>4 DEF MessageFact, Fact
  <2>6. CASE row' = row /\ tail' = Enqueue(tail, row, Op("result", m.status, m.seq, r))
    <3> HIDE DEF r
    <3> QED
      BY <2>2, <2>3, <2>4, <2>5, <2>6, Resulting
  <2> QED
    BY <2>1, <2>6, <1>1 DEF HandleResult
<1> QED
  BY <1>2, <1>3, <1>4 DEF FromWorker

LEMMA Transmitting ==
    ASSUME NEW E, SerialFacts(E, row, tail), OutboxFacts(E, outbox), NEW e \in Executor,
           NEW m \in FromWorker, MessageFact(E, e, m), Transmit(e, m)
    PROVE  SerialFacts(E, row', tail') /\ OutboxFacts(E, outbox')
<1>1. CASE conn[e] = "down"
  <2>1. UNCHANGED <<row, tail>> /\ outbox' = [outbox EXCEPT ![e] = Append(@, m)]
    BY <1>1 DEF Transmit
  <2>2. /\ Append(outbox[e], m) \in Seq(FromWorker)
        /\ \A i \in 1..Len(Append(outbox[e], m)) : MessageFact(E, e, Append(outbox[e], m)[i])
    <3>1. outbox[e] \in Seq(FromWorker)
      BY DEF OutboxFacts
    <3>2. /\ Append(outbox[e], m) \in Seq(FromWorker)
          /\ Len(Append(outbox[e], m)) = Len(outbox[e]) + 1
          /\ \A i \in 1..Len(outbox[e]) : Append(outbox[e], m)[i] = outbox[e][i]
          /\ Append(outbox[e], m)[Len(outbox[e]) + 1] = m
      BY <3>1
    <3> QED
      BY <3>1, <3>2 DEF OutboxFacts
  <2> QED
    BY <2>1, <2>2 DEF OutboxFacts
<1>2. CASE conn[e] # "down"
  <2>1. outbox' = outbox /\ (Handle(e, m) \/ UNCHANGED <<row, tail>>)
    BY <1>2 DEF Transmit
  <2> QED
    BY <2>1, HandlingMessage
<1> QED
  BY <1>1, <1>2

\* What the worker sends is typed, and says no more than it knows.
LEMMA WorkerMessages ==
    /\ \A k \in Key : \A e : Ack(k) \in FromWorker /\ \A E : MessageFact(E, e, Ack(k))
    /\ \A x \in Runs : \A e : x.step < Step =>
         Event(x) \in FromWorker /\ \A E : MessageFact(E, e, Event(x))
    /\ \A k \in Key, n \in Nat, s \in Outcome \cup {"cancelled"}, b \in Nat :
         Result(k, n, s, b) \in FromWorker
<1>1. \A k \in Key : \A e : Ack(k) \in FromWorker /\ \A E : MessageFact(E, e, Ack(k))
  BY DEF Ack, FromWorker, MessageFact
<1>2. ASSUME NEW x \in Runs, x.step < Step
      PROVE  Event(x) \in FromWorker /\ \A E, e : MessageFact(E, e, Event(x))
  <2>1. x.key \in Key /\ x.seq + 1 \in Nat /\ x.step \in {0, 1}
    BY <1>2 DEF Runs, Step, Seqno
  <2>2. <<"preparing", "executing">>[x.step + 1] \in {"preparing", "executing"}
    BY <2>1
  <2>3. Event(x).type = "event"
    BY DEF Event
  <2> QED
    BY <2>1, <2>2, <2>3 DEF Event, KeyOf, FromWorker, MessageFact, Seqno
<1>3. \A k \in Key, n \in Nat, s \in Outcome \cup {"cancelled"}, b \in Nat :
         Result(k, n, s, b) \in FromWorker
  BY DEF Result, FromWorker, Seqno
<1> QED
  BY <1>1, <1>2, <1>3

LEMMA Resets ==
    ASSUME NEW r \in Row, NEW e \in Executor, NEW b \in BOOLEAN, requests \in Nat, NEW E
    PROVE  Reset(r, e, b) \in Row /\ Fact(E, Reset(r, e, b))
<1>1. FreshKey \in Key
  BY DEF FreshKey, Key
<1>2. Reset(r, e, b).status = "queued"
  BY DEF Reset, Row
<1> QED
  BY <1>1, <1>2 DEF Reset, Row, Seqno, Status, Fact

\* The row, the serializer and the outbound queues report only what was.
LEMMA SerialStep == IInv /\ [Next]_vars => Serial' /\ Messages'
<1> SUFFICES ASSUME IInv, [Next]_vars PROVE Serial' /\ Messages'
  OBVIOUS
<1> USE DEF Serial, Messages
<1>a. SerialFacts(ended, row, tail) /\ OutboxFacts(ended, outbox) /\ row \in Row
      /\ Fact(ended, row) /\ TailFacts(ended, tail)
  BY DEF IInv, SerialFacts
<1>b. {"queued", "assigned", "executing", "lost"} \subseteq Status /\ 0 \in Nat
  BY DEF Status
<1>c. row.status \in Status /\ row.exec \in Executor /\ row.key \in Key /\ row.seq \in Nat
  BY <1>a, RowFields
<1>d. ASSUME UNCHANGED <<row, tail, outbox, ended>> PROVE Serial' /\ Messages'
  BY <1>a, <1>d
<1>e. ASSUME SerialFacts(ended, row', tail'), UNCHANGED <<outbox, ended>>
      PROVE  Serial' /\ Messages'
  BY <1>a, <1>e
<1>1. CASE SyncWrite
  <2>1. tail # <<>> /\ tail \in Seq(Ops) /\ Len(tail) \in Nat /\ Len(tail) # 0
    BY <1>1, <1>a DEF SyncWrite, TailFacts
  <2> DEFINE op == tail[1]
  <2>2. op \in Ops /\ OpFact(ended, op) /\ Head(tail) = op
    BY <2>1, <1>a DEF TailFacts
  <2>3. (row' = op.row /\ op.row # NoRow) \/ row' = row
    BY <1>1, <2>2 DEF SyncWrite, Written
  <2>4. row' \in Row /\ Fact(ended, row')
    BY <2>2, <2>3, <1>a DEF OpFact, Ops
  <2>5. TailFacts(ended, IF Len(tail) = 1 THEN <<>> ELSE <<Begun(tail[2], row')>> \o Tail(Tail(tail)))
    BY <2>1, <2>4, <1>a, Advances
  <2>6. tail' = (IF Len(tail) = 1 THEN <<>> ELSE <<Begun(tail[2], row')>> \o Tail(Tail(tail)))
        /\ UNCHANGED <<outbox, ended>>
    BY <1>1 DEF SyncWrite, network
  <2> QED
    BY <2>4, <2>5, <2>6, <1>e DEF SerialFacts
<1>2. CASE Reclaim
  <2> DEFINE r == [row EXCEPT !.status = "queued", !.lease = FALSE]
  <2>1. r \in Row /\ Fact(ended, r)
    BY <1>a, <1>b, RowUpdates DEF Row, Fact
  <2>2. WriteAndReport(r, "queued") /\ UNCHANGED <<outbox, ended>>
    BY <1>2 DEF Reclaim, network
  <2> HIDE DEF r
  <2> QED
    BY <2>1, <2>2, <1>a, <1>b, <1>e, WritingReporting
<1>3. CASE Pick
  BY <1>3, <1>d DEF Pick, network
<1>4. CASE Claim
  <2>1. UNCHANGED <<outbox, ended>>
    BY <1>4 DEF Claim, network
  <2>2. PICK e \in pass :
          \/ Write([row EXCEPT !.exec = e, !.status = "assigned", !.lease = TRUE])
          \/ UNCHANGED <<row, tail>>
    BY <1>4 DEF Claim
  <2>3. e \in Executor
    BY DEF IInv, Network
  <2> DEFINE r == [row EXCEPT !.exec = e, !.status = "assigned", !.lease = TRUE]
  <2>4. r \in Row /\ Fact(ended, r)
    BY <2>3, <1>a, <1>b DEF Row, Fact
  <2>5. CASE Write(r)
    <3> HIDE DEF r
    <3> QED
      BY <2>1, <2>4, <2>5, <1>a, <1>e, Writing
  <2> QED
    BY <2>1, <2>2, <2>5, <1>d
<1>5. ASSUME NEW e \in Executor, Assign(e) PROVE Serial' /\ Messages'
  <2>1. UNCHANGED <<outbox, ended>>
    BY <1>5 DEF Assign, network
  <2> DEFINE r == Reset(row, e, FALSE)
  <2>2. r \in Row /\ Fact(ended, r)
    BY <1>a, Resets DEF IInv, Network
  <2> HIDE DEF r
  <2>3. CASE WriteAndReport(r, "queued")
    BY <2>1, <2>2, <2>3, <1>a, <1>b, <1>e, WritingReporting
  <2>4. CASE Report("event", "queued", 0)
    BY <2>1, <2>4, <1>a, <1>b, <1>e, Reporting
  <2>5. CASE row' = r /\ tail' = Enqueue(tail, row, Op("event", "queued", 0, NoRow))
    <3>1. TailFacts(ended, Enqueue(tail, row, Op("event", "queued", 0, NoRow)))
      BY <1>a, <1>b, NewOps, Enqueues
    <3> QED
      BY <3>1, <2>1, <2>2, <2>5, <1>e DEF SerialFacts
  <2> QED
    BY <1>5, <2>3, <2>4, <2>5 DEF Assign, r
<1>6. CASE Retry
  <2> DEFINE r == Reset(row, row.exec, TRUE)
  <2>1. r \in Row /\ Fact(ended, r)
    BY <1>a, <1>c, Resets DEF IInv, Network
  <2>2. WriteAndReport(r, "queued") /\ UNCHANGED <<outbox, ended>>
    BY <1>6 DEF Retry, network
  <2> HIDE DEF r
  <2> QED
    BY <2>1, <2>2, <1>a, <1>b, <1>e, WritingReporting
<1>7. ASSUME NEW e \in Executor, Takeover(e) PROVE Serial' /\ Messages'
  <2> DEFINE r == Reset(row, e, TRUE)
  <2>1. r \in Row /\ Fact(ended, r)
    BY <1>a, Resets DEF IInv, Network
  <2>2. WriteAndReport(r, "queued") /\ UNCHANGED <<outbox, ended>>
    BY <1>7 DEF Takeover, network
  <2> HIDE DEF r
  <2> QED
    BY <2>1, <2>2, <1>a, <1>b, <1>e, WritingReporting
<1>8. CASE Cancel
  <2>1. UNCHANGED <<outbox, ended>>
    BY <1>8 DEF Cancel
  <2>2. CASE row.status = "executing"
    <3>1. Report("event", row.status, 0)
      BY <1>8, <2>2 DEF Cancel
    <3> QED
      BY <3>1, <2>1, <2>2, <1>a, <1>b, <1>e, Reporting
  <2>3. CASE row.status # "executing"
    <3> DEFINE r == [row EXCEPT !.status = "cancelled", !.lease = FALSE]
    <3>1. r \in Row /\ Fact(ended, r)
      BY <1>a DEF Row, Fact, Status, Final
    <3>2. row' = row /\ tail' = Enqueue(tail, row, Op("result", "cancelled", 0, r))
      BY <1>8, <2>3 DEF Cancel
    <3>3. "cancelled" \in Status
      BY DEF Status, Final
    <3> HIDE DEF r
    <3> QED
      BY <3>1, <3>2, <3>3, <2>1, <1>a, <1>b, <1>e, Resulting
  <2> QED
    BY <2>2, <2>3
<1>9. ASSUME NEW s \in sends, Send(s) PROVE Serial' /\ Messages'
  <2>1. UNCHANGED <<outbox, ended>> /\ s \in [to : Executor, key : Key, seq : Seqno, open : BOOLEAN]
    BY <1>9 DEF Send, IInv, Network
  <2> DEFINE r == [status |-> "queued", exec |-> s.to, key |-> s.key, seq |-> s.seq, lease |-> FALSE]
  <2>2. r \in Row /\ Fact(ended, r)
    BY <2>1, <1>b DEF Row, Fact
  <2> HIDE DEF r
  <2>3. CASE Write(r)
    BY <2>1, <2>2, <2>3, <1>a, <1>e, Writing
  <2>4. CASE Report("event", "assigned", 0)
    BY <2>1, <2>4, <1>a, <1>b, <1>e, Reporting
  <2> QED
    BY <1>9, <2>1, <2>3, <2>4, <1>d DEF Send, r
<1>10. ASSUME NEW x \in live, Emit(x) PROVE Serial' /\ Messages'
  <2>1. x \in Runs /\ x.at \in Executor /\ x.step < Step
    BY <1>10 DEF IInv, Work, Runs, Emit
  <2>2. Event(x) \in FromWorker /\ MessageFact(ended, x.at, Event(x))
    BY <2>1, WorkerMessages
  <2>3. Transmit(x.at, Event(x)) /\ ended' = ended
    BY <1>10 DEF Emit, counts
  <2>4. SerialFacts(ended, row', tail') /\ OutboxFacts(ended, outbox')
    BY <2>1, <2>2, <2>3, <1>a, Transmitting
  <2> QED
    BY <2>3, <2>4
<1>11. ASSUME NEW x \in live, Finish(x) PROVE Serial' /\ Messages'
  <2>1. x \in Runs /\ x.at \in Executor /\ x.key \in Key /\ x.seq + 1 \in Nat
    BY DEF IInv, Work, Runs, Seqno
  <2>2. PICK status \in Outcome :
          /\ ended' = ended \cup {[at |-> x.at, key |-> x.key, status |-> status]}
          /\ Transmit(x.at, Result(KeyOf(x), x.seq + 1, status, 0))
    BY <1>11 DEF Finish
  <2> DEFINE m == Result(KeyOf(x), x.seq + 1, status, 0)
             E == ended \cup {[at |-> x.at, key |-> x.key, status |-> status]}
  <2>3. m \in FromWorker
    BY <2>1, WorkerMessages DEF KeyOf
  <2>4. MessageFact(E, x.at, m)
    BY DEF MessageFact, Result, KeyOf
  <2>5. SerialFacts(E, row, tail) /\ OutboxFacts(E, outbox)
    BY <1>a, MoreEnds DEF SerialFacts
  <2> HIDE DEF m, E
  <2>6. SerialFacts(E, row', tail') /\ OutboxFacts(E, outbox')
    BY <2>1, <2>2, <2>3, <2>4, <2>5, Transmitting DEF m
  <2>7. ended' = E
    BY <2>2 DEF E
  <2> QED
    BY <2>6, <2>7
<1>12. ASSUME NEW e \in Executor, ReceiveAssign(e) PROVE Serial' /\ Messages'
  <2>1. down[e] \in Seq(FromServer) /\ down[e] # <<>> /\ Head(down[e]).type = "assign"
    BY <1>12 DEF ReceiveAssign, IInv, Network
  <2>2. Head(down[e]) \in FromServer
    BY <2>1
  <2>3. Head(down[e]).key \in Key
    BY <2>1, <2>2 DEF FromServer
  <2> DEFINE k == Head(down[e]).key
  <2>4. CASE Transmit(e, Ack(k))
    <3>1. Ack(k) \in FromWorker /\ MessageFact(ended, e, Ack(k))
      BY <2>3, WorkerMessages
    <3>2. SerialFacts(ended, row', tail') /\ OutboxFacts(ended, outbox')
      BY <3>1, <2>4, <1>a, Transmitting
    <3>3. ended' = ended
      BY <1>12 DEF ReceiveAssign
    <3> QED
      BY <3>2, <3>3
  <2>5. CASE UNCHANGED <<row, tail, outbox>>
    BY <1>12, <2>5, <1>d DEF ReceiveAssign
  <2> QED
    BY <1>12, <2>4, <2>5 DEF ReceiveAssign
<1>13. ASSUME NEW e \in Executor, ReceiveCancel(e) PROVE Serial' /\ Messages'
  <2>1. ended' = ended
    BY <1>13 DEF ReceiveCancel
  <2>2. CASE held[e] = NoTask
    BY <1>13, <2>1, <2>2, <1>d DEF ReceiveCancel
  <2>3. CASE held[e] # NoTask
    <3> DEFINE m == Result(held[e].key, 0, "cancelled", held[e].base)
    <3>1. held[e].key \in Key /\ held[e].base \in Nat
      BY <2>3 DEF IInv, Work, Task, Seqno
    <3>2. m \in FromWorker
      BY <3>1, WorkerMessages
    <3>3. MessageFact(ended, e, m)
      BY DEF MessageFact, Result
    <3>4. Transmit(e, m)
      BY <1>13, <2>3 DEF ReceiveCancel
    <3> HIDE DEF m
    <3>5. SerialFacts(ended, row', tail') /\ OutboxFacts(ended, outbox')
      BY <3>2, <3>3, <3>4, <1>a, Transmitting
    <3> QED
      BY <3>5, <2>1
  <2> QED
    BY <2>2, <2>3
<1>14. ASSUME NEW e \in Executor, Heartbeat(e) PROVE Serial' /\ Messages'
  <2>1. Presence(e) \in HeartbeatMessage /\ Presence(e).type = "heartbeat"
    BY DEF Presence, HeartbeatMessage, IInv, Work
  <2>2. conn[e] # "down" /\ e \in link /\ Transmit(e, Presence(e)) /\ ended' = ended
    BY <1>14 DEF Heartbeat, counts
  <2>3. outbox' = outbox /\ Handle(e, Presence(e))
    BY <2>2 DEF Transmit
  <2>4. HandleHeartbeat(e, Presence(e))
    BY <2>1, <2>3 DEF Handle
  <2>5. SerialFacts(ended, row', tail')
    BY <2>1, <2>4, <1>a, HandlingHeartbeat
  <2> QED
    BY <2>2, <2>3, <2>5, <1>e
<1>15. ASSUME NEW e \in Executor, Start(e) PROVE Serial' /\ Messages'
  BY <1>15, <1>d DEF Start, server, network
<1>16. ASSUME NEW e \in Executor, Break(e) \/ WorkerNotices(e) \/ ServerNotices(e) \/ Connect(e)
       PROVE  Serial' /\ Messages'
  BY <1>16, <1>d DEF Break, WorkerNotices, ServerNotices, Connect, server, network
<1>17. ASSUME NEW e \in Executor, HeartbeatTimeout(e) PROVE Serial' /\ Messages'
  <2>1. UNCHANGED <<outbox, ended>>
    BY <1>17 DEF HeartbeatTimeout, network
  <2> DEFINE r == [row EXCEPT !.status = "queued", !.lease = FALSE]
  <2>2. r \in Row /\ Fact(ended, r)
    BY <1>a, <1>b DEF Row, Fact
  <2>3. CASE WriteAndReport(r, "queued")
    <3> HIDE DEF r
    <3> QED
      BY <2>1, <2>2, <2>3, <1>a, <1>b, <1>e, WritingReporting
  <2>4. CASE Report("event", "lost", 0)
    BY <2>1, <2>4, <1>a, <1>b, <1>e, Reporting
  <2>5. CASE UNCHANGED <<row, tail>>
    BY <2>1, <2>5, <1>d
  <2> QED
    BY <1>17, <2>3, <2>4, <2>5 DEF HeartbeatTimeout
<1>18. ASSUME NEW e \in Executor, Register(e) PROVE Serial' /\ Messages'
  <2>1. Presence(e) \in HeartbeatMessage
    BY DEF Presence, HeartbeatMessage, IInv, Work
  <2>2. UNCHANGED <<outbox, ended>>
    BY <1>18 DEF Register
  <2>3. CASE HandleHeartbeat(e, Presence(e))
    BY <2>1, <2>2, <2>3, <1>a, <1>e, HandlingHeartbeat
  <2> QED
    BY <1>18, <2>2, <2>3, <1>d DEF Register
<1>19. ASSUME NEW e \in Executor, Flush(e) PROVE Serial' /\ Messages'
  <2> DEFINE m == Head(outbox[e])
  <2>1. outbox[e] \in Seq(FromWorker) /\ outbox[e] # <<>>
    BY <1>19, <1>a DEF Flush, OutboxFacts
  <2>2. m = outbox[e][1] /\ 1 \in 1..Len(outbox[e]) /\ m \in FromWorker
    BY <2>1
  <2>3. MessageFact(ended, e, m)
    BY <2>2, <1>a DEF OutboxFacts
  <2>4. ended' = ended /\ outbox' = [outbox EXCEPT ![e] = Tail(@)]
    BY <1>19 DEF Flush, counts
  <2>5. SerialFacts(ended, row', tail')
    <3>1. Handle(e, m) \/ UNCHANGED <<row, tail>>
      BY <1>19 DEF Flush
    <3> QED
      BY <3>1, <2>2, <2>3, <1>a, HandlingMessage
  <2>6. /\ Tail(outbox[e]) \in Seq(FromWorker) /\ Len(Tail(outbox[e])) = Len(outbox[e]) - 1
        /\ \A i \in 1..Len(Tail(outbox[e])) :
             Tail(outbox[e])[i] = outbox[e][i + 1] /\ i + 1 \in 1..Len(outbox[e])
    BY <2>1
  <2>7. OutboxFacts(ended, outbox')
    BY <2>4, <2>6, <1>a DEF OutboxFacts
  <2> QED
    BY <2>4, <2>5, <2>7
<1>20. ASSUME NEW e \in Executor, Crash(e) PROVE Serial' /\ Messages'
  <2>1. UNCHANGED <<row, tail, ended>> /\ outbox' = [outbox EXCEPT ![e] = <<>>]
    BY <1>20 DEF Crash, server
  <2>2. OutboxFacts(ended, outbox')
    BY <2>1, <1>a DEF OutboxFacts
  <2> QED
    BY <2>1, <2>2, <1>a
<1>21. CASE UNCHANGED vars
  BY <1>21, <1>d DEF vars
<1> QED
  BY <1>1, <1>2, <1>3, <1>4, <1>5, <1>6, <1>7, <1>8, <1>9, <1>10, <1>11, <1>12, <1>13, <1>14,
     <1>15, <1>16, <1>17, <1>18, <1>19, <1>20, <1>21
  DEF Next, ServerStep, User, Worker, Connection
-----------------------------------------------------------------------------
\* What the server keeps besides the row, the connections and the counts.
LEMMA NetworkStep == IInv /\ [Next]_vars => Network'
<1> SUFFICES ASSUME IInv, [Next]_vars PROVE Network'
  OBVIOUS
<1> USE DEF Network
<1>a. /\ row \in Row /\ row.exec \in Executor /\ row.key \in Key /\ row.seq \in Seqno
      /\ ended \subseteq Ends
  BY RowFields DEF IInv, Serial, SerialFacts, Seqno
<1>b. \A e \in Executor, b \in BOOLEAN :
        Sending(e, row, b) \in [to : Executor, key : Key, seq : Seqno, open : BOOLEAN]
  BY <1>a DEF Sending
<1>c. \A e \in Executor, m \in FromServer : Deliver(e, m) => down' \in [Executor -> Seq(FromServer)]
  BY DEF Deliver, IInv
<1>1. CASE SyncWrite
  BY <1>1 DEF SyncWrite, NoteReopened, network, counts, IInv
<1>2. CASE Reclaim
  BY <1>2 DEF Reclaim, network, counts, IInv
<1>3. CASE Pick
  BY <1>3, <1>a DEF Pick, network, counts, IInv
<1>4. CASE Claim
  <2>1. sends' = sends \/ \E e \in pass : sends' = {Sending(e, row, FALSE)}
    BY <1>4 DEF Claim
  <2>2. sends' \subseteq [to : Executor, key : Key, seq : Seqno, open : BOOLEAN]
    <3>1. \A e \in pass : e \in Executor
      BY DEF IInv
    <3>2. sends \subseteq [to : Executor, key : Key, seq : Seqno, open : BOOLEAN]
      BY DEF IInv
    <3> QED
      BY <2>1, <3>1, <3>2, <1>b, Zenon
  <2> QED
    BY <1>4, <2>2 DEF Claim, network, counts, IInv
<1>5. ASSUME NEW e \in Executor, Assign(e) \/ Takeover(e) PROVE Network'
  <2>1. Assign(e) => Network'
    BY DEF Assign, Request, network, IInv
  <2>2. Takeover(e) => Network'
    BY DEF Takeover, Request, network, IInv
  <2> QED
    BY <1>5, <2>1, <2>2
<1>6. CASE Retry
  BY <1>6 DEF Retry, Request, network, IInv
<1>7. CASE Cancel
  <2>1. [type |-> "cancel"] \in FromServer
    BY DEF FromServer
  <2>2. down' \in [Executor -> Seq(FromServer)]
    BY <1>7, <2>1, <1>a, <1>c DEF Cancel, IInv
  <2> QED
    BY <1>7, <2>2 DEF Cancel, Request, IInv
<1>8. ASSUME NEW s \in sends, Send(s) PROVE Network'
  <2>1. s.to \in Executor /\ Assignment(s) \in FromServer
    BY DEF Assignment, FromServer, IInv
  <2>2. down' \in [Executor -> Seq(FromServer)]
    BY <1>8, <2>1, <1>c DEF Send, IInv
  <2> QED
    BY <1>8, <2>2 DEF Send, NoteReopened, counts, IInv
<1>9. ASSUME NEW x \in live, Emit(x) PROVE Network'
  BY <1>9 DEF Emit, counts, IInv
<1>10. ASSUME NEW x \in live, Finish(x) PROVE Network'
  <2>1. x.at \in Executor /\ x.key \in Key
    BY DEF IInv, Work, Runs
  <2>2. PICK status \in Outcome :
          ended' = ended \cup {[at |-> x.at, key |-> x.key, status |-> status]}
    BY <1>10 DEF Finish
  <2>3. ended' \subseteq Ends
    BY <2>1, <2>2, <1>a DEF Ends
  <2> QED
    BY <1>10, <2>3 DEF Finish, counts, IInv
<1>11. ASSUME NEW e \in Executor, ReceiveAssign(e) PROVE Network'
  <2>1. Tail(down[e]) \in Seq(FromServer)
    BY <1>11 DEF ReceiveAssign, IInv
  <2>2. starts' \in Nat
    BY <1>11 DEF ReceiveAssign, Begin, IInv
  <2> QED
    BY <1>11, <2>1, <2>2 DEF ReceiveAssign, IInv
<1>12. ASSUME NEW e \in Executor, ReceiveCancel(e) PROVE Network'
  <2>1. Tail(down[e]) \in Seq(FromServer)
    BY <1>12 DEF ReceiveCancel, IInv
  <2> QED
    BY <1>12, <2>1 DEF ReceiveCancel, counts, IInv
<1>13. ASSUME NEW e \in Executor, Heartbeat(e) PROVE Network'
  BY <1>13 DEF Heartbeat, counts, IInv
<1>14. ASSUME NEW e \in Executor, Start(e) PROVE Network'
  BY <1>14 DEF Start, Begin, server, network, IInv
<1>15. ASSUME NEW e \in Executor, Break(e) PROVE Network'
  <2>1. <<>> \in Seq(FromServer)
    OBVIOUS
  <2> QED
    BY <1>15, <2>1 DEF Break, Strike, server, IInv
<1>16. ASSUME NEW e \in Executor, WorkerNotices(e) \/ ServerNotices(e) \/ HeartbeatTimeout(e)
       PROVE  Network'
  BY <1>16 DEF WorkerNotices, ServerNotices, HeartbeatTimeout, server, network, counts, IInv
<1>17. ASSUME NEW e \in Executor, Connect(e) PROVE Network'
  <2>1. sends' \subseteq sends \cup {Sending(e, row, TRUE)}
    BY <1>17 DEF Connect
  <2>2. sends' \subseteq [to : Executor, key : Key, seq : Seqno, open : BOOLEAN]
    <3>1. sends \subseteq [to : Executor, key : Key, seq : Seqno, open : BOOLEAN]
      BY DEF IInv
    <3> QED
      BY <2>1, <3>1, <1>b, Zenon
  <2>3. damage' \in BOOLEAN
    BY <1>17 DEF Connect, Forgotten, IInv
  <2> QED
    BY <1>17, <2>2, <2>3 DEF Connect, counts, IInv
<1>18. ASSUME NEW e \in Executor, Register(e) \/ Flush(e) PROVE Network'
  BY <1>18 DEF Register, Flush, counts, IInv
<1>19. ASSUME NEW e \in Executor, Crash(e) PROVE Network'
  <2>1. <<>> \in Seq(FromServer)
    OBVIOUS
  <2> QED
    BY <1>19, <2>1 DEF Crash, Strike, server, IInv
<1>20. CASE UNCHANGED vars
  BY <1>20 DEF vars, IInv
<1> QED
  BY <1>1, <1>2, <1>3, <1>4, <1>5, <1>6, <1>7, <1>8, <1>9, <1>10, <1>11, <1>12, <1>13, <1>14,
     <1>15, <1>16, <1>17, <1>18, <1>19, <1>20
  DEF Next, ServerStep, User, Worker, Connection

\* The worker's queue: an execution that is alive is in runningTaskIds, and one
\* begins only when the worker has none.
LEMMA Beginning ==
    ASSUME IInv, NEW e \in Executor, NEW task \in Task, local[e] # "running", Begin(e, task),
           held' \in [Executor -> Task \cup {NoTask}],
           \A f \in Executor : f # e => held'[f] = held[f]
    PROVE  Work'
<1> USE DEF Work
<1>1. Execution(e, task) \in Runs /\ Execution(e, task).at = e
  BY DEF Execution, Runs, Task, Step
<1>2. live \subseteq Runs /\ \A x \in live : x.at \in Executor /\ x.at # e
  BY DEF IInv, Runs
<1>3. /\ live' = live \cup {Execution(e, task)}
      /\ local' = [local EXCEPT ![e] = "running"]
  BY DEF Begin
<1>4. OneExecution'
  BY <1>1, <1>2, <1>3 DEF OneExecution, IInv
<1>5. \A x \in live' : local'[x.at] = "running"
  BY <1>1, <1>2, <1>3 DEF IInv
<1> QED
  BY <1>1, <1>2, <1>3, <1>4, <1>5 DEF IInv

LEMMA WorkStep == IInv /\ [Next]_vars => Work'
<1> SUFFICES ASSUME IInv, [Next]_vars PROVE Work'
  OBVIOUS
<1> USE DEF Work
<1>a. ASSUME UNCHANGED worker PROVE Work'
  BY <1>a DEF worker, OneExecution, IInv
<1>b. live \subseteq Runs /\ \A x \in live : x.at \in Executor /\ local[x.at] = "running"
  BY DEF IInv, Runs
\* A worker whose task is taken from it, with its executions.
<1>c. ASSUME NEW e \in Executor, held' = [held EXCEPT ![e] = NoTask],
             local' = [local EXCEPT ![e] = "none"], live' = {x \in live : x.at # e}
      PROVE  Work'
  BY <1>b, <1>c DEF OneExecution, IInv
<1>1. CASE SyncWrite \/ Reclaim \/ Pick \/ Claim \/ Retry \/ Cancel
  BY <1>1, <1>a DEF SyncWrite, Reclaim, Pick, Claim, Retry, Cancel
<1>2. ASSUME NEW e \in Executor, Assign(e) \/ Takeover(e) \/ Heartbeat(e) \/ Break(e)
             \/ WorkerNotices(e) \/ ServerNotices(e) \/ HeartbeatTimeout(e) \/ Connect(e)
             \/ Register(e) \/ Flush(e)
      PROVE  Work'
  BY <1>2, <1>a DEF Assign, Takeover, Heartbeat, Break, WorkerNotices, ServerNotices,
     HeartbeatTimeout, Connect, Register, Flush
<1>3. ASSUME NEW s \in sends, Send(s) PROVE Work'
  BY <1>3, <1>a DEF Send
<1>4. ASSUME NEW x \in live, Emit(x) PROVE Work'
  <2> DEFINE y == [x EXCEPT !.seq = @ + 1, !.step = @ + 1]
  <2>1. x \in Runs /\ x.step < Step
    BY <1>4 DEF IInv, Emit
  <2>2. y \in Runs /\ y.at = x.at
    <3>1. x.seq + 1 \in Nat /\ x.step + 1 \in 0..2
      BY <2>1 DEF Runs, Step, Seqno
    <3>2. y = [x EXCEPT !.seq = x.seq + 1, !.step = x.step + 1]
      BY <2>1 DEF Runs
    <3> HIDE DEF y
    <3> QED
      BY <2>1, <3>1, <3>2 DEF Runs, Step, Seqno
  <2>3. live' = (live \ {x}) \cup {y} /\ UNCHANGED <<held, local>>
    BY <1>4 DEF Emit
  <2> HIDE DEF y
  <2>4. OneExecution'
    BY <2>2, <2>3 DEF OneExecution, IInv
  <2> QED
    BY <2>2, <2>3, <2>4, <1>b DEF IInv
<1>5. ASSUME NEW x \in live, Finish(x) PROVE Work'
  <2>1. live' = {y \in live : y.at # x.at}
    BY <1>5 DEF Finish, OneExecution, IInv
  <2> QED
    BY <1>5, <1>b, <1>c, <2>1 DEF Finish
<1>6. ASSUME NEW e \in Executor, ReceiveAssign(e) PROVE Work'
  <2> DEFINE task == [key |-> Head(down[e]).key, base |-> Head(down[e]).base]
  <2>1. down[e] \in Seq(FromServer) /\ down[e] # <<>> /\ Head(down[e]).type = "assign"
    BY <1>6 DEF ReceiveAssign, IInv, Network
  <2>2. Head(down[e]) \in FromServer
    BY <2>1
  <2>3. task \in Task
    BY <2>1, <2>2 DEF FromServer, Task
  <2>4. held' = [held EXCEPT ![e] = task]
    BY <1>6 DEF ReceiveAssign
  <2>5. held' \in [Executor -> Task \cup {NoTask}] /\ held'[e] \in Task
        /\ \A f \in Executor : f # e => held'[f] = held[f]
    BY <2>3, <2>4 DEF IInv
  <2>6. CASE UNCHANGED <<local, live>>
    BY <2>5, <2>6 DEF OneExecution, IInv
  <2>7. CASE local[e] = "none" /\ Begin(e, task)
    <3> HIDE DEF task
    <3> QED
      BY <2>3, <2>5, <2>7, Beginning
  <2>8. CASE local[e] = "none" /\ local' = [local EXCEPT ![e] = "queued"] /\ UNCHANGED live
    BY <2>5, <2>8, <1>b DEF OneExecution, IInv
  <2>9. \/ UNCHANGED <<local, live>>
        \/ local[e] = "none" /\ Begin(e, task)
        \/ local[e] = "none" /\ local' = [local EXCEPT ![e] = "queued"] /\ UNCHANGED live
    BY <1>6 DEF ReceiveAssign, Known
  <2> QED
    BY <2>6, <2>7, <2>8, <2>9
<1>7. ASSUME NEW e \in Executor, ReceiveCancel(e) PROVE Work'
  BY <1>7, <1>c DEF ReceiveCancel
<1>8. ASSUME NEW e \in Executor, Start(e) PROVE Work'
  <2>1. local[e] = "queued" /\ held[e] \in Task /\ Begin(e, held[e]) /\ held' = held
    BY <1>8 DEF Start, IInv
  <2> QED
    BY <2>1, Beginning DEF IInv
<1>9. ASSUME NEW e \in Executor, Crash(e) PROVE Work'
  BY <1>9, <1>c DEF Crash
<1>10. CASE UNCHANGED vars
  BY <1>10, <1>a DEF vars, worker
<1> QED
  BY <1>1, <1>2, <1>3, <1>4, <1>5, <1>6, <1>7, <1>8, <1>9, <1>10
  DEF Next, ServerStep, User, Worker, Connection
-----------------------------------------------------------------------------
LEMMA Initially == Init => IInv
<1> SUFFICES ASSUME Init PROVE IInv
  OBVIOUS
<1>1. row \in Row /\ Fact(ended, row)
  BY DispatchAssumption DEF DispatchAssumption, Init, Row, Status, Key, Seqno, Fact
<1>2. TailFacts(ended, tail)
  BY DEF Init, TailFacts
<1>3. Messages
  BY DEF Init, Messages, OutboxFacts
<1>4. Network
  <2>1. /\ conn \in [Executor -> {"down", "open", "ready"}]
        /\ down \in [Executor -> Seq(FromServer)]
    BY DEF Init
  <2>2. /\ requests \in Nat /\ starts \in Nat /\ faults \in Nat
        /\ sock \subseteq Executor /\ stale \subseteq Executor /\ link \subseteq Executor
        /\ pass \subseteq Executor /\ damage \in BOOLEAN
    BY DEF Init
  <2>3. sends = {} /\ ended = {}
    BY DEF Init
  <2> QED
    BY <2>1, <2>2, <2>3 DEF Network
<1>5. Work
  BY DEF Init, Work, OneExecution
<1> QED
  BY <1>1, <1>2, <1>3, <1>4, <1>5 DEF IInv, Serial, SerialFacts

LEMMA Invariant == Spec => []IInv
<1>1. IInv /\ [Next]_vars => IInv'
  BY SerialStep, NetworkStep, WorkStep DEF IInv
<1> QED
  BY Initially, <1>1, PTL DEF Spec

\* Every variable stays in its type, for any executors and bounds.
THEOREM TypeCorrect == Spec => []TypeOK
<1>1. IInv => TypeOK
  BY DEF IInv, Serial, SerialFacts, TailFacts, Messages, OutboxFacts, Network, Work, TypeOK
<1> QED
  BY <1>1, Invariant, PTL

\* A worker executes the task once at a time, whatever the server sends it and
\* however often it does: assignments repeated by claims, by connections and
\* under new keys find the task in the worker's queue (task.ts:27-43).
THEOREM ExecutesOnce == Spec => []OneExecution
<1>1. IInv => OneExecution
  BY DEF IInv, Work
<1> QED
  BY <1>1, Invariant, PTL

\* A task that is completed or failed says how an execution by its own executor
\* and under its own key ended, for any number of runs, faults and requests
\* (task-sync.ts:268-424).
THEOREM ResultsAreTrue == Spec => []ResultFromRun
<1>1. IInv => ResultFromRun
  BY DEF IInv, Serial, SerialFacts, Fact, ResultFromRun
<1> QED
  BY <1>1, Invariant, PTL
-----------------------------------------------------------------------------
(***************************************************************************)
(* The refinement.  A step that changes what an executor runs leaves the   *)
(* row alone, and every other step records an end that happened.           *)
(***************************************************************************)
LEMMA SamePromise ==
    ASSUME IInv, IInv', RunningKeys' = RunningKeys, ended' = ended
    PROVE  [Promise!Next]_(Promise!vars)
<1>1. CASE row'.status \in {"completed", "failed"}
  <2>1. Recorded' = {[at |-> row'.exec, key |-> row'.key, status |-> row'.status]}
    BY <1>1 DEF Recorded
  <2>2. [at |-> row'.exec, key |-> row'.key, status |-> row'.status] \in ended
    BY <1>1 DEF IInv, Serial, SerialFacts, Fact
  <2>3. Promise!Record
    BY <2>1, <2>2 DEF Promise!Record
  <2> QED
    BY <2>3 DEF Promise!Next
<1>2. CASE row'.status \notin {"completed", "failed"}
  <2>1. Recorded' = {}
    BY <1>2 DEF Recorded
  <2>2. Promise!Reopen
    BY <2>1 DEF Promise!Reopen
  <2> QED
    BY <2>2 DEF Promise!Next
<1> QED
  BY <1>1, <1>2

LEMMA SameRow ==
    /\ \A e, k : Transmit(e, Ack(k)) => row' = row
    /\ \A e, k, n, s, b : Transmit(e, Result(k, n, s, b)) => row' = row
<1>1. ASSUME NEW e, NEW m, m.type \in {"ack", "result"}, Handle(e, m) PROVE row' = row
  <2>1. HandleAck(e, m) \/ HandleResult(e, m)
    BY <1>1 DEF Handle
  <2> QED
    BY <2>1 DEF HandleAck, HandleResult, Write
<1>2. \A e, m : m.type \in {"ack", "result"} /\ Transmit(e, m) => row' = row
  BY <1>1 DEF Transmit
<1> QED
  BY <1>2 DEF Ack, Result

\* An execution that begins at an executor where none is alive.
LEMMA BeginPromised ==
    ASSUME IInv, NEW e \in Executor, NEW task \in Task, local[e] # "running", Begin(e, task),
           row' = row, ended' = ended
    PROVE  Promise!Begin(e)
<1>1. \A x \in live : x.at # e
  BY DEF IInv, Work
<1>2. live' = live \cup {Execution(e, task)}
  BY DEF Begin
<1>3. Execution(e, task).at = e /\ Execution(e, task).key = task.key /\ task.key \in Key
  BY DEF Execution, Task
<1>4. RunningKeys[e] = {}
  BY <1>1 DEF RunningKeys
<1>5. RunningKeys' = [RunningKeys EXCEPT ![e] = {task.key}]
  <2>1. \A f \in Executor \ {e} : {x.key : x \in {y \in live' : y.at = f}}
                                   = {x.key : x \in {y \in live : y.at = f}}
    BY <1>2, <1>3
  <2>2. {x.key : x \in {y \in live' : y.at = e}} = {task.key}
    BY <1>1, <1>2, <1>3
  <2> QED
    BY <2>1, <2>2 DEF RunningKeys
<1>6. Recorded' = Recorded
  BY DEF Recorded
<1>7. RunningKeys'[e] = {task.key}
  BY <1>5 DEF RunningKeys
<1> QED
  BY <1>3, <1>4, <1>5, <1>6, <1>7 DEF Promise!Begin

\* Executions that are taken from an executor.
LEMMA StopPromised ==
    ASSUME NEW e \in Executor, live' = {x \in live : x.at # e}
    PROVE  RunningKeys' = [RunningKeys EXCEPT ![e] = {}]
<1>1. \A f \in Executor \ {e} : {x.key : x \in {y \in live' : y.at = f}}
                                 = {x.key : x \in {y \in live : y.at = f}}
  OBVIOUS
<1>2. {x.key : x \in {y \in live' : y.at = e}} = {}
  OBVIOUS
<1> QED
  BY <1>1, <1>2 DEF RunningKeys

LEMMA PromiseStep == IInv /\ IInv' /\ [Next]_vars => [Promise!Next]_(Promise!vars)
<1> SUFFICES ASSUME IInv, IInv', [Next]_vars PROVE [Promise!Next]_(Promise!vars)
  OBVIOUS
<1>a. ASSUME UNCHANGED <<live, ended>> PROVE [Promise!Next]_(Promise!vars)
  <2>1. RunningKeys' = RunningKeys
    BY <1>a DEF RunningKeys
  <2> QED
    BY <2>1, <1>a, SamePromise
<1>b. ASSUME NEW e \in Executor, row' = row, ended' = ended, live' = {x \in live : x.at # e}
      PROVE  [Promise!Next]_(Promise!vars)
  <2>1. RunningKeys' = [RunningKeys EXCEPT ![e] = {}]
    BY <1>b, StopPromised
  <2>2. Recorded' = Recorded
    BY <1>b DEF Recorded
  <2> QED
    BY <2>1, <2>2, <1>b DEF Promise!Next, Promise!Stop
<1>1. CASE SyncWrite \/ Reclaim \/ Pick \/ Claim \/ Retry \/ Cancel
  BY <1>1, <1>a DEF SyncWrite, Reclaim, Pick, Claim, Retry, Cancel, worker
<1>2. ASSUME NEW e \in Executor, Assign(e) \/ Takeover(e) \/ Heartbeat(e) \/ Break(e)
             \/ WorkerNotices(e) \/ ServerNotices(e) \/ HeartbeatTimeout(e) \/ Connect(e)
             \/ Register(e) \/ Flush(e)
      PROVE  [Promise!Next]_(Promise!vars)
  BY <1>2, <1>a DEF Assign, Takeover, Heartbeat, Break, WorkerNotices, ServerNotices,
     HeartbeatTimeout, Connect, Register, Flush, worker
<1>3. ASSUME NEW s \in sends, Send(s) PROVE [Promise!Next]_(Promise!vars)
  BY <1>3, <1>a DEF Send, worker
<1>4. ASSUME NEW x \in live, Emit(x) PROVE [Promise!Next]_(Promise!vars)
  <2> DEFINE z == [x EXCEPT !.seq = @ + 1, !.step = @ + 1]
  <2>1. x \in Runs
    BY DEF IInv, Work
  <2>2. z.at = x.at /\ z.key = x.key
    BY <2>1 DEF Runs
  <2>3. live' = (live \ {x}) \cup {z} /\ ended' = ended
    BY <1>4 DEF Emit, counts
  <2> HIDE DEF z
  <2>4. \A e \in Executor : {v.key : v \in {y \in live' : y.at = e}}
                             = {v.key : v \in {y \in live : y.at = e}}
    BY <2>2, <2>3
  <2>5. RunningKeys' = RunningKeys
    BY <2>4 DEF RunningKeys
  <2> QED
    BY <2>3, <2>5, SamePromise
<1>5. ASSUME NEW x \in live, Finish(x) PROVE [Promise!Next]_(Promise!vars)
  <2>1. x.at \in Executor /\ x.key \in RunningKeys[x.at]
    BY DEF IInv, Work, Runs, RunningKeys
  <2>2. PICK status \in Outcome :
          /\ ended' = ended \cup {[at |-> x.at, key |-> x.key, status |-> status]}
          /\ Transmit(x.at, Result(KeyOf(x), x.seq + 1, status, 0))
    BY <1>5 DEF Finish
  <2>3. live' = {y \in live : y.at # x.at}
    BY <1>5 DEF Finish, OneExecution, IInv, Work
  <2>4. RunningKeys' = [RunningKeys EXCEPT ![x.at] = {}]
    BY <2>1, <2>3, StopPromised
  <2>5. Recorded' = Recorded
    BY <2>2, SameRow DEF Recorded
  <2>6. Promise!End(x.at)
    BY <2>1, <2>2, <2>4, <2>5 DEF Promise!End
  <2> QED
    BY <2>1, <2>6 DEF Promise!Next
<1>6. ASSUME NEW e \in Executor, ReceiveAssign(e) PROVE [Promise!Next]_(Promise!vars)
  <2> DEFINE task == [key |-> Head(down[e]).key, base |-> Head(down[e]).base]
  <2>1. down[e] \in Seq(FromServer) /\ down[e] # <<>> /\ Head(down[e]).type = "assign"
    BY <1>6 DEF ReceiveAssign, IInv, Network
  <2>2. Head(down[e]) \in FromServer
    BY <2>1
  <2>3. task \in Task
    BY <2>1, <2>2 DEF FromServer, Task
  <2>4. ended' = ended
    BY <1>6 DEF ReceiveAssign
  <2>5. CASE UNCHANGED live
    BY <2>4, <2>5, <1>a
  <2>6. CASE local[e] = "none" /\ Transmit(e, Ack(task.key)) /\ Begin(e, task)
    <3>1. row' = row
      BY <2>6, SameRow
    <3> HIDE DEF task
    <3>2. Promise!Begin(e)
      BY <3>1, <2>3, <2>4, <2>6, BeginPromised
    <3> QED
      BY <3>2 DEF Promise!Next
  <2> QED
    BY <1>6, <2>5, <2>6 DEF ReceiveAssign, Known
<1>7. ASSUME NEW e \in Executor, ReceiveCancel(e) PROVE [Promise!Next]_(Promise!vars)
  <2>1. row' = row
    BY <1>7, SameRow DEF ReceiveCancel
  <2> QED
    BY <1>7, <2>1, <1>b DEF ReceiveCancel
<1>8. ASSUME NEW e \in Executor, Start(e) PROVE [Promise!Next]_(Promise!vars)
  <2>1. local[e] = "queued" /\ Begin(e, held[e]) /\ row' = row /\ ended' = ended
    BY <1>8 DEF Start, server
  <2>2. held[e] \in Task
    BY <2>1 DEF IInv, Work
  <2>3. Promise!Begin(e)
    BY <2>1, <2>2, BeginPromised
  <2> QED
    BY <2>3 DEF Promise!Next
<1>9. ASSUME NEW e \in Executor, Crash(e) PROVE [Promise!Next]_(Promise!vars)
  BY <1>9, <1>b DEF Crash, server
<1>10. CASE UNCHANGED vars
  BY <1>10, <1>a DEF vars
<1> QED
  BY <1>1, <1>2, <1>3, <1>4, <1>5, <1>6, <1>7, <1>8, <1>9, <1>10
  DEF Next, ServerStep, User, Worker, Connection

\* The dispatch of a task implements TaskRuns: whatever is lost, repeated, taken
\* back or restarted, an executor's runs of the task follow one another, keep
\* their key, and the row records how one of them ended.
THEOREM Implements == Spec => KeepsPromise
<1>1. Init => Promise!Init
  <2> SUFFICES ASSUME Init PROVE Promise!Init
    OBVIOUS
  <2>1. RunningKeys = [e \in Executor |-> {}]
    BY DEF Init, RunningKeys
  <2>2. Recorded = {}
    BY DEF Init, Recorded
  <2> QED
    BY <2>1, <2>2 DEF Init, Promise!Init
<1> QED
  BY <1>1, PromiseStep, Invariant, PTL DEF Spec, KeepsPromise, Promise!Spec
=============================================================================
