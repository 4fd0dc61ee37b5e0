------------------------ MODULE TaskAttended_proofs ------------------------
(***************************************************************************)
(* A proof that a task users leave alone is always in somebody's hands     *)
(* (Attended of TaskDispatch), for any executors and any values of the     *)
(* bounds, until a second connection breaks or a second worker restarts.   *)
(*                                                                         *)
(* Attended says what is going to move the row, and cannot be proved by    *)
(* itself: an operation that waits may write the row over, an event may    *)
(* arrive late and make a result look old, and a message may be dropped.   *)
(* The invariant follows the task from hand to hand: the message that is   *)
(* prepared (sends), the one under way (down), the queue of the worker,    *)
(* its execution, and the result it waits for (Attending).  That whoever   *)
(* has the task will be heard needs that his result is numbered above      *)
(* every event that may still reach the row (Order).                       *)
(***************************************************************************)
EXTENDS TaskDispatch_proofs

\* What an operation says of the row, and what it is going to write.
Told(op) ==
    /\ op.row # NoRow =>
         op.row.exec = First /\ op.row.key = 1 /\ op.row.status = op.status
    /\ IF op.kind = "result" THEN op.seq > 0 /\ op.status \in Final
       ELSE /\ op.status \notin Final
            /\ op.status \in {"queued", "assigned", "lost"} => op.seq = 0

\* Only the first operation has read the row; unless the row was written since,
\* it lowers no event number.
Tidy(r, t) ==
    /\ r \in Row /\ r.exec = First /\ r.key = 1
    /\ t \in Seq(Ops) /\ \A i \in 1..Len(t) : Told(t[i])
    /\ \A i \in 2..Len(t) :
         IF t[i].kind = "result" THEN t[i].row \in Row ELSE t[i].row = NoRow
    /\ t # <<>> /\ t[1].row # NoRow =>
         IF t[1].kind = "result" THEN t[1].row.seq = t[1].seq
         ELSE t[1].over \/ t[1].row.seq >= r.seq

\* No event number of the row, or of an event that waits, is above m.
TailBelow(r, t, m) ==
    /\ r.seq <= m
    /\ \A i \in 1..Len(t) : t[i].kind # "result" =>
         t[i].seq <= m /\ (t[i].row # NoRow => t[i].row.seq <= m)

\* A result that is going to be written, unless the row is written before.
Pending(t, i) ==
    t[i].kind = "result" /\ ~t[i].over /\ (i = 1 => t[1].row # NoRow)
OutBelow(o, m) == \A i \in 1..Len(o) : o[i].type = "event" => o[i].seq <= m
Below(m) == TailBelow(row, tail, m) /\ OutBelow(outbox[First], m)

(***************************************************************************)
(* The task at its executor First: nobody else ever hears of it.           *)
(***************************************************************************)
Own == {x \in live : x.at = First}

Place ==
    /\ Tidy(row, tail) /\ pass \subseteq {First}
    /\ \A s \in sends : s.to = First /\ s.key = 1
    /\ \/ down[First] = <<>>
       \/ \E n \in Nat : down[First] = <<[type |-> "assign", key |-> 1, base |-> n]>>
    /\ IF local[First] = "none" THEN held[First] = NoTask
       ELSE held[First] \in Task /\ held[First].key = 1
    /\ local[First] = "running" <=> Own # {}
    /\ \A x \in Own : x.key = 1 /\ x.step <= x.seq
    /\ \A i \in 1..Len(outbox[First]) :
         /\ outbox[First][i].type \in {"event", "result"} /\ outbox[First][i].key = 1
         /\ outbox[First][i].type = "result" =>
              outbox[First][i].seq > 0 /\ outbox[First][i].status \in Outcome
    /\ First \in link => First \in sock /\ conn[First] # "down"
    /\ First \notin link => faults > 0 /\ down[First] = <<>>
    /\ faults = 0 => outbox[First] = <<>>

(***************************************************************************)
(* The event numbers an execution begins after: of the worker's execution  *)
(* or of the task in its queue, of the message under way to it, and of     *)
(* those that are being prepared.  They were taken from the row one after  *)
(* the other, and an execution reports two events after its own.           *)
(***************************************************************************)
Origin(x) == x.seq - x.step
Got   == {Origin(x) : x \in Own} \cup (IF local[First] = "queued" THEN {held[First].base} ELSE {})
Under == {down[First][i].base : i \in 1..Len(down[First])}
Sent  == {s.seq : s \in sends}

Ordered(G, U, S, n) ==
    /\ (G \cup U \cup S \cup {n}) \subseteq Nat
    /\ \A g, h \in G : g = h
    /\ \A g \in G : \A m \in U \cup S \cup {n} : g <= m
    /\ \A u \in U : \A m \in S \cup {n} : u <= m
    /\ \A s \in S : s <= n /\ \A m \in S : s = m

Order ==
    /\ Ordered(Got, Under, Sent, row.seq)
    /\ \A n \in Got \cup Under \cup Sent \cup {row.seq} : Below(n + 2)

(***************************************************************************)
(* Until the executor has come back, a claimed row stays claimed: what was *)
(* to queue it or assign it is out of date.                                *)
(***************************************************************************)
Low == tail # <<>> /\ tail[1].row # NoRow /\ tail[1].kind # "result" /\ tail[1].seq = 0 =>
    tail[1].row.seq <= row.seq

Claimed == faults = 0 \/ First \notin link =>
    /\ Low \/ (First \notin sock /\ pass = {} /\ sends = {})
    /\ \A s \in sends :
         /\ ~s.open /\ pass = {} /\ row.status \notin {"queued", "lost"}
         /\ row.status = "assigned" => row.seq = s.seq
         /\ \A i \in 1..Len(tail) :
              tail[i].status \in {"queued", "assigned", "lost"} => tail[i].over

\* A result that waits for the connection is the last word of the worker.
Kept == First \notin link =>
    \A i \in 1..Len(outbox[First]) : outbox[First][i].type = "result" =>
        /\ local[First] = "none" /\ conn[First] = "down"
        /\ Below(outbox[First][i].seq - 1)

\* A result that will be written, or that a later message makes superfluous.
Answer ==
    \/ \E i \in 1..Len(outbox[First]) :
         outbox[First][i].type = "result" /\ Below(outbox[First][i].seq - 1)
    \/ \E i \in 1..Len(tail) : Pending(tail, i) /\ Below(tail[i].seq - 1)

\* Nobody has the task, and nothing moves it but a lease, a claim or a user.
Quiet ==
    /\ outbox[First] = <<>>
    /\ \/ row.status \in {"queued", "lost"}
       \/ row.status \in {"assigned", "preparing"} /\ row.lease
    /\ tail # <<>> => row.status = "queued"
    /\ \A i \in 1..Len(tail) :
         tail[i].kind = "event" /\ tail[i].status = "queued" /\ tail[i].seq = 0

Attending == First \in link =>
    local[First] # "none" \/ down[First] # <<>> \/ sends # {} \/ Answer \/ Quiet

Alone == requests = 0 /\ faults <= 1 /\ ~damage /\ row.status \notin Final
Core == Place /\ Order /\ Claimed /\ Kept /\ Attending
AInv == Alone => Core
-----------------------------------------------------------------------------
LEMMA Begins ==
    ASSUME NEW r \in Row, r.exec = First, r.key = 1, NEW op \in Ops, Told(op),
           IF op.kind = "result" THEN op.row \in Row ELSE op.row = NoRow
    PROVE  /\ Begun(op, r) \in Ops /\ Told(Begun(op, r))
           /\ Begun(op, r).kind = op.kind /\ Begun(op, r).seq = op.seq
           /\ Begun(op, r).status = op.status /\ Begun(op, r).over = op.over
           /\ Begun(op, r).row # NoRow =>
                IF op.kind = "result" THEN Begun(op, r).row.seq = op.seq
                ELSE /\ Begun(op, r).row.seq >= r.seq
                     /\ Begun(op, r).row.seq \in {r.seq, op.seq}
                     /\ op.seq = 0 => Begun(op, r).row.seq = r.seq
           /\ op.kind = "result" /\ r.status \notin Final /\ op.seq > r.seq =>
                Begun(op, r).row # NoRow
<1>1. op.seq \in Nat /\ op.status \in Status /\ r.seq \in Nat
  BY RowFields DEF Ops, Seqno
<1>2. \A q \in Row \cup {NoRow} :
        /\ [op EXCEPT !.row = q] \in Ops
        /\ [op EXCEPT !.row = q].row = q
        /\ [op EXCEPT !.row = q].kind = op.kind
        /\ [op EXCEPT !.row = q].seq = op.seq
        /\ [op EXCEPT !.row = q].over = op.over
        /\ [op EXCEPT !.row = q].status = op.status
  BY DEF Ops
<1>3. \A q \in Row : q.exec = First /\ q.key = 1 /\ q.status = op.status
                     => Told([op EXCEPT !.row = q])
  BY <1>2 DEF Told
<1>4. Told([op EXCEPT !.row = NoRow])
  BY <1>2 DEF Told
<1>5. CASE op.kind = "result"
  <2> DEFINE n == IF op.seq # 0 THEN op.seq
                  ELSE IF op.row.seq # 0 THEN op.row.seq ELSE r.seq
             q == [op.row EXCEPT !.seq = n]
  <2>1. op.row \in Row /\ op.row # NoRow /\ op.seq > 0 /\ n = op.seq
    BY <1>5, <1>1, RowFields DEF Told
  <2>2. q \in Row /\ q.status = op.row.status /\ q.exec = op.row.exec
        /\ q.key = op.row.key /\ q.seq = op.seq /\ q # NoRow
    <3> HIDE DEF n
    <3>1. q \in Row
      BY <2>1, <1>1, RowUpdates
    <3> QED
      BY <2>1, <3>1, <1>1, RowFields DEF Row
  <2>3. q.exec = First /\ q.key = 1 /\ q.status = op.status
    BY <2>1, <2>2 DEF Told
  <2>4. Begun(op, r) = [op EXCEPT !.row = IF Acceptable(r, op.seq) THEN q ELSE NoRow]
    BY <1>5 DEF Begun
  <2>5. r.status \notin Final /\ op.seq > r.seq => Acceptable(r, op.seq)
    BY DEF Acceptable, Newer
  <2> HIDE DEF q
  <2>6. CASE Acceptable(r, op.seq)
    BY <2>2, <2>3, <2>4, <2>6, <1>2, <1>3, <1>5
  <2>7. CASE ~Acceptable(r, op.seq)
    BY <2>4, <2>5, <2>7, <1>2, <1>4, <1>5
  <2> QED
    BY <2>6, <2>7
<1>6. CASE op.kind # "result"
  <2> DEFINE n == IF op.seq # 0 THEN op.seq ELSE r.seq
             q == [r EXCEPT !.status = op.status, !.seq = n]
  <2>1. n \in Nat /\ n \in {r.seq, op.seq} /\ (op.seq = 0 => n = r.seq)
        /\ (Newer(r, op.seq) => n >= r.seq)
    BY <1>1 DEF Newer
  <2>2. q \in Row /\ q.status = op.status /\ q.exec = r.exec /\ q.key = r.key
        /\ q.seq = n /\ q # NoRow
    <3> HIDE DEF n
    <3>1. q \in Row
      BY <2>1, <1>1, RowUpdates DEF Row, Seqno
    <3> QED
      BY <2>1, <3>1, <1>1, RowFields DEF Row
  <2>3. Begun(op, r) = [op EXCEPT !.row = IF Newer(r, op.seq) THEN q ELSE NoRow]
    BY <1>6 DEF Begun
  <2> HIDE DEF q, n
  <2>4. CASE Newer(r, op.seq)
    BY <2>1, <2>2, <2>3, <2>4, <1>2, <1>3, <1>6
  <2>5. CASE ~Newer(r, op.seq)
    BY <2>3, <2>5, <1>2, <1>4, <1>6
  <2> QED
    BY <2>4, <2>5
<1> QED
  BY <1>5, <1>6

\* An operation that is called.
LEMMA Calls ==
    ASSUME NEW r, NEW t, Tidy(r, t), NEW op \in Ops, Told(op),
           IF op.kind = "result" THEN op.row \in Row ELSE op.row = NoRow
    PROVE  LET u == Enqueue(t, r, op)
           IN /\ Tidy(r, u) /\ Len(u) = Len(t) + 1
              /\ \A i \in 1..Len(t) : u[i] = t[i]
              /\ LET q == u[Len(t) + 1]
                 IN /\ q.kind = op.kind /\ q.seq = op.seq /\ q.status = op.status
                    /\ q.over = op.over
                    /\ t # <<>> => q.row = op.row
                    /\ op.kind # "result" /\ op.seq = 0 /\ q.row # NoRow =>
                         q.row.seq = r.seq
              /\ \A m \in Nat :
                   TailBelow(r, t, m) /\ (op.kind # "result" => op.seq <= m) => TailBelow(r, u, m)
              /\ op.kind = "result" /\ ~op.over /\ r.status \notin Final /\ op.seq > r.seq =>
                   Pending(u, Len(t) + 1)
<1> DEFINE u == Enqueue(t, r, op)
<1>1. t \in Seq(Ops) /\ Len(t) \in Nat /\ r \in Row /\ r.seq \in Nat /\ r.exec = First /\ r.key = 1
      /\ op.seq \in Nat /\ \A i \in 1..Len(t) : t[i] \in Ops /\ t[i].seq \in Nat
  <2>1. t \in Seq(Ops) /\ r \in Row /\ r.exec = First /\ r.key = 1
    BY DEF Tidy
  <2>2. \A o \in Ops : o.seq \in Nat
    BY DEF Ops, Seqno
  <2> QED
    BY <2>1, <2>2, RowFields
<1>2. CASE t = <<>>
  <2>1. u = <<Begun(op, r)>> /\ Len(t) = 0
    BY <1>2 DEF Enqueue
  <2> DEFINE b == Begun(op, r)
  <2>2. /\ b \in Ops /\ Told(b) /\ b.kind = op.kind /\ b.seq = op.seq
        /\ b.status = op.status /\ b.over = op.over
        /\ b.row # NoRow =>
             IF op.kind = "result" THEN b.row.seq = op.seq
             ELSE b.row.seq >= r.seq /\ b.row.seq \in {r.seq, op.seq}
                  /\ (op.seq = 0 => b.row.seq = r.seq)
        /\ op.kind = "result" /\ r.status \notin Final /\ op.seq > r.seq => b.row # NoRow
    BY <1>1, Begins
  <2> HIDE DEF b
  <2>3. u \in Seq(Ops) /\ Len(u) = 1 /\ u[1] = b
    BY <2>1, <2>2 DEF b
  <2>4. Tidy(r, u)
    BY <2>2, <2>3, <1>1 DEF Tidy
  <2>5. ASSUME NEW m \in Nat, TailBelow(r, t, m), op.kind # "result" => op.seq <= m
        PROVE  TailBelow(r, u, m)
    BY <2>2, <2>3, <2>5, <1>1 DEF TailBelow
  <2>6. op.kind = "result" /\ ~op.over /\ r.status \notin Final /\ op.seq > r.seq =>
          Pending(u, Len(t) + 1)
    BY <2>1, <2>2, <2>3 DEF Pending
  <2> HIDE DEF u
  <2> QED
    BY <2>1, <2>2, <2>3, <2>4, <2>5, <2>6, <1>2 DEF u
<1>3. CASE t # <<>>
  <2>1. u = Append(t, op)
    BY <1>3 DEF Enqueue
  <2>2. /\ u \in Seq(Ops) /\ Len(u) = Len(t) + 1
        /\ \A i \in 1..Len(t) : u[i] = t[i]
        /\ u[Len(t) + 1] = op /\ Len(t) > 0
    BY <2>1, <1>1, <1>3
  <2> HIDE DEF u
  <2>3. /\ \A i \in 1..Len(u) : (i \in 1..Len(t) /\ u[i] = t[i]) \/ u[i] = op
        /\ 1 \in 1..Len(t) /\ u # <<>>
        /\ \A i \in 2..Len(u) : (i \in 2..Len(t) /\ u[i] = t[i]) \/ u[i] = op
    BY <2>2, <1>1
  <2>4. Tidy(r, u)
    <3>1. \A i \in 1..Len(u) : Told(u[i])
      BY <2>3 DEF Tidy
    <3>2. \A i \in 2..Len(u) : IF u[i].kind = "result" THEN u[i].row \in Row ELSE u[i].row = NoRow
      BY <2>3 DEF Tidy
    <3>3. u[1].row # NoRow => IF u[1].kind = "result" THEN u[1].row.seq = u[1].seq
                              ELSE u[1].over \/ u[1].row.seq >= r.seq
      BY <2>2, <2>3, <1>3 DEF Tidy
    <3> QED
      BY <2>2, <3>1, <3>2, <3>3, <1>1 DEF Tidy
  <2>5. ASSUME NEW m \in Nat, TailBelow(r, t, m), op.kind # "result" => op.seq <= m
        PROVE  TailBelow(r, u, m)
    <3>1. ASSUME NEW i \in 1..Len(u), u[i].kind # "result"
          PROVE  u[i].seq <= m /\ (u[i].row # NoRow => u[i].row.seq <= m)
      BY <2>3, <2>5, <3>1 DEF TailBelow
    <3> QED
      BY <3>1, <2>5 DEF TailBelow
  <2>6. op.kind = "result" /\ ~op.over => Pending(u, Len(t) + 1)
    BY <2>2, <1>1 DEF Pending
  <2> QED
    BY <2>2, <2>4, <2>5, <2>6, <1>3 DEF u
<1> QED
  BY <1>2, <1>3

\* Another write of the row: what waits is older than it.
LEMMA Outdates ==
    ASSUME NEW r, NEW t, Tidy(r, t), NEW q \in Row, q.exec = First, q.key = 1
    PROVE  LET u == Overtaken(t)
           IN /\ Tidy(q, u) /\ Len(u) = Len(t)
              /\ \A i \in 1..Len(t) :
                   u[i].over /\ u[i].kind = t[i].kind /\ u[i].seq = t[i].seq
                   /\ u[i].status = t[i].status /\ u[i].row = t[i].row
              /\ \A m \in Nat : TailBelow(r, t, m) /\ q.seq <= m => TailBelow(q, u, m)
<1> DEFINE u == Overtaken(t)
<1>1. t \in Seq(Ops) /\ Len(t) \in Nat /\ \A i \in 1..Len(t) : t[i] \in Ops
  BY DEF Tidy
<1>2. \A op \in Ops : LET o == [op EXCEPT !.over = TRUE]
                      IN o \in Ops /\ o.over /\ o.kind = op.kind /\ o.seq = op.seq
                         /\ o.status = op.status /\ o.row = op.row
  BY DEF Ops
<1>3. u \in Seq(Ops) /\ Len(u) = Len(t) /\ \A i \in 1..Len(t) : u[i] = [t[i] EXCEPT !.over = TRUE]
  <2>1. u \in [1..Len(t) -> Ops]
    BY <1>1, <1>2 DEF Overtaken
  <2> QED
    BY <1>1, <2>1 DEF Overtaken
<1> HIDE DEF u
<1>4. \A i \in 1..Len(t) : u[i].over /\ u[i].kind = t[i].kind /\ u[i].seq = t[i].seq
                           /\ u[i].status = t[i].status /\ u[i].row = t[i].row
  BY <1>1, <1>2, <1>3
<1>5. \A i \in 1..Len(u) : Told(u[i])
  BY <1>3, <1>4 DEF Tidy, Told
<1>6. \A i \in 2..Len(u) : IF u[i].kind = "result" THEN u[i].row \in Row ELSE u[i].row = NoRow
  <2>1. \A i \in 2..Len(t) : i \in 1..Len(t)
    BY <1>1
  <2> QED
    BY <1>3, <1>4, <2>1 DEF Tidy
<1>7. u # <<>> /\ u[1].row # NoRow =>
         IF u[1].kind = "result" THEN u[1].row.seq = u[1].seq
         ELSE u[1].over \/ u[1].row.seq >= q.seq
  <2>1. u # <<>> => t # <<>> /\ 1 \in 1..Len(t)
    BY <1>1, <1>3
  <2> QED
    BY <1>4, <2>1 DEF Tidy
<1>8. \A m \in Nat : TailBelow(r, t, m) /\ q.seq <= m => TailBelow(q, u, m)
  BY <1>3, <1>4 DEF TailBelow
<1>9. Tidy(q, u)
  BY <1>3, <1>5, <1>6, <1>7 DEF Tidy
<1> QED
  BY <1>3, <1>4, <1>8, <1>9 DEF u

LEMMA Shortens ==
    ASSUME NEW S, NEW t \in Seq(S), Len(t) > 0, Len(t) # 1
    PROVE  /\ Tail(Tail(t)) \in Seq(S) /\ Len(Tail(Tail(t))) = Len(t) - 2
           /\ \A i \in 1..(Len(t) - 2) : Tail(Tail(t))[i] = t[i + 2]
<1> DEFINE v == Tail(Tail(t))
<1>1. Tail(t) \in Seq(S) /\ Len(Tail(t)) = Len(t) - 1
      /\ \A i \in 1..(Len(t) - 1) : Tail(t)[i] = t[i + 1]
  OBVIOUS
<1>2. v \in Seq(S) /\ Len(v) = Len(t) - 2 /\ \A i \in 1..(Len(t) - 2) : v[i] = t[i + 2]
  BY <1>1
<1> QED
  BY <1>2

\* The first operation is over, and the next one reads the row: the operations
\* t of the row r become u when the row is q.
Moved(r, t, q, u) ==
    /\ Tidy(q, u) /\ Len(u) = Len(t) - 1
    /\ \A i \in 1..Len(u) :
         /\ u[i].kind = t[i + 1].kind /\ u[i].seq = t[i + 1].seq
         /\ u[i].status = t[i + 1].status /\ u[i].over = t[i + 1].over
    /\ \A m \in Nat : TailBelow(r, t, m) /\ q.seq <= m => TailBelow(q, u, m)
    /\ \A i \in 2..Len(t) :
         Pending(t, i) /\ t[i].seq > q.seq => Pending(u, i - 1)
    /\ u # <<>> /\ u[1].row # NoRow /\ u[1].kind # "result" /\ u[1].seq = 0 =>
         u[1].row.seq = q.seq

LEMMA Proceeds ==
    ASSUME NEW r, NEW t, Tidy(r, t), t # <<>>, NEW q \in Row, q.exec = First, q.key = 1,
           q.status \notin Final
    PROVE  Moved(r, t, q, IF Len(t) = 1 THEN <<>> ELSE <<Begun(t[2], q)>> \o Tail(Tail(t)))
<1> DEFINE u == IF Len(t) = 1 THEN <<>> ELSE <<Begun(t[2], q)>> \o Tail(Tail(t))
<1>1. t \in Seq(Ops) /\ Len(t) \in Nat /\ Len(t) > 0 /\ \A i \in 1..Len(t) : t[i] \in Ops
  BY DEF Tidy
<1>2. q.seq \in Nat /\ \A o \in Ops : o.seq \in Nat
  BY RowFields DEF Ops, Seqno
<1>3. CASE Len(t) = 1
  <2>1. u = <<>>
    BY <1>3
  <2> HIDE DEF u
  <2>2. u \in Seq(Ops) /\ Len(u) = 0
    BY <2>1
  <2>3. Tidy(q, u)
    BY <2>1, <2>2 DEF Tidy
  <2>4. Moved(r, t, q, u)
    BY <1>1, <1>3, <2>1, <2>2, <2>3 DEF TailBelow, Moved
  <2> QED
    BY <2>4 DEF u
<1>4. CASE Len(t) # 1
  <2> DEFINE b == Begun(t[2], q)
             v == Tail(Tail(t))
  <2>1. Len(t) - 2 \in Nat /\ 2 \in 1..Len(t) /\ 2 \in 2..Len(t)
    <3>1. \A n \in Nat : n > 0 /\ n # 1 => n - 2 \in Nat /\ 2 \in 1..n /\ 2 \in 2..n
      OBVIOUS
    <3> QED
      BY <3>1, <1>1, <1>4
  <2>2. t[2] \in Ops /\ Told(t[2])
        /\ IF t[2].kind = "result" THEN t[2].row \in Row ELSE t[2].row = NoRow
    BY <2>1, <1>1 DEF Tidy
  <2>3. /\ b \in Ops /\ Told(b) /\ b.kind = t[2].kind /\ b.seq = t[2].seq
        /\ b.status = t[2].status /\ b.over = t[2].over
        /\ b.row # NoRow =>
             IF t[2].kind = "result" THEN b.row.seq = t[2].seq
             ELSE b.row.seq >= q.seq /\ b.row.seq \in {q.seq, t[2].seq}
                  /\ (t[2].seq = 0 => b.row.seq = q.seq)
        /\ t[2].kind = "result" /\ t[2].seq > q.seq => b.row # NoRow
    BY <2>2, Begins
  <2> HIDE DEF b
  <2>4. v \in Seq(Ops) /\ Len(v) = Len(t) - 2 /\ \A i \in 1..(Len(t) - 2) : v[i] = t[i + 2]
    BY <1>1, <1>4, Shortens
  <2> HIDE DEF v
  <2>6. /\ u \in Seq(Ops) /\ Len(u) = Len(t) - 1 /\ u[1] = b
        /\ \A i \in 2..(Len(t) - 1) : u[i] = t[i + 1]
    <3>1. u = <<b>> \o v
      BY <1>4 DEF b, v
    <3> HIDE DEF u
    <3> QED
      BY <3>1, <2>3, <2>4, <1>1, <1>4
  <2> HIDE DEF u
  <2>7. \A i \in 1..Len(u) : /\ i + 1 \in 2..Len(t) /\ i + 1 \in 1..Len(t)
                             /\ u[i].kind = t[i + 1].kind /\ u[i].seq = t[i + 1].seq
                             /\ u[i].status = t[i + 1].status /\ u[i].over = t[i + 1].over
                             /\ (i # 1 => u[i] = t[i + 1])
    BY <2>3, <2>6, <1>1, <1>4
  <2>8. Tidy(q, u)
    <3>1. \A i \in 1..Len(u) : Told(u[i])
      BY <2>3, <2>6, <2>7 DEF Tidy
    <3>2. \A i \in 2..Len(u) : IF u[i].kind = "result" THEN u[i].row \in Row ELSE u[i].row = NoRow
      <4>1. \A i \in 2..Len(u) : i \in 1..Len(u) /\ i # 1
        BY <2>6, <1>1
      <4> QED
        BY <2>7, <4>1 DEF Tidy
    <3>3. u[1].row # NoRow => IF u[1].kind = "result" THEN u[1].row.seq = u[1].seq
                              ELSE u[1].over \/ u[1].row.seq >= q.seq
      BY <2>3, <2>6
    <3> QED
      BY <2>6, <3>1, <3>2, <3>3 DEF Tidy
  <2>9. ASSUME NEW m \in Nat, TailBelow(r, t, m), q.seq <= m PROVE TailBelow(q, u, m)
    <3>1. ASSUME NEW i \in 1..Len(u), u[i].kind # "result"
          PROVE  u[i].seq <= m /\ (u[i].row # NoRow => u[i].row.seq <= m)
      <4>1. t[i + 1].seq <= m
        BY <2>7, <2>9, <3>1 DEF TailBelow
      <4>2. CASE i = 1
        BY <4>1, <4>2, <2>3, <2>6, <2>9, <3>1
      <4>3. CASE i # 1
        BY <4>1, <4>3, <2>7, <2>9, <3>1 DEF TailBelow
      <4> QED
        BY <4>2, <4>3
    <3> QED
      BY <3>1, <2>9 DEF TailBelow
  <2>10. ASSUME NEW i \in 2..Len(t), Pending(t, i), t[i].seq > q.seq PROVE Pending(u, i - 1)
    <3>1. t[i].kind = "result" /\ ~t[i].over
      BY <2>10 DEF Pending
    <3>2. i - 1 \in 1..Len(u) /\ (i - 1) + 1 = i
      BY <2>6, <1>1
    <3>3. u[i - 1].kind = "result" /\ ~u[i - 1].over
      BY <2>7, <3>1, <3>2
    <3>4. i - 1 = 1 => u[1].row # NoRow
      BY <2>3, <2>6, <2>10, <3>1, <3>2
    <3> QED
      BY <3>3, <3>4 DEF Pending
  <2>11. u[1].row # NoRow /\ u[1].kind # "result" /\ u[1].seq = 0 => u[1].row.seq = q.seq
    BY <2>3, <2>6
  <2>12. Moved(r, t, q, u)
    BY <2>6, <2>7, <2>8, <2>9, <2>10, <2>11 DEF Moved
  <2> QED
    BY <2>12 DEF u
<1> QED
  BY <1>3, <1>4

\* A write of the serializer that leaves the task open: event numbers do not fall,
\* and a result that was numbered above them is not the one that was written.
LEMMA Syncs ==
    ASSUME Tidy(row, tail), SyncWrite, row.status \notin Final, row'.status \notin Final
    PROVE  /\ Tidy(row', tail') /\ row'.seq >= row.seq
           /\ tail # <<>> /\ Len(tail') = Len(tail) - 1
           /\ \A i \in 1..Len(tail') :
                /\ tail'[i].kind = tail[i + 1].kind /\ tail'[i].seq = tail[i + 1].seq
                /\ tail'[i].status = tail[i + 1].status /\ tail'[i].over = tail[i + 1].over
           /\ \A m \in Nat : TailBelow(row, tail, m) => TailBelow(row', tail', m)
           /\ \A i \in 1..Len(tail) :
                Pending(tail, i) /\ TailBelow(row, tail, tail[i].seq - 1) =>
                  i - 1 \in 1..Len(tail') /\ Pending(tail', i - 1)
           /\ tail' # <<>> /\ tail'[1].row # NoRow /\ tail'[1].kind # "result"
              /\ tail'[1].seq = 0 => tail'[1].row.seq = row'.seq
           /\ \/ row' = row
              \/ /\ tail[1].row # NoRow /\ tail[1].kind # "result"
                 /\ row' = tail[1].row /\ row'.status = tail[1].status
                 /\ tail[1].over => row'.seq > row.seq
<1> DEFINE op == tail[1]
<1>1. tail \in Seq(Ops) /\ tail # <<>> /\ Len(tail) \in Nat /\ Len(tail) > 0 /\ 1 \in 1..Len(tail)
      /\ Head(tail) = op
  BY DEF Tidy, SyncWrite
<1>2. op \in Ops /\ Told(op) /\ (op.row # NoRow => op.row \in Row) /\ op.seq \in Nat
  <2>1. op \in Ops /\ Told(op)
    BY <1>1 DEF Tidy
  <2> QED
    BY <2>1 DEF Ops, Seqno
<1>3. row \in Row /\ row.seq \in Nat
  BY RowFields DEF Tidy
<1>4. op.row \in Row => op.row.seq \in Nat
  BY RowFields
<1>5. op.row # NoRow => IF op.kind = "result" THEN op.row.seq = op.seq
                        ELSE op.over \/ op.row.seq >= row.seq
  BY <1>1 DEF Tidy
<1>6. \/ op.row # NoRow /\ (op.over => op.row.seq > row.seq) /\ row' = op.row
      \/ op.row = NoRow /\ row' = row
      \/ /\ \/ op.over
            \/ op.kind = "report" \/ (op.kind = "event" /\ op.seq # 0)
            \/ op.row # NoRow /\ op.row.seq < row.seq
         /\ row' = row
  BY <1>1 DEF SyncWrite, Written
<1>7. \/ row' = row
      \/ /\ op.row # NoRow /\ op.kind # "result"
         /\ row' = op.row /\ row'.status = op.status
         /\ op.over => row'.seq > row.seq
  BY <1>2, <1>6 DEF Told
<1>8. row' \in Row /\ row'.exec = First /\ row'.key = 1 /\ row'.seq >= row.seq /\ row'.seq \in Nat
  BY <1>2, <1>3, <1>4, <1>5, <1>7 DEF Told, Tidy
<1>9. tail' = IF Len(tail) = 1 THEN <<>> ELSE <<Begun(tail[2], row')>> \o Tail(Tail(tail))
  BY DEF SyncWrite
<1>10. /\ Tidy(row', tail') /\ Len(tail') = Len(tail) - 1
       /\ \A i \in 1..Len(tail') :
            /\ tail'[i].kind = tail[i + 1].kind /\ tail'[i].seq = tail[i + 1].seq
            /\ tail'[i].status = tail[i + 1].status /\ tail'[i].over = tail[i + 1].over
       /\ \A m \in Nat : TailBelow(row, tail, m) /\ row'.seq <= m => TailBelow(row', tail', m)
       /\ \A i \in 2..Len(tail) :
            Pending(tail, i) /\ tail[i].seq > row'.seq => Pending(tail', i - 1)
       /\ tail' # <<>> /\ tail'[1].row # NoRow /\ tail'[1].kind # "result"
          /\ tail'[1].seq = 0 => tail'[1].row.seq = row'.seq
  <2>1. Moved(row, tail, row', tail')
    BY <1>1, <1>8, <1>9, Proceeds
  <2> QED
    BY <2>1 DEF Moved
<1>11. \A m \in Nat : TailBelow(row, tail, m) => row'.seq <= m
  BY <1>1, <1>7 DEF TailBelow
<1>12. ASSUME NEW i \in 1..Len(tail), Pending(tail, i), TailBelow(row, tail, tail[i].seq - 1)
       PROVE  i - 1 \in 1..Len(tail') /\ Pending(tail', i - 1)
  <2>1. tail[i].seq \in Nat /\ tail[i].seq > 0
    <3>1. tail[i] \in Ops /\ Told(tail[i])
      BY <1>1 DEF Tidy
    <3> QED
      BY <1>12, <3>1 DEF Told, Pending, Ops, Seqno
  <2>2. row.seq <= tail[i].seq - 1 /\ row'.seq <= tail[i].seq - 1
    <3>1. tail[i].seq - 1 \in Nat
      BY <2>1
    <3>2. row.seq <= tail[i].seq - 1
      BY <1>12 DEF TailBelow
    <3> QED
      BY <3>1, <3>2, <1>11, <1>12
  <2>3. i # 1
    <3> SUFFICES ASSUME i = 1 PROVE FALSE
      OBVIOUS
    <3>1. op.kind = "result" /\ ~op.over /\ op.row # NoRow
      BY <1>12 DEF Pending
    <3>2. op.row.seq = op.seq /\ op.row.seq > row.seq
      BY <3>1, <2>1, <2>2, <1>3, <1>5
    <3>3. row' = op.row /\ op.row.status \in Final
      BY <3>1, <3>2, <1>2, <1>3, <1>6 DEF Told
    <3> QED
      BY <3>3
  <2>4. i \in 2..Len(tail) /\ tail[i].seq > row'.seq /\ i - 1 \in 1..Len(tail')
    BY <2>1, <2>2, <2>3, <1>1, <1>8, <1>10
  <2> QED
    BY <2>4, <1>10, <1>12
<1> QED
  BY <1>1, <1>7, <1>8, <1>10, <1>11, <1>12

-----------------------------------------------------------------------------
(***************************************************************************)
(* What the types give, and what does not concern First.                   *)
(***************************************************************************)
LEMMA Typed ==
    ASSUME IInv, Place
    PROVE  /\ row \in Row /\ row.seq \in Nat /\ row.status \in Status
           /\ row.exec = First /\ row.key = 1 /\ First \in Executor
           /\ tail \in Seq(Ops) /\ Len(tail) \in Nat
           /\ \A i \in 1..Len(tail) : tail[i] \in Ops /\ tail[i].seq \in Nat
                /\ Told(tail[i]) /\ (tail[i].row # NoRow => tail[i].row.seq \in Nat)
           /\ outbox \in [Executor -> Seq(FromWorker)]
           /\ outbox[First] \in Seq(FromWorker) /\ Len(outbox[First]) \in Nat
           /\ \A i \in 1..Len(outbox[First]) :
                /\ outbox[First][i] \in FromWorker
                /\ outbox[First][i].type \in {"event", "result"}
                /\ outbox[First][i].key = 1 /\ outbox[First][i].seq \in Nat
           /\ \A x \in Own : x \in Runs /\ x \in live /\ x.at = First /\ x.key = 1
                /\ x.seq \in Nat /\ x.step \in Nat /\ Origin(x) \in Nat
           /\ \A x, y \in Own : x = y
           /\ local[First] \in {"none", "queued", "running"}
           /\ local[First] # "none" => held[First].base \in Nat
           /\ \A s \in sends : s.seq \in Nat
           /\ pass = {} \/ pass = {First}
<1>1. row \in Row /\ row.exec = First /\ row.key = 1 /\ First \in Executor /\ tail \in Seq(Ops)
  BY DispatchAssumption DEF DispatchAssumption, Place, Tidy
<1>2. row.seq \in Nat /\ row.status \in Status
  BY <1>1, RowFields
<1>3. ASSUME NEW i \in 1..Len(tail)
      PROVE  tail[i] \in Ops /\ tail[i].seq \in Nat /\ Told(tail[i])
             /\ (tail[i].row # NoRow => tail[i].row.seq \in Nat)
  <2>1. tail[i] \in Ops /\ Told(tail[i])
    BY <1>1 DEF Place, Tidy
  <2>2. tail[i].row # NoRow => tail[i].row \in Row
    BY <2>1 DEF Ops
  <2> QED
    BY <2>1, <2>2, RowFields DEF Ops, Seqno
<1>4. outbox \in [Executor -> Seq(FromWorker)] /\ outbox[First] \in Seq(FromWorker)
  BY <1>1 DEF IInv, Messages, OutboxFacts
<1>5. ASSUME NEW i \in 1..Len(outbox[First])
      PROVE  /\ outbox[First][i] \in FromWorker
             /\ outbox[First][i].type \in {"event", "result"}
             /\ outbox[First][i].key = 1 /\ outbox[First][i].seq \in Nat
  <2>1. outbox[First][i] \in FromWorker
    BY <1>4
  <2>2. outbox[First][i].type \in {"event", "result"} /\ outbox[First][i].key = 1
    BY DEF Place
  <2> QED
    BY <2>1, <2>2 DEF FromWorker, Seqno
<1>6. ASSUME NEW x \in Own
      PROVE  x \in Runs /\ x \in live /\ x.at = First /\ x.key = 1
             /\ x.seq \in Nat /\ x.step \in Nat /\ Origin(x) \in Nat
  <2>1. x \in Runs /\ x \in live /\ x.at = First
    BY DEF Own, IInv, Work
  <2>2. x.key = 1 /\ x.step <= x.seq
    BY DEF Place
  <2> QED
    BY <2>1, <2>2 DEF Runs, Seqno, Step, Origin
<1>7. \A x, y \in Own : x = y
  BY DEF Own, IInv, Work, OneExecution
<1>8. local[First] \in {"none", "queued", "running"}
  BY <1>1 DEF IInv, Work
<1>9. local[First] # "none" => held[First].base \in Nat
  BY DEF Place, Task, Seqno
<1>10. \A s \in sends : s.seq \in Nat
  BY DEF IInv, Network, Seqno
<1>11. pass = {} \/ pass = {First}
  BY DEF Place
<1> QED
  BY <1>1, <1>2, <1>3, <1>4, <1>5, <1>6, <1>7, <1>8, <1>9, <1>10, <1>11

LEMMA Rises ==
    ASSUME NEW G, NEW U, NEW S, NEW n \in Nat, NEW m \in Nat, m >= n, Ordered(G, U, S, n)
    PROVE  Ordered(G, U, S, m)
<1>1. (G \cup U \cup S) \subseteq Nat /\ \A k \in G \cup U \cup S : k <= n
  BY DEF Ordered
<1>2. \A k \in G \cup U \cup S : k <= m
  BY <1>1
<1> QED
  BY <1>1, <1>2 DEF Ordered

LEMMA Higher ==
    ASSUME IInv, Place, NEW m \in Int, NEW n \in Int, m <= n, Below(m)
    PROVE  Below(n)
<1>1. TailBelow(row, tail, n)
  BY Typed DEF Below, TailBelow
<1>2. OutBelow(outbox[First], n)
  BY Typed DEF Below, OutBelow
<1> QED
  BY <1>1, <1>2 DEF Below

\* The numbers stay in order when the bases are handed on, and nothing above the
\* two events of the oldest of them is reported.
LEMMA KeepsOrder ==
    ASSUME IInv, Place, Order, NEW n \in Nat,
           Ordered(Got', Under', Sent', row'.seq),
           (Got' \cup Under' \cup Sent') \subseteq (Got \cup Under \cup Sent \cup {row.seq}),
           row'.seq >= row.seq \/ row'.seq \in Sent,
           \A m \in Got' \cup Under' \cup Sent' \cup {row'.seq} : n <= m + 2,
           \A m \in Nat : Below(m) /\ n <= m => Below(m)'
    PROVE  Order'
<1>1. row.seq \in Nat /\ row'.seq \in Nat
      /\ (Got \cup Under \cup Sent) \subseteq Nat
  BY DEF Order, Ordered
<1>2. ASSUME NEW m \in Got \cup Under \cup Sent \cup {row.seq} PROVE m \in Nat /\ Below(m + 2)
  BY <1>1 DEF Order
<1>3. Below(row'.seq + 2)
  <2>1. CASE row'.seq \in Sent
    BY <1>2, <2>1
  <2>2. CASE row'.seq >= row.seq
    BY <1>1, <1>2, <2>2, Higher
  <2> QED
    BY <2>1, <2>2
<1>4. ASSUME NEW m \in Got' \cup Under' \cup Sent' \cup {row'.seq} PROVE Below(m + 2)'
  <2>1. m \in Nat /\ Below(m + 2) /\ n <= m + 2
    BY <1>1, <1>2, <1>3
  <2> QED
    BY <2>1
<1> QED
  BY <1>4 DEF Order

near == <<row, tail, pass, sends, First \in sock, First \in link, conn[First], down[First],
          held[First], local[First], Own, outbox[First]>>

\* What happens to the other executors.
LEMMA Elsewhere ==
    ASSUME Core, near' = near, faults' >= faults, faults \in Nat, faults' \in Nat,
           faults' # faults => First \in link
    PROVE  Core'
<1>1. /\ row' = row /\ tail' = tail /\ pass' = pass /\ sends' = sends /\ conn'[First] = conn[First]
      /\ down'[First] = down[First] /\ held'[First] = held[First] /\ local'[First] = local[First]
      /\ Own' = Own /\ outbox'[First] = outbox[First]
      /\ (First \in sock') = (First \in sock) /\ (First \in link') = (First \in link)
  BY DEF near
<1>2. Place'
  BY <1>1 DEF Core, Place
<1>3. \A m : Below(m)' <=> Below(m)
  BY <1>1 DEF Below
<1>4. Got' = Got /\ Under' = Under /\ Sent' = Sent
  BY <1>1 DEF Got, Under, Sent
<1>5. Order'
  BY <1>1, <1>3, <1>4 DEF Core, Order
<1>6. Claimed'
  BY <1>1 DEF Core, Claimed, Low
<1>7. Kept'
  BY <1>1, <1>3 DEF Core, Kept
<1>8. Answer' <=> Answer
  BY <1>1, <1>3 DEF Answer
<1>9. Attending'
  BY <1>1, <1>8 DEF Core, Attending, Quiet
<1> QED
  BY <1>2, <1>5, <1>6, <1>7, <1>9 DEF Core

-----------------------------------------------------------------------------
(***************************************************************************)
(* What is said about the task: at most one more operation waits.          *)
(***************************************************************************)
Adds(kind, status, n) ==
    /\ row' = row /\ Tidy(row', tail') /\ Len(tail') = Len(tail) + 1
    /\ \A i \in 1..Len(tail) : tail'[i] = tail[i]
    /\ LET op == tail'[Len(tail) + 1]
       IN op.kind = kind /\ op.status = status /\ op.seq = n /\ ~op.over
    /\ \A m \in Nat : TailBelow(row, tail, m) /\ (kind # "result" => n <= m) =>
         TailBelow(row', tail', m)
    /\ Low => Low'
    /\ kind = "result" /\ row.status \notin Final /\ n > row.seq => Pending(tail', Len(tail) + 1)

Grows(kind, status, n) ==
    (UNCHANGED <<row, tail>> /\ Tidy(row', tail')) \/ Adds(kind, status, n)

LEMMA Called ==
    ASSUME IInv, Place, NEW op \in Ops, Told(op), ~op.over,
           IF op.kind = "result" THEN op.row \in Row ELSE op.row = NoRow,
           row' = row, tail' = Enqueue(tail, row, op)
    PROVE  Adds(op.kind, op.status, op.seq)
<1>1. Tidy(row, tail) /\ row.seq \in Nat /\ Len(tail) \in Nat /\ tail \in Seq(Ops)
  BY Typed DEF Place
<1>2. /\ Tidy(row, tail') /\ Len(tail') = Len(tail) + 1
      /\ \A i \in 1..Len(tail) : tail'[i] = tail[i]
      /\ LET q == tail'[Len(tail) + 1]
         IN /\ q.kind = op.kind /\ q.seq = op.seq /\ q.status = op.status
            /\ q.over = op.over
            /\ tail # <<>> => q.row = op.row
            /\ op.kind # "result" /\ op.seq = 0 /\ q.row # NoRow => q.row.seq = row.seq
      /\ \A m \in Nat : TailBelow(row, tail, m) /\ (op.kind # "result" => op.seq <= m) =>
           TailBelow(row, tail', m)
      /\ op.kind = "result" /\ ~op.over /\ row.status \notin Final /\ op.seq > row.seq =>
           Pending(tail', Len(tail) + 1)
  BY <1>1, Calls
<1>3. ASSUME Low PROVE Low'
  <2>1. CASE tail = <<>>
    BY <2>1, <1>1, <1>2 DEF Low
  <2>2. CASE tail # <<>>
    <3>1. 1 \in 1..Len(tail)
      BY <2>2, <1>1
    <3> QED
      BY <3>1, <2>2, <1>2, <1>3 DEF Low
  <2> QED
    BY <2>1, <2>2
<1> QED
  BY <1>2, <1>3 DEF Adds

LEMMA Reports ==
    ASSUME IInv, Place, NEW k \in {"event", "report"}, NEW s \in Status \ Final, NEW n \in Nat,
           s \in {"queued", "assigned", "lost"} => n = 0, Report(k, s, n)
    PROVE  Adds(k, s, n)
<1> DEFINE op == Op(k, s, n, NoRow)
<1>1. op \in Ops /\ op.kind = k /\ op.status = s /\ op.seq = n /\ ~op.over /\ op.row = NoRow
  BY DEF Op, Ops, Seqno
<1>2. Told(op)
  BY <1>1 DEF Told
<1>3. row' = row /\ tail' = Enqueue(tail, row, op)
  BY DEF Report
<1> HIDE DEF op
<1>4. Adds(op.kind, op.status, op.seq)
  BY <1>1, <1>2, <1>3, Called
<1> QED
  BY <1>1, <1>4

LEMMA Heard ==
    ASSUME IInv, Place, NEW k, NEW s, NEW n \in Nat, Grows(k, s, n),
           outbox'[First] = outbox[First]
    PROVE  /\ \A m \in Nat : Below(m) /\ (k # "result" => n <= m) => Below(m)'
           /\ row' = row
           /\ k = "result" \/ n = 0 => (Answer => Answer')
<1>1. \A m \in Nat : Below(m) /\ (k # "result" => n <= m) => Below(m)'
  BY DEF Below, Grows, Adds
<1>2. ASSUME k = "result" \/ n = 0, Answer PROVE Answer'
  <2>1. CASE \E i \in 1..Len(outbox[First]) :
               outbox[First][i].type = "result" /\ Below(outbox[First][i].seq - 1)
    <3>1. PICK i \in 1..Len(outbox[First]) :
               outbox[First][i].type = "result" /\ Below(outbox[First][i].seq - 1)
      BY <2>1
    <3>2. outbox[First][i].seq - 1 \in Nat
      BY <3>1, Typed DEF Place
    <3>3. Below(outbox[First][i].seq - 1)'
      BY <3>1, <3>2, <1>1, <1>2
    <3> QED
      BY <3>1, <3>3 DEF Answer
  <2>2. CASE \E i \in 1..Len(tail) : Pending(tail, i) /\ Below(tail[i].seq - 1)
    <3>1. PICK i \in 1..Len(tail) : Pending(tail, i) /\ Below(tail[i].seq - 1)
      BY <2>2
    <3>2. tail[i].seq - 1 \in Nat
      BY <3>1, Typed DEF Told, Pending
    <3>3. i \in 1..Len(tail') /\ tail'[i] = tail[i] /\ (i = 1 => tail'[1] = tail[1])
      BY Typed DEF Grows, Adds
    <3>4. Below(tail[i].seq - 1)'
      BY <3>1, <3>2, <3>3, <1>1, <1>2
    <3>5. Pending(tail', i)
      BY <3>1, <3>3 DEF Pending
    <3> QED
      BY <3>3, <3>4, <3>5 DEF Answer
  <2> QED
    BY <1>2, <2>1, <2>2 DEF Answer
<1> QED
  BY <1>1, <1>2 DEF Grows, Adds

LEMMA StaysClaimed ==
    ASSUME IInv, Place, Claimed, NEW k, NEW s, NEW n \in Nat, Grows(k, s, n),
           pass' = pass, sends' \subseteq sends, sock' \subseteq sock,
           faults' = 0 \/ First \notin link' => faults = 0 \/ First \notin link,
           s \in {"queued", "assigned", "lost"} /\ (faults = 0 \/ First \notin link) =>
             sends' = {} \/ row.status \in {"queued", "lost"}
    PROVE  Claimed'
<1> SUFFICES ASSUME faults = 0 \/ First \notin link
             PROVE  /\ Low' \/ (First \notin sock' /\ pass' = {} /\ sends' = {})
                    /\ \A t \in sends' :
                         /\ ~t.open /\ pass' = {} /\ row'.status \notin {"queued", "lost"}
                         /\ row'.status = "assigned" => row'.seq = t.seq
                         /\ \A i \in 1..Len(tail') :
                              tail'[i].status \in {"queued", "assigned", "lost"} => tail'[i].over
  BY DEF Claimed
<1>1. row' = row /\ (Low => Low')
  BY DEF Grows, Adds, Low
<1>2. ASSUME NEW t \in sends', NEW i \in 1..Len(tail'),
             tail'[i].status \in {"queued", "assigned", "lost"}
      PROVE  tail'[i].over
  <2>1. CASE i \in 1..Len(tail) /\ tail'[i] = tail[i]
    BY <2>1, <1>2 DEF Claimed
  <2>2. CASE i = Len(tail) + 1 /\ tail'[i].status = s
    BY <2>2, <1>2 DEF Claimed
  <2> QED
    BY <2>1, <2>2, Typed DEF Grows, Adds
<1> QED
  BY <1>1, <1>2 DEF Claimed

-----------------------------------------------------------------------------
(***************************************************************************)
(* The steps of the server.                                                *)
(***************************************************************************)
LEMMA SyncWriteAttends ==
    ASSUME IInv, Core, Alone, Alone', SyncWrite
    PROVE  Core'
<1> USE DEF Core
<1>1. UNCHANGED <<pass, sends, sock, link, conn, down, outbox, held, local, live, faults, Own>>
  BY DEF SyncWrite, network, worker, counts, Own
<1>2. Tidy(row, tail) /\ SyncWrite /\ row.status \notin Final /\ row'.status \notin Final
  BY DEF Place, Alone
<1>3. /\ Tidy(row', tail') /\ row'.seq >= row.seq
      /\ tail # <<>> /\ Len(tail') = Len(tail) - 1
      /\ \A i \in 1..Len(tail') :
           /\ tail'[i].kind = tail[i + 1].kind /\ tail'[i].seq = tail[i + 1].seq
           /\ tail'[i].status = tail[i + 1].status /\ tail'[i].over = tail[i + 1].over
      /\ \A m \in Nat : TailBelow(row, tail, m) => TailBelow(row', tail', m)
      /\ \A i \in 1..Len(tail) :
           Pending(tail, i) /\ TailBelow(row, tail, tail[i].seq - 1) =>
             i - 1 \in 1..Len(tail') /\ Pending(tail', i - 1)
      /\ tail' # <<>> /\ tail'[1].row # NoRow /\ tail'[1].kind # "result"
         /\ tail'[1].seq = 0 => tail'[1].row.seq = row'.seq
      /\ \/ row' = row
         \/ /\ tail[1].row # NoRow /\ tail[1].kind # "result"
            /\ row' = tail[1].row /\ row'.status = tail[1].status
            /\ tail[1].over => row'.seq > row.seq
  BY <1>2, Syncs
<1>4. row'.seq \in Nat /\ row.seq \in Nat /\ 1 \in 1..Len(tail)
      /\ \A i \in 1..Len(tail') : i + 1 \in 1..Len(tail)
  <2>1. row' \in Row
    BY <1>3 DEF Tidy
  <2> QED
    BY <1>3, <2>1, Typed, RowFields
<1>5. Place'
  BY <1>1, <1>3 DEF Place
<1>6. \A m \in Nat : Below(m) => Below(m)'
  BY <1>1, <1>3 DEF Below
<1>7. Order'
  <2>1. Got' = Got /\ Under' = Under /\ Sent' = Sent
    BY <1>1 DEF Got, Under, Sent
  <2>2. Ordered(Got', Under', Sent', row'.seq)
    BY <1>3, <1>4, <2>1, Rises DEF Order
  <2>3. \A m \in Got' \cup Under' \cup Sent' \cup {row'.seq} : 0 <= m + 2
    BY <2>2 DEF Ordered
  <2> QED
    BY <1>3, <1>6, <2>1, <2>2, <2>3, KeepsOrder
<1>8. Claimed'
  <2> SUFFICES ASSUME faults = 0 \/ First \notin link
               PROVE  /\ Low'
                      /\ \A s \in sends :
                           /\ ~s.open /\ pass = {} /\ row'.status \notin {"queued", "lost"}
                           /\ row'.status = "assigned" => row'.seq = s.seq
                           /\ \A i \in 1..Len(tail') :
                                tail'[i].status \in {"queued", "assigned", "lost"} => tail'[i].over
    BY <1>1 DEF Claimed
  <2>1. Low'
    BY <1>3, <1>4 DEF Low
  <2>2. ASSUME NEW s \in sends
        PROVE  row'.status \notin {"queued", "lost"} /\ (row'.status = "assigned" => row'.seq = s.seq)
    <3>1. Low /\ row.status \notin {"queued", "lost"} /\ (row.status = "assigned" => row.seq = s.seq)
          /\ (tail[1].status \in {"queued", "assigned", "lost"} => tail[1].over)
      BY <1>4 DEF Claimed
    <3>2. CASE row' = row
      BY <3>1, <3>2
    <3>3. CASE row' # row
      <4>1. /\ tail[1].row # NoRow /\ tail[1].kind # "result"
            /\ row' = tail[1].row /\ row'.status = tail[1].status
            /\ tail[1].over => row'.seq > row.seq
        BY <1>3, <3>3
      <4>2. Told(tail[1])
        BY <1>4, Typed
      <4>3. tail[1].status \notin {"queued", "assigned", "lost"}
        <5> SUFFICES ASSUME tail[1].status \in {"queued", "assigned", "lost"} PROVE FALSE
          OBVIOUS
        <5>1. tail[1].seq = 0 /\ tail[1].over
          BY <3>1, <4>1, <4>2 DEF Told
        <5>2. tail[1].row.seq <= row.seq
          BY <1>3, <3>1, <4>1, <5>1 DEF Low
        <5> QED
          BY <1>4, <4>1, <5>1, <5>2
      <4> QED
        BY <4>1, <4>3
    <3> QED
      BY <3>2, <3>3
  <2>3. ASSUME NEW s \in sends, NEW i \in 1..Len(tail'),
               tail'[i].status \in {"queued", "assigned", "lost"}
        PROVE  tail'[i].over
    BY <1>3, <1>4, <2>3 DEF Claimed
  <2> QED
    BY <2>1, <2>2, <2>3 DEF Claimed
<1>9. Kept'
  BY <1>1, <1>6, Typed DEF Kept, Place
<1>10. ASSUME Answer PROVE Answer'
  <2>1. CASE \E i \in 1..Len(outbox[First]) :
               outbox[First][i].type = "result" /\ Below(outbox[First][i].seq - 1)
    BY <2>1, <1>1, <1>6, Typed DEF Answer, Place
  <2>2. CASE \E i \in 1..Len(tail) : Pending(tail, i) /\ Below(tail[i].seq - 1)
    <3>1. PICK i \in 1..Len(tail) : Pending(tail, i) /\ Below(tail[i].seq - 1)
      BY <2>2
    <3>2. i - 1 \in 1..Len(tail') /\ Pending(tail', i - 1)
      BY <3>1, <1>3 DEF Below
    <3>3. tail'[i - 1].seq = tail[i].seq
      <4>1. tail'[i - 1].seq = tail[(i - 1) + 1].seq
        BY <1>3, <3>2
      <4> QED
        BY <4>1
    <3>4. tail[i].seq - 1 \in Nat
      BY <3>1, Typed DEF Told, Pending
    <3>5. \A m \in Nat : m = tail'[i - 1].seq - 1 /\ Below(m) => Answer'
      BY <1>6, <3>2 DEF Answer
    <3> QED
      BY <3>1, <3>3, <3>4, <3>5
  <2> QED
    BY <1>10, <2>1, <2>2 DEF Answer
<1>11. ASSUME Quiet PROVE Quiet'
  <2>1. row.status = "queued" /\ tail[1].status = "queued"
    BY <1>3, <1>4, <1>11 DEF Quiet
  <2>2. row'.status = "queued"
    BY <1>3, <2>1
  <2>3. ASSUME NEW i \in 1..Len(tail')
        PROVE  tail'[i].kind = "event" /\ tail'[i].status = "queued" /\ tail'[i].seq = 0
    <3>1. /\ tail[i + 1].kind = "event" /\ tail[i + 1].status = "queued"
          /\ tail[i + 1].seq = 0
      BY <1>4, <1>11 DEF Quiet
    <3> QED
      BY <1>3, <3>1
  <2> QED
    BY <1>1, <1>11, <2>2, <2>3 DEF Quiet
<1>12. Attending'
  BY <1>1, <1>10, <1>11 DEF Attending
<1> QED
  BY <1>5, <1>7, <1>8, <1>9, <1>12

\* A task is queued again while no operation of the server is under way.
LEMMA Requeues ==
    ASSUME IInv, Place, tail = <<>>,
           WriteAndReport([row EXCEPT !.status = "queued", !.lease = FALSE], "queued")
    PROVE  /\ Tidy(row', tail') /\ row'.status = "queued" /\ row'.seq = row.seq /\ Low'
           /\ Len(tail') = 1 /\ tail'[1].kind = "event" /\ tail'[1].status = "queued"
           /\ tail'[1].seq = 0
           /\ \A m \in Nat : TailBelow(row, tail, m) => TailBelow(row', tail', m)
<1> DEFINE r == [row EXCEPT !.status = "queued", !.lease = FALSE]
           op == Op("event", "queued", 0, NoRow)
<1>1. row \in Row /\ row.exec = First /\ row.key = 1 /\ row.seq \in Nat /\ Len(tail) = 0
      /\ tail \in Seq(Ops)
  BY Typed
<1>2. "queued" \in Status /\ "queued" \notin Final
  BY DEF Status, Final
<1>3. r \in Row /\ r.exec = First /\ r.key = 1 /\ r.seq = row.seq /\ r.status = "queued"
  BY <1>1, <1>2 DEF Row
<1>4. op \in Ops /\ Told(op) /\ op.kind = "event" /\ op.status = "queued" /\ op.seq = 0
      /\ op.row = NoRow
  BY <1>2 DEF Op, Ops, Told, Seqno
<1>5. Overtaken(tail) = tail
  BY <1>1 DEF Overtaken
<1>6. row' = r /\ tail' = Enqueue(<<>>, r, op)
  BY <1>5 DEF WriteAndReport
<1> DEFINE b == Begun(op, r)
<1> HIDE DEF r, op
<1>7. /\ b \in Ops /\ Told(b) /\ b.kind = "event" /\ b.seq = 0 /\ b.status = "queued"
      /\ b.row # NoRow => b.row.seq = r.seq
  BY <1>3, <1>4, Begins
<1>8. tail' = <<b>>
  BY <1>6 DEF Enqueue
<1> HIDE DEF b
<1>9. tail' \in Seq(Ops) /\ Len(tail') = 1 /\ tail'[1] = b
  BY <1>7, <1>8
<1>10. Tidy(row', tail')
  BY <1>1, <1>3, <1>6, <1>7, <1>9 DEF Tidy
<1>11. \A m \in Nat : TailBelow(row, tail, m) => TailBelow(row', tail', m)
  BY <1>1, <1>3, <1>6, <1>7, <1>9 DEF TailBelow
<1>12. Low'
  BY <1>1, <1>3, <1>6, <1>7, <1>9 DEF Low
<1> QED
  BY <1>3, <1>6, <1>7, <1>9, <1>10, <1>11, <1>12

LEMMA RequeueAttends ==
    ASSUME IInv, Core, tail = <<>>, pass = {}, sends = {},
           WriteAndReport([row EXCEPT !.status = "queued", !.lease = FALSE], "queued"),
           UNCHANGED <<pass, sends, link, conn, down, outbox, held, local, live, faults>>,
           sock' \subseteq sock, First \in link => First \in sock'
    PROVE  Core'
<1> USE DEF Core
<1>1. /\ Tidy(row', tail') /\ row'.status = "queued" /\ row'.seq = row.seq /\ Low'
      /\ Len(tail') = 1 /\ tail'[1].kind = "event" /\ tail'[1].status = "queued"
      /\ tail'[1].seq = 0
      /\ \A m \in Nat : TailBelow(row, tail, m) => TailBelow(row', tail', m)
  BY Requeues
<1>2. Own' = Own /\ Got' = Got /\ Under' = Under /\ Sent' = Sent
  BY DEF Own, Got, Under, Sent
<1>3. Place'
  BY <1>1, <1>2 DEF Place
<1>4. \A m \in Nat : Below(m) => Below(m)'
  BY <1>1 DEF Below
<1>5. Order'
  <2>1. Ordered(Got', Under', Sent', row'.seq)
    BY <1>1, <1>2 DEF Order
  <2>2. \A m \in Got' \cup Under' \cup Sent' \cup {row'.seq} : 0 <= m + 2
    BY <2>1 DEF Ordered
  <2>3. row'.seq >= row.seq
    BY <1>1, Typed
  <2> QED
    BY <1>2, <1>4, <2>1, <2>2, <2>3, KeepsOrder
<1>6. Claimed'
  BY <1>1 DEF Claimed
<1>7. Kept'
  BY <1>4, Typed DEF Kept, Place
<1>8. Answer => Answer'
  BY <1>4, Typed DEF Answer, Place
<1>9. Quiet => Quiet'
  BY <1>1 DEF Quiet
<1>10. Attending'
  BY <1>8, <1>9 DEF Attending
<1> QED
  BY <1>3, <1>5, <1>6, <1>7, <1>10

LEMMA ReclaimAttends ==
    ASSUME IInv, Core, Prompt, Reclaim
    PROVE  Core'
<1>1. tail = <<>> /\ pass = {} /\ sends = {}
  BY DEF Reclaim, Expires
<1>2. WriteAndReport([row EXCEPT !.status = "queued", !.lease = FALSE], "queued")
      /\ UNCHANGED <<pass, sends, sock, link, conn, down, outbox, held, local, live, faults>>
  BY DEF Reclaim, network, worker, counts
<1>3. First \in link => First \in sock'
  BY <1>2 DEF Core, Place
<1> QED
  BY <1>1, <1>2, <1>3, RequeueAttends

LEMMA PickAttends ==
    ASSUME IInv, Core, Pick
    PROVE  Core'
<1> USE DEF Core
<1>1. UNCHANGED <<row, tail, sends, sock, link, conn, down, outbox, held, local, live, faults, Own>>
      /\ pass' = {First} /\ First \in sock /\ row.status = "queued"
  BY Typed DEF Pick, network, worker, counts, Own
<1>2. Place'
  BY <1>1 DEF Place
<1>3. \A m : Below(m)' <=> Below(m)
  BY <1>1 DEF Below
<1>4. Order'
  BY <1>1, <1>3 DEF Order, Got, Under, Sent
<1>5. Claimed'
  BY <1>1 DEF Claimed, Low
<1>6. Kept'
  BY <1>1, <1>3 DEF Kept
<1>7. Attending'
  BY <1>1, <1>3 DEF Attending, Answer, Quiet
<1> QED
  BY <1>2, <1>4, <1>5, <1>6, <1>7

LEMMA ClaimAttends ==
    ASSUME IInv, Core, Claim
    PROVE  Core'
<1> USE DEF Core
<1>1. UNCHANGED <<sock, link, conn, down, outbox, held, local, live, faults, Own>>
      /\ pass' = {} /\ pass = {First} /\ sends = {}
  BY Typed DEF Claim, network, worker, counts, Own
<1>2. CASE row.status # "queued"
  <2>1. UNCHANGED <<row, tail, sends>>
    BY <1>2 DEF Claim
  <2>2. Place'
    BY <1>1, <2>1 DEF Place
  <2>3. \A m : Below(m)' <=> Below(m)
    BY <1>1, <2>1 DEF Below
  <2>4. Order'
    BY <1>1, <2>1, <2>3 DEF Order, Got, Under, Sent
  <2>5. Claimed'
    BY <1>1, <2>1 DEF Claimed, Low
  <2>6. Kept'
    BY <1>1, <2>1, <2>3 DEF Kept
  <2>7. Attending'
    BY <1>1, <2>1, <2>3 DEF Attending, Answer, Quiet
  <2> QED
    BY <2>2, <2>4, <2>5, <2>6, <2>7
<1>3. CASE row.status = "queued"
  <2> DEFINE r == [row EXCEPT !.exec = First, !.status = "assigned", !.lease = TRUE]
  <2>1. row' = r /\ tail' = Overtaken(tail) /\ sends' = {Sending(First, row, FALSE)}
    BY <1>1, <1>3 DEF Claim, Write
  <2>2. row \in Row /\ row.seq \in Nat /\ row.key = 1 /\ First \in Executor /\ "assigned" \in Status
    BY Typed DEF Status
  <2>3. r \in Row /\ r.exec = First /\ r.key = 1 /\ r.seq = row.seq /\ r.status = "assigned"
    BY <2>2 DEF Row
  <2> HIDE DEF r
  <2>4. /\ Tidy(row', tail') /\ Len(tail') = Len(tail)
        /\ \A i \in 1..Len(tail) :
             tail'[i].over /\ tail'[i].kind = tail[i].kind /\ tail'[i].seq = tail[i].seq
             /\ tail'[i].status = tail[i].status /\ tail'[i].row = tail[i].row
        /\ \A m \in Nat : TailBelow(row, tail, m) /\ r.seq <= m => TailBelow(row', tail', m)
    BY <2>1, <2>3, Outdates DEF Place
  <2>5. row'.seq = row.seq /\ row'.status = "assigned" /\ row'.exec = First
    BY <2>1, <2>3
  <2> DEFINE z == Sending(First, row, FALSE)
  <2>6. sends' = {z} /\ z.to = First /\ z.key = 1 /\ z.seq = row.seq /\ ~z.open
    BY <2>1, <2>2 DEF Sending
  <2> HIDE DEF z
  <2>7. Place'
    <3>1. Tidy(row', tail')
      BY <2>4
    <3>2. \A s \in sends' : s.to = First /\ s.key = 1
      BY <2>6
    <3> QED
      BY <1>1, <3>1, <3>2 DEF Place
  <2>8. \A m \in Nat : Below(m) => Below(m)'
    BY <1>1, <2>3, <2>4 DEF Below, TailBelow
  <2>9. Got' = Got /\ Under' = Under /\ Sent' = {row.seq} /\ Sent = {}
    BY <1>1, <2>1, <2>6 DEF Got, Under, Sent
  <2>10. Order'
    <3>1. Ordered(Got', Under', Sent', row'.seq)
      BY <2>2, <2>5, <2>9 DEF Order, Ordered
    <3>2. \A m \in Got' \cup Under' \cup Sent' \cup {row'.seq} : 0 <= m + 2
      BY <3>1 DEF Ordered
    <3>3. row'.seq >= row.seq
      BY <2>2, <2>5
    <3> QED
      BY <2>8, <2>9, <3>1, <3>2, <3>3, KeepsOrder
  <2>11. Claimed'
    <3> SUFFICES ASSUME faults = 0 \/ First \notin link
                 PROVE  /\ Low'
                        /\ \A s \in sends' : ~s.open /\ row'.seq = s.seq
                        /\ \A i \in 1..Len(tail') : tail'[i].over
      BY <1>1, <2>5 DEF Claimed
    <3>1. Low
      BY <1>1 DEF Claimed
    <3>2. Low'
      <4>1. tail' # <<>> => tail # <<>> /\ 1 \in 1..Len(tail)
        BY <2>4, Typed
      <4> QED
        BY <2>4, <2>5, <3>1, <4>1 DEF Low
    <3> QED
      BY <2>1, <2>4, <2>5, <2>6, <3>2
  <2>12. Kept'
    BY <1>1, <2>8, Typed DEF Kept, Place
  <2>13. Attending'
    BY <2>1 DEF Attending
  <2> QED
    BY <2>7, <2>10, <2>11, <2>12, <2>13
<1> QED
  BY <1>2, <1>3

LEMMA OneClaim ==
    ASSUME IInv, Place, Order, Claimed, faults = 0 \/ First \notin link,
           NEW s \in sends, NEW t \in sends
    PROVE  s = t
<1>1. s.seq = t.seq
  BY DEF Sent, Order, Ordered
<1>2. s.open = FALSE /\ t.open = FALSE
  <2>1. s.open \in BOOLEAN /\ t.open \in BOOLEAN
    BY DEF IInv, Network
  <2> QED
    BY <2>1 DEF Claimed
<1>3. s.to = t.to /\ s.key = t.key
  BY DEF Place
<1>4. s \in [to : Executor, key : Key, seq : Seqno, open : BOOLEAN]
      /\ t \in [to : Executor, key : Key, seq : Seqno, open : BOOLEAN]
  BY DEF IInv, Network
<1> QED
  BY <1>1, <1>2, <1>3, <1>4

LEMMA SendAttends ==
    ASSUME IInv, Core, NEW s \in sends, Send(s), First \in sock
    PROVE  Core'
<1> USE DEF Core
<1>1. s.to = First /\ s.key = 1 /\ s.seq \in Nat /\ s.seq \in Sent /\ First \in Executor
      /\ down \in [Executor -> Seq(FromServer)]
  BY Typed DEF Place, Sent, IInv, Network
<1>2. UNCHANGED <<pass, sock, link, conn, outbox, held, local, live, faults, Own>>
      /\ sends' = sends \ {s} /\ down[First] = <<>>
      /\ Deliver(First, Assignment(s))
      /\ (UNCHANGED <<row, tail>> \/ Report("event", "assigned", 0))
  BY <1>1 DEF Send, worker, counts, Own
<1>3. Grows("event", "assigned", 0)
  <2>1. "assigned" \in Status \ Final
    BY DEF Status, Final
  <2>2. Report("event", "assigned", 0) => Adds("event", "assigned", 0)
    BY <2>1, Reports
  <2> QED
    BY <1>2, <2>2 DEF Grows, Place
<1> DEFINE m == Assignment(s)
<1>4. m = [type |-> "assign", key |-> 1, base |-> s.seq]
  BY <1>1 DEF Assignment
<1>5. IF First \in link THEN down'[First] = <<m>> ELSE down'[First] = <<>>
  <2>1. CASE First \in link
    <3>1. down' = [down EXCEPT ![First] = Append(down[First], m)]
      BY <2>1, <1>2 DEF Deliver
    <3>2. Append(<<>>, m) = <<m>>
      OBVIOUS
    <3> QED
      BY <2>1, <3>1, <3>2, <1>1, <1>2
  <2>2. CASE First \notin link
    BY <2>2, <1>2 DEF Deliver
  <2> QED
    BY <2>1, <2>2
<1> HIDE DEF m
<1>6. row' = row /\ Tidy(row', tail')
  BY <1>3 DEF Grows, Adds
<1>7. Place'
  BY <1>1, <1>2, <1>4, <1>5, <1>6 DEF Place
<1>8. \A n \in Nat : Below(n) => Below(n)'
  BY <1>2, <1>3, Heard
<1>9. Order'
  <2>1. Under = {} /\ Under' \subseteq {s.seq} /\ Got' = Got /\ Sent' \subseteq Sent
    <3>1. Under = {}
      BY <1>2 DEF Under
    <3>2. Under' \subseteq {s.seq}
      <4>1. CASE First \in link
        <5>1. Len(<<m>>) = 1 /\ <<m>>[1] = m /\ m.base = s.seq
          BY <1>4
        <5> QED
          BY <4>1, <5>1, <1>5 DEF Under
      <4>2. CASE First \notin link
        BY <4>2, <1>5 DEF Under
      <4> QED
        BY <4>1, <4>2
    <3>3. Got' = Got /\ Sent' \subseteq Sent
      BY <1>2 DEF Got, Sent
    <3> QED
      BY <3>1, <3>2, <3>3
  <2>2. Ordered(Got', Under', Sent', row'.seq)
    BY <1>1, <1>6, <2>1 DEF Order, Ordered
  <2>3. \A n \in Got' \cup Under' \cup Sent' \cup {row'.seq} : 0 <= n + 2
    BY <2>2 DEF Ordered
  <2>4. row'.seq >= row.seq
    BY <1>6, Typed
  <2>5. (Got' \cup Under' \cup Sent') \subseteq (Got \cup Under \cup Sent \cup {row.seq})
    BY <1>1, <2>1
  <2> QED
    BY <1>8, <2>2, <2>3, <2>4, <2>5, KeepsOrder
<1>10. Claimed'
  <2>1. faults = 0 \/ First \notin link => sends' = {}
    BY <1>2, OneClaim
  <2> QED
    BY <1>2, <1>3, <2>1, StaysClaimed
<1>11. Kept'
  BY <1>2, <1>8, Typed DEF Kept, Place
<1>12. Attending'
  BY <1>2, <1>5 DEF Attending
<1> QED
  BY <1>7, <1>9, <1>10, <1>11, <1>12

LEMMA SendFailsAttends ==
    ASSUME IInv, Core, NEW s \in sends, Send(s), First \notin sock
    PROVE  Core'
<1> USE DEF Core
<1>1. s.to = First /\ s.key = 1 /\ s.seq \in Nat /\ s.seq \in Sent /\ First \in Executor
      /\ First \notin link
  BY Typed DEF Place, Sent
<1>2. ~s.open /\ pass = {} /\ sends \ {s} = {}
  BY <1>1, OneClaim DEF Claimed
<1> DEFINE r == [status |-> "queued", exec |-> First, key |-> 1, seq |-> s.seq, lease |-> FALSE]
<1>3. UNCHANGED <<pass, sock, link, conn, down, outbox, held, local, live, faults, Own>>
      /\ sends' = {} /\ Write(r)
  BY <1>1, <1>2 DEF Send, worker, counts, Own
<1>4. r \in Row /\ r.exec = First /\ r.key = 1 /\ r.seq = s.seq
  BY <1>1 DEF Row, Status, Key, Seqno
<1>5. row' = r /\ tail' = Overtaken(tail)
  BY <1>3 DEF Write
<1> HIDE DEF r
<1>6. Tidy(row', tail') /\ row'.seq = s.seq
      /\ \A m \in Nat : TailBelow(row, tail, m) /\ s.seq <= m => TailBelow(row', tail', m)
  BY <1>4, <1>5, Outdates DEF Place
<1>7. Place'
  BY <1>1, <1>3, <1>6 DEF Place
<1>8. s.seq <= row.seq /\ row.seq \in Nat
  BY <1>1, Typed DEF Order, Ordered
<1>9. \A m \in Nat : Below(m) => Below(m)'
  BY <1>1, <1>3, <1>6, <1>8 DEF Below, TailBelow
<1>10. Order'
  <2>1. Got' = Got /\ Under' = Under /\ Sent' = {}
    BY <1>3 DEF Got, Under, Sent
  <2>2. Ordered(Got', Under', Sent', row'.seq)
    BY <1>1, <1>6, <2>1 DEF Order, Ordered
  <2>3. \A n \in Got' \cup Under' \cup Sent' \cup {row'.seq} : 0 <= n + 2
    BY <2>2 DEF Ordered
  <2> QED
    BY <1>1, <1>6, <1>9, <2>1, <2>2, <2>3, KeepsOrder
<1>11. Claimed'
  BY <1>2, <1>3 DEF Claimed
<1>12. Kept'
  BY <1>3, <1>9, Typed DEF Kept, Place
<1>13. Attending'
  BY <1>1, <1>3 DEF Attending
<1> QED
  BY <1>7, <1>10, <1>11, <1>12, <1>13

-----------------------------------------------------------------------------
(***************************************************************************)
(* The steps of the executor and of its connection.                        *)
(***************************************************************************)
\* Something without a number is said of a task that somebody has, or nothing.
LEMMA SpeakingAttends ==
    ASSUME IInv, Core, NEW k, NEW s, Grows(k, s, 0),
           UNCHANGED <<pass, sends, link, down, outbox, held, local, live, faults>>,
           sock' \subseteq sock,
           First \in link => First \in sock' /\ conn'[First] # "down",
           First \notin link /\ conn[First] = "down" => conn'[First] = "down",
           s \in {"queued", "assigned", "lost"} /\ (faults = 0 \/ First \notin link) =>
             sends = {} \/ row.status \in {"queued", "lost"},
           First \in link => local[First] # "none" \/ UNCHANGED <<row, tail>>
    PROVE  Core'
<1> USE DEF Core
<1>1. row' = row /\ Tidy(row', tail') /\ Own' = Own
  BY DEF Grows, Adds, Own
<1>2. Place'
  BY <1>1 DEF Place
<1>3. (\A m \in Nat : Below(m) => Below(m)') /\ (Answer => Answer')
  BY Heard
<1>4. Order'
  <2>1. Got' = Got /\ Under' = Under /\ Sent' = Sent
    BY <1>1 DEF Got, Under, Sent
  <2>2. Ordered(Got', Under', Sent', row'.seq)
    BY <1>1, <2>1 DEF Order
  <2>3. \A m \in Got' \cup Under' \cup Sent' \cup {row'.seq} : 0 <= m + 2
    BY <2>2 DEF Ordered
  <2>4. row'.seq >= row.seq
    BY <1>1, Typed
  <2> QED
    BY <1>3, <2>1, <2>2, <2>3, <2>4, KeepsOrder
<1>5. Claimed'
  BY StaysClaimed
<1>6. Kept'
  BY <1>3, Typed DEF Kept, Place
<1>7. Attending'
  BY <1>3 DEF Attending, Quiet
<1> QED
  BY <1>2, <1>4, <1>5, <1>6, <1>7

\* What the worker says of the task in its heartbeats.
LEMMA Presents ==
    ASSUME IInv, Place, HandleHeartbeat(First, Presence(First))
    PROVE  \E s \in {"executing", "assigned"} :
             /\ Grows("report", s, 0)
             /\ s = "assigned" => row.status \in {"queued", "lost"}
             /\ local[First] # "none" \/ UNCHANGED <<row, tail>>
<1>1. Presence(First).local = local[First]
  BY DEF Presence
<1>2. {"executing", "assigned"} \subseteq Status \ Final
  BY DEF Status, Final
<1>3. CASE UNCHANGED <<row, tail>>
  BY <1>3 DEF Grows, Place
<1>4. CASE local[First] = "running" /\ Report("report", "executing", 0)
  BY <1>2, <1>4, Reports DEF Grows
<1>5. CASE local[First] = "queued" /\ row.status \in {"queued", "lost"}
           /\ Report("report", "assigned", 0)
  BY <1>2, <1>5, Reports DEF Grows
<1> QED
  BY <1>1, <1>3, <1>4, <1>5 DEF HandleHeartbeat

LEMMA HeartbeatAttends ==
    ASSUME IInv, Core, Heartbeat(First)
    PROVE  Core'
<1>1. HandleHeartbeat(First, Presence(First)) /\ outbox' = outbox /\ First \in link
      /\ UNCHANGED <<pass, sends, sock, link, conn, down, held, local, live, faults>>
  BY DEF Heartbeat, Transmit, Handle, Presence, worker, counts
<1>2. PICK s \in {"executing", "assigned"} :
        /\ Grows("report", s, 0)
        /\ s = "assigned" => row.status \in {"queued", "lost"}
        /\ local[First] # "none" \/ UNCHANGED <<row, tail>>
  BY <1>1, Presents DEF Core
<1>3. First \in sock /\ conn[First] # "down"
  BY <1>1 DEF Core, Place
<1> QED
  BY <1>1, <1>2, <1>3, SpeakingAttends

LEMMA RegisterAttends ==
    ASSUME IInv, Core, Register(First)
    PROVE  Core'
<1>1. /\ conn[First] = "open" /\ conn'[First] = "ready"
      /\ UNCHANGED <<pass, sends, sock, link, down, outbox, held, local, live, faults>>
      /\ IF First \in link THEN HandleHeartbeat(First, Presence(First)) ELSE UNCHANGED <<row, tail>>
  <2>1. First \in Executor /\ conn \in [Executor -> {"down", "open", "ready"}]
    BY Typed DEF Core, IInv, Network
  <2> QED
    BY <2>1 DEF Register, worker, counts
<1>2. PICK s \in {"executing", "assigned"} :
        /\ Grows("report", s, 0)
        /\ s = "assigned" => row.status \in {"queued", "lost"}
        /\ local[First] # "none" \/ UNCHANGED <<row, tail>>
  BY <1>1, Presents DEF Core, Grows, Place
<1>3. First \in link => First \in sock
  BY DEF Core, Place
<1> QED
  BY <1>1, <1>2, <1>3, SpeakingAttends

\* The end of a connection, as the worker and as the server see it.
LEMMA NoticesAttends ==
    ASSUME IInv, Core, WorkerNotices(First) \/ ServerNotices(First)
    PROVE  Core'
<1>1. /\ First \notin link /\ sock' \subseteq sock
      /\ UNCHANGED <<row, tail, pass, sends, link, down, outbox, held, local, live, faults>>
      /\ conn[First] = "down" => conn'[First] = "down"
  <2>1. First \in Executor /\ conn \in [Executor -> {"down", "open", "ready"}]
    BY Typed DEF Core, IInv, Network
  <2> QED
    BY <2>1 DEF WorkerNotices, ServerNotices, server, network, worker, counts
<1>2. Grows("event", "executing", 0)
  BY <1>1 DEF Grows, Core, Place
<1> QED
  BY <1>1, <1>2, SpeakingAttends

LEMMA HeartbeatTimeoutAttends ==
    ASSUME IInv, Core, Prompt, HeartbeatTimeout(First)
    PROVE  Core'
<1>1. /\ First \notin link /\ sock' \subseteq sock /\ tail = <<>> /\ pass = {} /\ sends = {}
      /\ UNCHANGED <<pass, sends, link, conn, down, outbox, held, local, live, faults>>
  BY DEF HeartbeatTimeout, Expires, network, worker, counts
<1>2. CASE WriteAndReport([row EXCEPT !.status = "queued", !.lease = FALSE], "queued")
  BY <1>1, <1>2, RequeueAttends
<1>3. CASE Report("event", "lost", 0) \/ UNCHANGED <<row, tail>>
  <2>1. "lost" \in Status \ Final
    BY DEF Status, Final
  <2>2. Grows("event", "lost", 0)
    BY <1>3, <2>1, Reports DEF Grows, Core, Place
  <2> QED
    BY <1>1, <2>2, SpeakingAttends
<1> QED
  BY <1>2, <1>3 DEF HeartbeatTimeout

LEMMA BreakAttends ==
    ASSUME IInv, Core, Alone', Break(First) \/ Crash(First)
    PROVE  Core'
<1> USE DEF Core
<1>1. /\ UNCHANGED <<row, tail, pass, sends, sock>> /\ First \notin link'
      /\ faults = 0 /\ faults' = 1 /\ First \in Executor
  BY Typed DEF Break, Crash, Strike, server, Alone, IInv, Network
<1>2. /\ down'[First] = <<>> /\ outbox'[First] = <<>> /\ outbox[First] = <<>>
      /\ \/ local'[First] = local[First] /\ held'[First] = held[First] /\ Own' = Own
         \/ local'[First] = "none" /\ held'[First] = NoTask /\ Own' = {}
  <2>1. /\ local \in [Executor -> {"none", "queued", "running"}]
        /\ held \in [Executor -> Task \cup {NoTask}]
        /\ down \in [Executor -> Seq(FromServer)] /\ outbox \in [Executor -> Seq(FromWorker)]
    BY DEF IInv, Work, Network, Messages, OutboxFacts
  <2>2. outbox[First] = <<>>
    BY <1>1 DEF Place
  <2> QED
    BY <1>1, <2>1, <2>2 DEF Break, Crash, worker, Own
<1>3. Place'
  BY <1>1, <1>2 DEF Place
<1>4. \A m : Below(m)' <=> Below(m)
  BY <1>1, <1>2 DEF Below
<1>5. Order'
  <2>1. Got' \subseteq Got /\ Under' = {} /\ Sent' = Sent
    BY <1>1, <1>2 DEF Got, Under, Sent
  <2>2. Ordered(Got', Under', Sent', row'.seq)
    BY <1>1, <2>1 DEF Order, Ordered
  <2>3. \A m \in Got' \cup Under' \cup Sent' \cup {row'.seq} : 0 <= m + 2
    BY <2>2 DEF Ordered
  <2>4. row'.seq >= row.seq
    BY <1>1, Typed
  <2>5. (Got' \cup Under' \cup Sent') \subseteq (Got \cup Under \cup Sent \cup {row.seq})
    BY <2>1
  <2> QED
    BY <1>4, <2>2, <2>3, <2>4, <2>5, KeepsOrder
<1>6. Claimed'
  BY <1>1 DEF Claimed, Low
<1>7. Kept'
  BY <1>2 DEF Kept
<1>8. Attending'
  BY <1>1 DEF Attending
<1> QED
  BY <1>3, <1>5, <1>6, <1>7, <1>8

\* The worker has not begun with the task: it has it from a message, or queued.
LEMMA Starts ==
    ASSUME IInv, Place, Begin(First, held'[First]), held'[First] \in Task, held'[First].key = 1,
           local[First] # "running"
    PROVE  /\ local'[First] = "running" /\ Got' = {held'[First].base} /\ Own' # {}
           /\ \A x \in Own' : x.key = 1 /\ x.step <= x.seq
<1> DEFINE x == Execution(First, held'[First])
<1>1. x.at = First /\ x.key = 1 /\ x.seq = held'[First].base /\ x.step = 0 /\ x.seq \in Nat
  BY DEF Execution, Task, Seqno
<1>2. Own = {}
  BY DEF Place
<1>3. live' = live \cup {x} /\ local' = [local EXCEPT ![First] = "running"]
  BY DEF Begin
<1> HIDE DEF x
<1>4. Own' = {x}
  BY <1>1, <1>2, <1>3 DEF Own
<1>5. local'[First] = "running"
  BY <1>3, Typed DEF IInv, Work
<1>6. Origin(x) = held'[First].base
  BY <1>1 DEF Origin
<1>7. Got' = {held'[First].base}
  BY <1>4, <1>5, <1>6 DEF Got
<1> QED
  BY <1>1, <1>4, <1>5, <1>7

LEMMA StartAttends ==
    ASSUME IInv, Core, Start(First)
    PROVE  Core'
<1> USE DEF Core
<1>1. /\ UNCHANGED <<row, tail, pass, sends, sock, link, conn, down, outbox, held, faults>>
      /\ local[First] = "queued" /\ Begin(First, held[First])
  BY DEF Start, server, network
<1>2. held'[First] \in Task /\ held'[First].key = 1 /\ Begin(First, held'[First])
  BY <1>1 DEF Place
<1>3. /\ local'[First] = "running" /\ Got' = {held'[First].base} /\ Own' # {}
      /\ \A x \in Own' : x.key = 1 /\ x.step <= x.seq
  BY <1>1, <1>2, Starts
<1>4. Place'
  BY <1>1, <1>2, <1>3 DEF Place
<1>5. \A m : Below(m)' <=> Below(m)
  BY <1>1 DEF Below
<1>6. Got' = Got
  <2>1. Own = {}
    BY <1>1 DEF Place
  <2> QED
    BY <1>1, <1>3, <2>1 DEF Got
<1>7. Order'
  BY <1>1, <1>5, <1>6 DEF Order, Under, Sent
<1>8. Claimed'
  BY <1>1 DEF Claimed, Low
<1>9. Kept'
  BY <1>1, <1>5 DEF Kept
<1>10. Attending'
  BY <1>3 DEF Attending
<1> QED
  BY <1>4, <1>7, <1>8, <1>9, <1>10

LEMMA ReceiveAttends ==
    ASSUME IInv, Core, ReceiveAssign(First)
    PROVE  Core'
<1> USE DEF Core
<1>1. /\ First \in link /\ conn[First] # "down" /\ First \in Executor
      /\ \E n \in Nat : down[First] = <<[type |-> "assign", key |-> 1, base |-> n]>>
  BY Typed DEF ReceiveAssign, Place
<1>2. PICK n \in Nat : down[First] = <<[type |-> "assign", key |-> 1, base |-> n]>>
  BY <1>1
<1> DEFINE m == [type |-> "assign", key |-> 1, base |-> n]
           task == [key |-> 1, base |-> n]
<1>3. Head(down[First]) = m /\ Tail(down[First]) = <<>> /\ Len(down[First]) = 1
      /\ down[First][1] = m
  BY <1>2
<1>4. task \in Task /\ task.key = 1 /\ task.base = n
  BY DEF Task, Key, Seqno
<1>5. /\ down'[First] = <<>> /\ held'[First] = task
      /\ UNCHANGED <<pass, sends, sock, link, conn, faults>>
  <2>1. down \in [Executor -> Seq(FromServer)] /\ held \in [Executor -> Task \cup {NoTask}]
    BY DEF IInv, Work, Network
  <2> QED
    BY <1>1, <1>3, <2>1 DEF ReceiveAssign
<1>6. \/ local[First] # "none" /\ UNCHANGED <<local, live, row, tail, outbox>>
      \/ /\ local[First] = "none" /\ Transmit(First, Ack(1))
         /\ \/ Begin(First, task)
            \/ local' = [local EXCEPT ![First] = "queued"] /\ live' = live
  BY <1>3 DEF ReceiveAssign, Known, Place
<1> HIDE DEF task
<1>7. Under = {n} /\ Under' = {} /\ Sent' = Sent
  BY <1>3, <1>5 DEF Under, Sent
<1>8. /\ row' = row /\ Tidy(row', tail') /\ outbox'[First] = outbox[First]
      /\ Len(tail') = Len(tail)
      /\ \A i \in 1..Len(tail) :
           /\ tail[i].over => tail'[i].over
           /\ tail'[i].kind = tail[i].kind /\ tail'[i].seq = tail[i].seq
           /\ tail'[i].status = tail[i].status /\ tail'[i].row = tail[i].row
      /\ \A k \in Nat : TailBelow(row, tail, k) => TailBelow(row', tail', k)
  <2>1. CASE UNCHANGED <<row, tail, outbox>>
    BY <2>1 DEF Place
  <2>2. CASE Transmit(First, Ack(1))
    <3>1. Ack(1).type = "ack" /\ Ack(1).key = 1
      BY DEF Ack
    <3>2. HandleAck(First, Ack(1)) /\ outbox' = outbox
      BY <1>1, <2>2, <3>1 DEF Transmit, Handle
    <3>3. row' = row /\ tail' = Overtaken(tail)
      BY <3>1, <3>2, Typed DEF HandleAck, Mine, Write
    <3>4. \A k \in Nat : TailBelow(row, tail, k) => row.seq <= k
      BY DEF TailBelow
    <3> QED
      BY <3>2, <3>3, <3>4, Outdates DEF Place, Tidy
  <2> QED
    BY <1>6, <2>1, <2>2
<1>9. /\ local'[First] # "none" /\ Got' \subseteq Got \cup {n} /\ (\A g, h \in Got' : g = h)
      /\ \A x \in Own' : x.key = 1 /\ x.step <= x.seq
      /\ local'[First] = "running" <=> Own' # {}
  <2>1. CASE local[First] = "running" /\ UNCHANGED <<local, live>>
    BY <2>1 DEF Own, Got, Place, Order, Ordered
  <2>2. CASE local'[First] = "queued" /\ local[First] # "running" /\ UNCHANGED live
    <3>1. Own' = {}
      BY <2>2 DEF Place, Own
    <3>2. Got' = {n}
      BY <2>2, <3>1, <1>4, <1>5 DEF Got
    <3> QED
      BY <2>2, <3>1, <3>2
  <2>3. CASE local[First] = "none" /\ Begin(First, task)
    BY <2>3, <1>4, <1>5, Starts
  <2>4. local \in [Executor -> {"none", "queued", "running"}]
    BY DEF IInv, Work
  <2> QED
    BY <1>1, <1>6, <2>1, <2>2, <2>3, <2>4
<1>10. Place'
  BY <1>4, <1>5, <1>8, <1>9 DEF Place
<1>11. \A k \in Nat : Below(k) => Below(k)'
  BY <1>8 DEF Below
<1>12. Order'
  <2>1. Ordered(Got', Under', Sent', row'.seq)
    BY <1>7, <1>8, <1>9 DEF Order, Ordered
  <2>2. \A k \in Got' \cup Under' \cup Sent' \cup {row'.seq} : 0 <= k + 2
    BY <2>1 DEF Ordered
  <2>3. row'.seq >= row.seq
    BY <1>8, Typed
  <2>4. (Got' \cup Under' \cup Sent') \subseteq (Got \cup Under \cup Sent \cup {row.seq})
    BY <1>7, <1>9
  <2> QED
    BY <1>11, <2>1, <2>2, <2>3, <2>4, KeepsOrder
<1>13. Claimed'
  <2>1. Low => Low'
    <3>1. tail' # <<>> => tail # <<>> /\ 1 \in 1..Len(tail)
      BY <1>8, Typed DEF Tidy
    <3> QED
      BY <1>8, <3>1 DEF Low
  <2>2. \A i \in 1..Len(tail') : i \in 1..Len(tail)
    BY <1>8
  <2> QED
    BY <1>5, <1>8, <2>1, <2>2 DEF Claimed
<1>14. Kept'
  BY <1>1, <1>5 DEF Kept
<1>15. Attending'
  BY <1>9 DEF Attending
<1> QED
  BY <1>10, <1>12, <1>13, <1>14, <1>15

\* What a connection carries arrives at once.
LEMMA EventGrows ==
    ASSUME IInv, Place, NEW m, m.key = 1, NEW n \in Nat, m.seq = n,
           m.status \in {"preparing", "executing"}, HandleEvent(First, m)
    PROVE  Grows("event", m.status, n)
<1>1. m.status \in Status \ Final
  BY DEF Status, Final
<1>2. CASE Report("event", m.status, n)
  BY <1>1, <1>2, Reports DEF Grows
<1>3. CASE UNCHANGED <<row, tail>>
  BY <1>3 DEF Grows, Place
<1> QED
  BY <1>2, <1>3 DEF HandleEvent

LEMMA ResultGrows ==
    ASSUME IInv, Place, row.status \notin Final, NEW m \in FromWorker, m.type = "result",
           m.key = 1, m.seq > 0, m.status \in Outcome, HandleResult(First, m)
    PROVE  /\ Grows("result", m.status, m.seq)
           /\ m.seq > row.seq => Adds("result", m.status, m.seq)
<1>1. m.seq \in Nat /\ m.base \in Nat /\ m.status \in Status /\ m.status \in Final
      /\ row.seq \in Nat /\ row.exec = First /\ row.key = 1 /\ First \in Executor /\ 1 \in Key
  BY Typed, DispatchAssumption DEF DispatchAssumption, FromWorker, Seqno, Status, Final, Key
<1> DEFINE r == [status |-> m.status, exec |-> First, key |-> 1, seq |-> m.base, lease |-> TRUE]
           op == Op("result", m.status, m.seq, r)
<1>2. r \in Row /\ r.exec = First /\ r.key = 1 /\ r.status = m.status
  BY <1>1 DEF Row, Seqno
<1> HIDE DEF r
<1>3. op \in Ops /\ Told(op) /\ ~op.over /\ op.kind = "result" /\ op.row \in Row
      /\ op.status = m.status /\ op.seq = m.seq
  BY <1>1, <1>2 DEF Op, Ops, Told, Seqno
<1>4. CASE row' = row /\ tail' = Enqueue(tail, row, op)
  <2> HIDE DEF op
  <2>1. Adds(op.kind, op.status, op.seq)
    BY <1>3, <1>4, Called
  <2> QED
    BY <1>3, <2>1 DEF Grows
<1>5. m.seq > row.seq => Acceptable(row, m.seq)
  BY DEF Acceptable, Newer
<1>6. Mine(First, m.key)
  BY <1>1 DEF Mine
<1>7. CASE ~Acceptable(row, m.seq)
  BY <1>5, <1>6, <1>7 DEF HandleResult, Grows, Place
<1>8. CASE Acceptable(row, m.seq)
  BY <1>4, <1>6, <1>8 DEF HandleResult, r
<1> QED
  BY <1>7, <1>8

LEMMA EmitAttends ==
    ASSUME IInv, Core, NEW x \in Own, Emit(x)
    PROVE  Core'
<1> USE DEF Core
<1> DEFINE y == [x EXCEPT !.seq = @ + 1, !.step = @ + 1]
           n == x.seq + 1
<1>1. x \in Runs /\ x \in live /\ x.at = First /\ x.key = 1 /\ x.step < 2 /\ x.seq \in Nat
      /\ x.step \in Nat /\ Origin(x) \in Nat /\ Own = {x} /\ First \in Executor
      /\ x.step <= x.seq
  BY Typed DEF Emit, Step, Place
<1>2. /\ live' = (live \ {x}) \cup {y} /\ Transmit(First, Event(x))
      /\ UNCHANGED <<pass, sends, sock, link, conn, down, held, local, faults>>
  BY <1>1 DEF Emit, counts
<1>3. y.at = First /\ y.key = 1 /\ y.step <= y.seq /\ Origin(y) = Origin(x)
  BY <1>1 DEF Runs, Origin
<1> HIDE DEF y
<1>4. Own' = {y}
  BY <1>1, <1>2, <1>3 DEF Own
<1>5. Got' = Got /\ Under' = Under /\ Sent' = Sent
  BY <1>1, <1>2, <1>3, <1>4 DEF Got, Under, Sent
<1>6. local[First] = "running" /\ Origin(x) \in Got
  BY <1>1 DEF Place, Got
<1>7. Event(x).type = "event" /\ Event(x).key = 1 /\ Event(x).seq = n /\ n \in Nat
      /\ Event(x).status \in {"preparing", "executing"} /\ Event(x) \in FromWorker
  <2>1. x.step + 1 = 1 \/ x.step + 1 = 2
    BY <1>1
  <2>2. <<"preparing", "executing">>[x.step + 1] \in {"preparing", "executing"}
    BY <2>1
  <2>3. Event(x) \in FromWorker
    BY <1>1, WorkerMessages DEF Step
  <2> QED
    BY <1>1, <2>2, <2>3 DEF Event, KeyOf
<1>8. \/ Grows("event", Event(x).status, n) /\ outbox' = outbox
      \/ /\ UNCHANGED <<row, tail>> /\ conn[First] = "down"
         /\ outbox' = [outbox EXCEPT ![First] = Append(@, Event(x))]
  <2>1. CASE conn[First] = "down"
    BY <2>1, <1>2 DEF Transmit
  <2>2. CASE conn[First] # "down" /\ First \notin link
    BY <2>2, <1>2 DEF Transmit, Grows, Place
  <2>3. CASE conn[First] # "down" /\ First \in link
    <3>1. HandleEvent(First, Event(x)) /\ outbox' = outbox
      BY <2>3, <1>2, <1>7 DEF Transmit, Handle
    <3> QED
      BY <3>1, <1>7, EventGrows
  <2> QED
    BY <2>1, <2>2, <2>3
<1> DEFINE o == outbox[First]
<1>9. outbox \in [Executor -> Seq(FromWorker)] /\ o \in Seq(FromWorker) /\ Len(o) \in Nat
  BY Typed
<1>10. \/ outbox'[First] = o
       \/ /\ Len(outbox'[First]) = Len(o) + 1 /\ \A i \in 1..Len(o) : outbox'[First][i] = o[i]
          /\ outbox'[First][Len(o) + 1] = Event(x)
          /\ conn[First] = "down"
  <2>1. /\ Len(Append(o, Event(x))) = Len(o) + 1
        /\ \A i \in 1..Len(o) : Append(o, Event(x))[i] = o[i]
        /\ Append(o, Event(x))[Len(o) + 1] = Event(x)
    BY <1>7, <1>9
  <2> QED
    BY <1>1, <1>8, <1>9, <2>1
<1>11. row' = row /\ Tidy(row', tail')
  BY <1>8 DEF Grows, Adds, Place
<1>12. \A k \in Nat : Below(k) /\ n <= k => Below(k)'
  <2>1. \A k \in Nat : TailBelow(row, tail, k) /\ n <= k => TailBelow(row', tail', k)
    BY <1>8 DEF Grows, Adds
  <2>2. \A k \in Nat : OutBelow(o, k) /\ n <= k => OutBelow(outbox'[First], k)
    <3>1. ASSUME NEW k \in Nat, OutBelow(o, k), n <= k, NEW i \in 1..Len(outbox'[First]),
                 outbox'[First][i].type = "event"
          PROVE  outbox'[First][i].seq <= k
      <4>1. \/ i \in 1..Len(o) /\ outbox'[First][i] = o[i]
            \/ outbox'[First][i] = Event(x)
        BY <1>9, <1>10
      <4> HIDE DEF n
      <4> QED
        BY <3>1, <4>1, <1>7 DEF OutBelow
    <3> QED
      BY <3>1 DEF OutBelow
  <2> QED
    BY <2>1, <2>2 DEF Below
<1> HIDE DEF n, o
<1>13. Place'
  <2>1. faults = 0 => outbox'[First] = <<>>
    BY <1>10 DEF Place, o
  <2>2. \A i \in 1..Len(outbox'[First]) :
         /\ outbox'[First][i].type \in {"event", "result"} /\ outbox'[First][i].key = 1
         /\ outbox'[First][i].type = "result" =>
              outbox'[First][i].seq > 0 /\ outbox'[First][i].status \in Outcome
    <3>1. \A i \in 1..Len(outbox'[First]) :
            \/ i \in 1..Len(o) /\ outbox'[First][i] = o[i]
            \/ outbox'[First][i] = Event(x)
      BY <1>9, <1>10
    <3> QED
      BY <3>1, <1>7 DEF Place, o
  <2> QED
    BY <1>2, <1>3, <1>4, <1>6, <1>11, <2>1, <2>2 DEF Place
<1>14. Order'
  <2>1. Ordered(Got', Under', Sent', row'.seq)
    BY <1>5, <1>11 DEF Order
  <2>2. \A m \in Got' \cup Under' \cup Sent' \cup {row'.seq} : m \in Nat /\ Origin(x) <= m
    BY <1>1, <1>5, <1>6, <2>1 DEF Ordered
  <2>3. n <= Origin(x) + 2
    BY <1>1 DEF n, Origin
  <2>4. \A m \in Got' \cup Under' \cup Sent' \cup {row'.seq} : n <= m + 2
    BY <1>1, <1>7, <2>2, <2>3
  <2>5. row'.seq >= row.seq
    BY <1>11, Typed
  <2> QED
    BY <1>5, <1>7, <1>12, <2>1, <2>4, <2>5, KeepsOrder
<1>15. Claimed'
  <2>1. Grows("event", Event(x).status, n)
    BY <1>8 DEF Grows, Place
  <2> QED
    BY <1>2, <1>7, <2>1, StaysClaimed
<1>16. Kept'
  <2>1. First \notin link => \A i \in 1..Len(outbox'[First]) : outbox'[First][i].type # "result"
    <3>1. \A i \in 1..Len(outbox'[First]) :
            \/ i \in 1..Len(o) /\ outbox'[First][i] = o[i]
            \/ outbox'[First][i] = Event(x)
      BY <1>9, <1>10
    <3> QED
      BY <3>1, <1>6, <1>7 DEF Kept, o
  <2> QED
    BY <1>2, <2>1 DEF Kept
<1>17. Attending'
  BY <1>2, <1>6 DEF Attending
<1> QED
  BY <1>13, <1>14, <1>15, <1>16, <1>17

LEMMA FinishAttends ==
    ASSUME IInv, Core, row.status \notin Final, NEW x \in Own, Finish(x)
    PROVE  Core'
<1> USE DEF Core
<1> DEFINE n == x.seq + 1
           o == outbox[First]
<1>1. x \in Runs /\ x \in live /\ x.at = First /\ x.key = 1 /\ x.step = 2 /\ x.seq \in Nat
      /\ Origin(x) \in Nat /\ Own = {x} /\ First \in Executor /\ n = Origin(x) + 3
  BY Typed DEF Finish, Step, Place, Origin
<1>2. PICK status \in Outcome : Transmit(First, Result(1, n, status, 0))
  BY <1>1 DEF Finish, KeyOf
<1> DEFINE m == Result(1, n, status, 0)
<1>3. /\ live' = live \ {x} /\ UNCHANGED <<pass, sends, sock, link, conn, down, faults>>
      /\ held'[First] = NoTask /\ local'[First] = "none"
  <2>1. /\ local \in [Executor -> {"none", "queued", "running"}]
        /\ held \in [Executor -> Task \cup {NoTask}]
    BY DEF IInv, Work
  <2> QED
    BY <1>1, <2>1 DEF Finish, counts
<1>4. Own' = {} /\ Got' = {} /\ Under' = Under /\ Sent' = Sent
  <2>1. Own' = {}
    BY <1>1, <1>3 DEF Own
  <2> QED
    BY <1>3, <2>1 DEF Got, Under, Sent
<1>5. local[First] = "running" /\ Origin(x) \in Got
  BY <1>1 DEF Place, Got
<1>6. m.type = "result" /\ m.key = 1 /\ m.seq = n /\ m.status = status /\ n > 0 /\ n - 1 \in Nat
      /\ m \in FromWorker /\ n - 1 = Origin(x) + 2
  <2>1. 1 \in Key /\ n \in Nat /\ status \in Outcome \cup {"cancelled"} /\ 0 \in Nat
    BY <1>1 DEF Key
  <2>2. m \in FromWorker
    BY <2>1, WorkerMessages
  <2> QED
    BY <1>1, <2>2 DEF Result
<1>7. Below(n - 1)
  BY <1>5, <1>6 DEF Order
<1> HIDE DEF m, n, o
<1>8. row.seq < n /\ row.seq \in Nat /\ n \in Nat
  <2>1. row.seq <= n - 1
    BY <1>7 DEF Below, TailBelow
  <2>2. n \in Nat
    BY <1>1 DEF n
  <2> QED
    BY <2>1, <2>2, Typed
<1>9. \/ conn[First] = "down" /\ First \notin link /\ UNCHANGED <<row, tail>>
         /\ outbox' = [outbox EXCEPT ![First] = Append(@, m)]
      \/ First \notin link /\ UNCHANGED <<row, tail, outbox>>
      \/ First \in link /\ outbox' = outbox /\ Adds("result", status, n)
  <2>1. CASE conn[First] = "down"
    BY <2>1, <1>2 DEF Transmit, Place, m
  <2>2. CASE conn[First] # "down" /\ First \notin link
    BY <2>2, <1>2 DEF Transmit
  <2>3. CASE conn[First] # "down" /\ First \in link
    <3>1. HandleResult(First, m) /\ outbox' = outbox
      BY <2>3, <1>2, <1>6 DEF Transmit, Handle, m
    <3> QED
      BY <2>3, <3>1, <1>6, <1>8, ResultGrows
  <2> QED
    BY <2>1, <2>2, <2>3
<1>10. outbox \in [Executor -> Seq(FromWorker)] /\ o \in Seq(FromWorker) /\ Len(o) \in Nat
  BY Typed DEF o
<1>11. \/ outbox'[First] = o
       \/ /\ Len(outbox'[First]) = Len(o) + 1 /\ \A i \in 1..Len(o) : outbox'[First][i] = o[i]
          /\ outbox'[First][Len(o) + 1] = m
          /\ conn[First] = "down" /\ First \notin link
  <2>1. /\ Len(Append(o, m)) = Len(o) + 1
        /\ \A i \in 1..Len(o) : Append(o, m)[i] = o[i]
        /\ Append(o, m)[Len(o) + 1] = m
    BY <1>6, <1>10
  <2> QED
    BY <1>1, <1>9, <1>10, <2>1 DEF o
<1>12. Grows("result", status, n) /\ row' = row /\ Tidy(row', tail')
  BY <1>9 DEF Grows, Adds, Place
<1>13. \A i \in 1..Len(outbox'[First]) :
         \/ i \in 1..Len(o) /\ outbox'[First][i] = o[i]
         \/ /\ outbox'[First][i] = m /\ conn[First] = "down" /\ First \notin link
  BY <1>10, <1>11
<1>14. \A k \in Nat : Below(k) => Below(k)'
  <2>1. \A k \in Nat : TailBelow(row, tail, k) => TailBelow(row', tail', k)
    BY <1>9 DEF Adds
  <2>2. \A k \in Nat : OutBelow(o, k) => OutBelow(outbox'[First], k)
    BY <1>6, <1>13 DEF OutBelow
  <2> QED
    BY <2>1, <2>2 DEF Below, o
<1>15. Below(n - 1)'
  <2>1. \A k \in Nat : k = n - 1 => Below(k)'
    BY <1>7, <1>14
  <2>2. n' = n
    BY <1>1, <1>6 DEF n
  <2> QED
    BY <2>1, <2>2, <1>6
<1>16. Place'
  <2>1. faults = 0 => outbox'[First] = <<>>
    BY <1>11 DEF Place, o
  <2>2. \A i \in 1..Len(outbox'[First]) :
         /\ outbox'[First][i].type \in {"event", "result"} /\ outbox'[First][i].key = 1
         /\ outbox'[First][i].type = "result" =>
              outbox'[First][i].seq > 0 /\ outbox'[First][i].status \in Outcome
    BY <1>6, <1>13 DEF Place, o
  <2> QED
    BY <1>3, <1>4, <1>12, <2>1, <2>2 DEF Place
<1>17. Order'
  <2>1. Ordered(Got', Under', Sent', row'.seq)
    BY <1>4, <1>12 DEF Order, Ordered
  <2>2. \A k \in Got' \cup Under' \cup Sent' \cup {row'.seq} : 0 <= k + 2
    BY <2>1 DEF Ordered
  <2>3. row'.seq >= row.seq
    BY <1>12, <1>8
  <2> QED
    BY <1>4, <1>14, <2>1, <2>2, <2>3, KeepsOrder
<1>18. Claimed'
  <2>1. status \notin {"queued", "assigned", "lost"}
    BY DispatchAssumption DEF DispatchAssumption
  <2> QED
    BY <1>3, <1>8, <1>12, <2>1, StaysClaimed
<1>19. Kept'
  <2> SUFFICES ASSUME First \notin link, NEW i \in 1..Len(outbox'[First]),
                      outbox'[First][i].type = "result"
               PROVE  conn[First] = "down" /\ Below(outbox[First][i].seq - 1)'
    BY <1>3 DEF Kept
  <2>1. outbox'[First][i] = m /\ conn[First] = "down"
    BY <1>5, <1>13 DEF Kept, o
  <2>2. outbox'[First][i].seq - 1 = n - 1
    BY <2>1, <1>6
  <2>3. \A k : k = n - 1 => Below(k)'
    BY <1>6, <1>7, <1>14
  <2> QED
    BY <2>1, <2>2, <2>3
<1>20. Attending'
  <2> SUFFICES ASSUME First \in link PROVE Answer'
    BY <1>3 DEF Attending
  <2>1. Adds("result", status, n)
    BY <1>9
  <2> DEFINE i == Len(tail) + 1
  <2>2. i \in 1..Len(tail') /\ Pending(tail', i) /\ tail'[i].seq = n
    BY <2>1, <1>8, Typed DEF Adds
  <2>3. \A k : k = n - 1 => Below(k)'
    BY <1>6, <1>7, <1>14
  <2> HIDE DEF i
  <2> QED
    BY <2>2, <2>3 DEF Answer
<1> QED
  BY <1>16, <1>17, <1>18, <1>19, <1>20

LEMMA ConnectAttends ==
    ASSUME IInv, Core, row.status \notin Final, ~damage', Connect(First)
    PROVE  Core'
<1> USE DEF Core
<1>1. /\ UNCHANGED <<row, tail, pass, down, outbox, held, local, live, faults, Own>>
      /\ First \notin link /\ conn[First] = "down" /\ faults > 0 /\ First \in Executor
      /\ First \in link' /\ First \in sock' /\ conn'[First] = "open" /\ down[First] = <<>>
      /\ ~Forgotten(First)
  <2>1. conn \in [Executor -> {"down", "open", "ready"}] /\ First \in Executor
    BY Typed DEF IInv, Network
  <2> QED
    BY <2>1 DEF Connect, worker, counts, Own, Place
<1> DEFINE z == Sending(First, row, TRUE)
<1>2. z.to = First /\ z.key = 1 /\ z.seq = row.seq
  BY Typed DEF Sending
<1> HIDE DEF z
<1>3. sends' = sends \/ (row.status = "assigned" /\ sends' = sends \cup {z})
  <2>1. sends' = IF row.exec = First /\ row.status = "assigned" THEN sends \cup {z} ELSE sends
    BY DEF Connect, z
  <2> QED
    BY <2>1
<1>4. Place'
  BY <1>1, <1>2, <1>3 DEF Place
<1>5. \A m : Below(m)' <=> Below(m)
  BY <1>1 DEF Below
<1>6. Order'
  <2>1. Got' = Got /\ Under' = {} /\ Under = {}
        /\ (Sent' = Sent \/ (row.status = "assigned" /\ Sent' = Sent \cup {row.seq}))
    BY <1>1, <1>2, <1>3 DEF Got, Under, Sent
  <2>2. row.status = "assigned" => \A m \in Sent : m = row.seq
    BY <1>1 DEF Sent, Claimed
  <2>3. Ordered(Got', Under', Sent', row'.seq)
    BY <1>1, <2>1, <2>2 DEF Order, Ordered
  <2>4. \A m \in Got' \cup Under' \cup Sent' \cup {row'.seq} : 0 <= m + 2
    BY <2>3 DEF Ordered
  <2>5. row'.seq >= row.seq
    BY <1>1, Typed
  <2>6. (Got' \cup Under' \cup Sent') \subseteq (Got \cup Under \cup Sent \cup {row.seq})
    BY <2>1
  <2> QED
    BY <1>5, <2>3, <2>4, <2>5, <2>6, KeepsOrder
<1>7. Claimed'
  BY <1>1 DEF Claimed
<1>8. Kept'
  BY <1>1 DEF Kept
<1>9. Attending'
  <2>1. CASE local[First] # "none"
    BY <2>1, <1>1 DEF Attending
  <2>2. CASE \E i \in 1..Len(outbox[First]) : outbox[First][i].type = "result"
    <3>1. Answer
      BY <2>2, <1>1 DEF Answer, Kept
    <3>2. Answer'
      BY <3>1, <1>1, <1>5 DEF Answer
    <3> QED
      BY <3>2 DEF Attending
  <2>3. CASE local[First] = "none"
             /\ \A i \in 1..Len(outbox[First]) : outbox[First][i].type # "result"
    <3>1. /\ row.status # "executing" /\ tail = <<>> /\ outbox[First] = <<>>
          /\ row.status \in {"assigned", "preparing"} => row.lease
      BY <2>3, <1>1, Typed DEF Forgotten
    <3>2. row.status \in {"queued", "lost", "assigned", "preparing"}
      BY <3>1, Typed DEF Status
    <3>3. Quiet
      BY <3>1, <3>2 DEF Quiet
    <3> QED
      BY <3>3, <1>1 DEF Quiet, Attending
  <2> QED
    BY <2>1, <2>2, <2>3
<1> QED
  BY <1>4, <1>6, <1>7, <1>8, <1>9

\* The outbound queue is handed to the server, or lost with the connection.
LEMMA FlushAttends ==
    ASSUME IInv, Core, row.status \notin Final, Flush(First)
    PROVE  Core'
<1> USE DEF Core
<1> DEFINE o == outbox[First]
           m == o[1]
<1>1. /\ UNCHANGED <<pass, sends, sock, link, conn, down, held, local, live, faults, Own>>
      /\ conn[First] = "ready" /\ o # <<>> /\ First \in Executor
      /\ outbox' = [outbox EXCEPT ![First] = Tail(@)]
      /\ IF First \in link THEN Handle(First, m) ELSE UNCHANGED <<row, tail>>
  BY Typed DEF Flush, worker, counts, Own
<1>2. /\ o \in Seq(FromWorker) /\ Len(o) \in Nat /\ Len(o) > 0 /\ 1 \in 1..Len(o)
      /\ outbox'[First] \in Seq(FromWorker) /\ Len(outbox'[First]) = Len(o) - 1
      /\ \A i \in 1..Len(outbox'[First]) : i + 1 \in 1..Len(o) /\ outbox'[First][i] = o[i + 1]
  <2>1. outbox \in [Executor -> Seq(FromWorker)] /\ o \in Seq(FromWorker)
    BY Typed
  <2>2. outbox'[First] = Tail(o)
    BY <1>1, <2>1
  <2> HIDE DEF o
  <2>3. Len(o) \in Nat /\ Len(o) > 0 /\ 1 \in 1..Len(o)
    BY <1>1, <2>1
  <2>4. /\ Tail(o) \in Seq(FromWorker) /\ Len(Tail(o)) = Len(o) - 1
        /\ \A i \in 1..(Len(o) - 1) : Tail(o)[i] = o[i + 1]
    BY <2>1, <2>3
  <2>5. \A i \in 1..(Len(o) - 1) : i + 1 \in 1..Len(o)
    BY <2>3
  <2> QED
    BY <2>1, <2>2, <2>3, <2>4, <2>5
<1>3. m \in FromWorker /\ m.type \in {"event", "result"} /\ m.key = 1 /\ m.seq \in Nat
      /\ (m.type = "result" => m.seq > 0 /\ m.status \in Outcome)
      /\ (m.type = "event" => m.status \in {"preparing", "executing"})
  <2>1. m \in FromWorker /\ m.type \in {"event", "result"} /\ m.key = 1 /\ m.seq \in Nat
        /\ (m.type = "result" => m.seq > 0 /\ m.status \in Outcome)
    BY <1>2, Typed DEF Place
  <2>2. m.type = "event" => m.status \in {"preparing", "executing"}
    BY <2>1 DEF FromWorker
  <2> QED
    BY <2>1, <2>2
<1>4. First \notin link => m.type = "event"
  BY <1>1, <1>2, <1>3 DEF Kept
<1> HIDE DEF m
<1>5. /\ Grows(m.type, m.status, m.seq)
      /\ First \in link /\ m.type = "result" /\ m.seq > row.seq =>
           Adds("result", m.status, m.seq)
  <2>1. CASE First \notin link
    BY <2>1, <1>1 DEF Grows, Place
  <2>2. CASE First \in link /\ m.type = "event"
    <3>1. HandleEvent(First, m)
      BY <2>2, <1>1 DEF Handle
    <3> QED
      BY <2>2, <3>1, <1>3, EventGrows
  <2>3. CASE First \in link /\ m.type = "result"
    <3>1. HandleResult(First, m)
      BY <2>3, <1>1 DEF Handle
    <3> QED
      BY <2>3, <3>1, <1>3, ResultGrows
  <2> QED
    BY <1>3, <2>1, <2>2, <2>3
<1>6. row' = row /\ Tidy(row', tail')
  BY <1>5 DEF Grows, Adds
<1>7. ASSUME NEW k \in Nat, Below(k) PROVE Below(k)'
  <2>1. OutBelow(outbox'[First], k)
    BY <1>2, <1>7 DEF Below, OutBelow
  <2>2. m.type # "result" => m.seq <= k
    BY <1>2, <1>3, <1>7 DEF Below, OutBelow, m
  <2>3. TailBelow(row', tail', k)
    BY <1>5, <1>7, <2>2 DEF Below, Grows, Adds
  <2> QED
    BY <2>1, <2>3 DEF Below
<1>8. Place'
  <2>1. faults = 0 => o = <<>>
    BY DEF Place
  <2>2. \A i \in 1..Len(outbox'[First]) :
         /\ outbox'[First][i].type \in {"event", "result"} /\ outbox'[First][i].key = 1
         /\ outbox'[First][i].type = "result" =>
              outbox'[First][i].seq > 0 /\ outbox'[First][i].status \in Outcome
    <3>1. \A i \in 1..Len(o) :
            /\ o[i].type \in {"event", "result"} /\ o[i].key = 1
            /\ o[i].type = "result" => o[i].seq > 0 /\ o[i].status \in Outcome
      BY DEF Place
    <3> HIDE DEF o
    <3> QED
      BY <1>2, <3>1
  <2> HIDE DEF o
  <2> QED
    BY <1>1, <1>6, <2>1, <2>2 DEF Place
<1>9. Order'
  <2>1. Got' = Got /\ Under' = Under /\ Sent' = Sent
    BY <1>1 DEF Got, Under, Sent
  <2>2. Ordered(Got', Under', Sent', row'.seq)
    BY <1>6, <2>1 DEF Order
  <2>3. \A k \in Got' \cup Under' \cup Sent' \cup {row'.seq} : 0 <= k + 2
    BY <2>2 DEF Ordered
  <2>4. row'.seq >= row.seq
    BY <1>6, Typed
  <2> QED
    BY <1>7, <2>1, <2>2, <2>3, <2>4, KeepsOrder
<1>10. Claimed'
  <2>1. m.status \notin {"queued", "assigned", "lost"}
    BY <1>3, DispatchAssumption DEF DispatchAssumption
  <2> QED
    BY <1>1, <1>3, <1>5, <2>1, StaysClaimed
<1>11. Kept'
  BY <1>1 DEF Kept, o
<1>12. ASSUME First \in link, Answer PROVE Answer'
  <2>1. ASSUME NEW j \in 1..Len(tail), Pending(tail, j), Below(tail[j].seq - 1)
        PROVE  Answer'
    <3>1. tail[j].seq - 1 \in Nat
      BY <2>1, Typed DEF Told, Pending
    <3>2. j \in 1..Len(tail') /\ tail'[j] = tail[j] /\ (j = 1 => tail'[1] = tail[1])
      BY <1>5, Typed DEF Grows, Adds
    <3>3. Below(tail[j].seq - 1)'
      <4>1. \A k \in Nat : k = tail[j].seq - 1 => Below(k)'
        BY <2>1, <1>7
      <4>2. tail'[j].seq = tail[j].seq
        BY <3>2
      <4> QED
        BY <3>1, <4>1, <4>2
    <3> QED
      BY <2>1, <3>2, <3>3 DEF Answer, Pending
  <2>2. ASSUME NEW i \in 1..Len(o), o[i].type = "result", Below(o[i].seq - 1), i # 1
        PROVE  Answer'
    <3>1. i - 1 \in 1..Len(outbox'[First]) /\ outbox'[First][i - 1] = o[i]
      <4>1. i - 1 \in 1..Len(outbox'[First])
        BY <1>2, <2>2
      <4>2. outbox'[First][i - 1] = o[(i - 1) + 1]
        BY <1>2, <4>1
      <4> QED
        BY <4>1, <4>2
    <3>2. o[i].seq - 1 \in Nat
      BY <2>2, Typed DEF Place
    <3>3. \A k \in Nat : k = outbox'[First][i - 1].seq - 1 => Below(k)'
      BY <2>2, <3>1, <1>7
    <3> HIDE DEF o
    <3> QED
      BY <2>2, <3>1, <3>2, <3>3 DEF Answer
  <2>3. ASSUME m.type = "result", Below(m.seq - 1) PROVE Answer'
    <3> DEFINE j == Len(tail) + 1
    <3>1. m.seq - 1 \in Nat /\ row.seq < m.seq
      <4>1. row.seq <= m.seq - 1 /\ m.seq - 1 \in Nat
        BY <2>3, <1>3 DEF Below, TailBelow
      <4> QED
        BY <4>1, <1>3, Typed
    <3>2. Adds("result", m.status, m.seq)
      BY <2>3, <3>1, <1>5, <1>12, <1>3, Typed
    <3>3. j \in 1..Len(tail') /\ Pending(tail', j) /\ tail'[j].seq = m.seq
      BY <3>1, <3>2, <1>3, Typed DEF Adds
    <3>4. \A k \in Nat : k = tail'[j].seq - 1 => Below(k)'
      BY <2>3, <3>3, <1>7
    <3> HIDE DEF j
    <3> QED
      BY <3>1, <3>3, <3>4 DEF Answer
  <2> QED
    BY <1>12, <2>1, <2>2, <2>3 DEF Answer, m
<1>13. Attending'
  <2>1. ~Quiet
    BY <1>1 DEF Quiet
  <2> QED
    BY <2>1, <1>1, <1>12 DEF Attending
<1> QED
  BY <1>8, <1>9, <1>10, <1>11, <1>13

-----------------------------------------------------------------------------
(***************************************************************************)
(* The other executors: the row is not theirs, and they never hear of it.  *)
(***************************************************************************)
LEMMA Away ==
    ASSUME IInv, Core, NEW d \in Executor, d # First, UNCHANGED <<row, tail, pass, sends>>,
           sock' \in {sock, sock \ {d}, sock \cup {d}}, link' \in {link, link \ {d}, link \cup {d}},
           conn'[First] = conn[First], down'[First] = down[First], held'[First] = held[First],
           local'[First] = local[First], outbox'[First] = outbox[First], Own' = Own,
           faults' = faults \/ (faults' = faults + 1 /\ faults = 0)
    PROVE  Core'
<1>1. near' = near
  BY DEF near
<1>2. faults \in Nat /\ faults' \in Nat /\ faults' >= faults
  BY DEF IInv, Network
<1>3. faults' # faults => First \in link
  BY DEF Core, Place
<1> QED
  BY <1>1, <1>2, <1>3, Elsewhere

\* The server does not take what another executor says for news of the task.
LEMMA NotHeard ==
    ASSUME IInv, Core, NEW d \in Executor, d # First, NEW m,
           m.type \in {"ack", "event", "result", "heartbeat"}
    PROVE  /\ Handle(d, m) => UNCHANGED <<row, tail>>
           /\ Transmit(d, m) => UNCHANGED <<row, tail>> /\ outbox'[First] = outbox[First]
<1>1. row.exec = First /\ outbox \in [Executor -> Seq(FromWorker)] /\ First \in Executor
  BY Typed DEF Core
<1>2. Handle(d, m) => UNCHANGED <<row, tail>>
  BY <1>1 DEF Handle, HandleAck, HandleEvent, HandleResult, HandleHeartbeat, Mine
<1> QED
  BY <1>1, <1>2 DEF Transmit

LEMMA WorkerAway ==
    ASSUME IInv, Core, NEW d \in Executor, d # First, Worker(d)
    PROVE  Core'
<1>1. /\ First \in Executor /\ conn \in [Executor -> {"down", "open", "ready"}]
      /\ local \in [Executor -> {"none", "queued", "running"}]
      /\ held \in [Executor -> Task \cup {NoTask}] /\ down \in [Executor -> Seq(FromServer)]
      /\ outbox \in [Executor -> Seq(FromWorker)]
  BY Typed DEF Core, IInv, Work, Network
<1>2. ASSUME NEW task, Begin(d, task) PROVE Own' = Own /\ local'[First] = local[First]
  <2>1. Execution(d, task).at = d
    BY DEF Execution
  <2> QED
    BY <1>1, <1>2, <2>1 DEF Begin, Own
<1>3. CASE ReceiveAssign(d)
  <2>1. /\ UNCHANGED <<pass, sends, sock, link, conn, faults>>
        /\ down'[First] = down[First] /\ held'[First] = held[First]
    BY <1>1, <1>3 DEF ReceiveAssign
  <2>2. UNCHANGED <<row, tail>> /\ outbox'[First] = outbox[First]
    <3>1. UNCHANGED <<row, tail, outbox>> \/ \E k : Transmit(d, Ack(k))
      BY <1>3 DEF ReceiveAssign
    <3>2. \A k : Ack(k).type = "ack"
      BY DEF Ack
    <3> QED
      BY <3>1, <3>2, NotHeard
  <2>3. Own' = Own /\ local'[First] = local[First]
    <3>1. \/ UNCHANGED <<local, live>>
          \/ \E task : Begin(d, task)
          \/ local' = [local EXCEPT ![d] = "queued"] /\ live' = live
      BY <1>3 DEF ReceiveAssign
    <3> QED
      BY <1>1, <1>2, <3>1 DEF Own
  <2> QED
    BY <2>1, <2>2, <2>3, Away
<1>4. CASE ReceiveCancel(d)
  <2>1. /\ UNCHANGED <<pass, sends, sock, link, conn, faults>>
        /\ down'[First] = down[First] /\ held'[First] = held[First]
        /\ local'[First] = local[First] /\ Own' = Own
    BY <1>1, <1>4 DEF ReceiveCancel, counts, Own
  <2>2. UNCHANGED <<row, tail>> /\ outbox'[First] = outbox[First]
    <3>1. UNCHANGED <<row, tail, outbox>> \/ \E k, b : Transmit(d, Result(k, 0, "cancelled", b))
      BY <1>4 DEF ReceiveCancel
    <3>2. \A k, b : Result(k, 0, "cancelled", b).type = "result"
      BY DEF Result
    <3> QED
      BY <3>1, <3>2, NotHeard
  <2> QED
    BY <2>1, <2>2, Away
<1>5. CASE Heartbeat(d)
  <2>1. UNCHANGED <<pass, sends, sock, link, conn, down, held, local, Own, faults>>
    BY <1>5 DEF Heartbeat, worker, counts, Own
  <2>2. Presence(d).type = "heartbeat" /\ Transmit(d, Presence(d))
    BY <1>5 DEF Heartbeat, Presence
  <2> QED
    BY <2>1, <2>2, NotHeard, Away
<1>6. CASE Start(d)
  <2>1. UNCHANGED <<row, tail, pass, sends, sock, link, conn, down, outbox, held, faults>>
    BY <1>6 DEF Start, server, network
  <2>2. Own' = Own /\ local'[First] = local[First]
    BY <1>2, <1>6 DEF Start
  <2> QED
    BY <2>1, <2>2, Away
<1> QED
  BY <1>3, <1>4, <1>5, <1>6 DEF Worker

LEMMA RunAway ==
    ASSUME IInv, Core, NEW x \in live, x.at # First, Emit(x) \/ Finish(x)
    PROVE  Core'
<1>1. x \in Runs /\ x.at \in Executor /\ First \in Executor
      /\ local \in [Executor -> {"none", "queued", "running"}]
      /\ held \in [Executor -> Task \cup {NoTask}]
  BY Typed DEF Core, IInv, Work, Runs
<1>2. UNCHANGED <<pass, sends, sock, link, conn, down, faults>>
      /\ held'[First] = held[First] /\ local'[First] = local[First]
  BY <1>1 DEF Emit, Finish, counts
<1>3. Own' = Own
  <2> DEFINE y == [x EXCEPT !.seq = @ + 1, !.step = @ + 1]
  <2>1. y.at = x.at
    BY <1>1 DEF Runs
  <2>2. live' = (live \ {x}) \cup {y} \/ live' = live \ {x}
    BY DEF Emit, Finish
  <2> HIDE DEF y
  <2> QED
    BY <2>1, <2>2 DEF Own
<1>4. \E m : m.type \in {"event", "result"} /\ Transmit(x.at, m)
  <2>1. Event(x).type = "event"
    BY DEF Event
  <2>2. \A k, n, s, b : Result(k, n, s, b).type = "result"
    BY DEF Result
  <2>3. Transmit(x.at, Event(x)) \/ \E k, n, s, b : Transmit(x.at, Result(k, n, s, b))
    BY DEF Emit, Finish
  <2> QED
    BY <2>1, <2>2, <2>3
<1>5. UNCHANGED <<row, tail>> /\ outbox'[First] = outbox[First]
  BY <1>1, <1>4, NotHeard
<1> QED
  BY <1>1, <1>2, <1>3, <1>5, Away

LEMMA ConnectionAway ==
    ASSUME IInv, Core, Alone', NEW d \in Executor, d # First, Connection(d)
    PROVE  Core'
<1>1. /\ First \in Executor /\ conn \in [Executor -> {"down", "open", "ready"}]
      /\ local \in [Executor -> {"none", "queued", "running"}] /\ row.exec = First
      /\ held \in [Executor -> Task \cup {NoTask}] /\ down \in [Executor -> Seq(FromServer)]
      /\ outbox \in [Executor -> Seq(FromWorker)] /\ faults \in Nat
  BY Typed DEF Core, IInv, Work, Network
<1>2. CASE Break(d) \/ Crash(d)
  <2>1. faults' = faults + 1 /\ faults = 0
    BY <1>1, <1>2 DEF Break, Crash, Strike, Alone
  <2>2. UNCHANGED <<row, tail, pass, sends, sock>> /\ link' = link \ {d}
        /\ conn'[First] = conn[First] /\ down'[First] = down[First] /\ held'[First] = held[First]
        /\ local'[First] = local[First] /\ outbox'[First] = outbox[First] /\ Own' = Own
    BY <1>1, <1>2 DEF Break, Crash, server, worker, Own
  <2> QED
    BY <2>1, <2>2, Away
<1>3. CASE WorkerNotices(d) \/ ServerNotices(d)
  <2>1. UNCHANGED <<row, tail, pass, sends, link, down, held, local, outbox, Own, faults>>
        /\ conn'[First] = conn[First] /\ sock' \in {sock, sock \ {d}}
    BY <1>1, <1>3 DEF WorkerNotices, ServerNotices, server, network, worker, counts, Own
  <2> QED
    BY <2>1, Away
<1>4. CASE HeartbeatTimeout(d)
  <2>1. UNCHANGED <<row, tail, pass, sends, link, conn, down, held, local, outbox, Own, faults>>
        /\ sock' = sock \ {d}
    BY <1>1, <1>4 DEF HeartbeatTimeout, network, worker, counts, Own
  <2> QED
    BY <2>1, Away
<1>5. CASE Connect(d)
  <2>1. UNCHANGED <<row, tail, pass, sends, down, held, local, outbox, Own, faults>>
        /\ sock' = sock \cup {d} /\ link' = link \cup {d} /\ conn'[First] = conn[First]
    BY <1>1, <1>5 DEF Connect, worker, counts, Own
  <2> QED
    BY <2>1, Away
<1>6. CASE Register(d)
  <2>1. UNCHANGED <<pass, sends, sock, link, down, held, local, outbox, Own, faults>>
        /\ conn'[First] = conn[First]
    BY <1>1, <1>6 DEF Register, worker, counts, Own
  <2>2. UNCHANGED <<row, tail>>
    BY <1>1, <1>6 DEF Register, HandleHeartbeat
  <2> QED
    BY <2>1, <2>2, Away
<1>7. CASE Flush(d)
  <2>1. UNCHANGED <<pass, sends, sock, link, conn, down, held, local, Own, faults>>
        /\ outbox'[First] = outbox[First]
    BY <1>1, <1>7 DEF Flush, worker, counts, Own
  <2>2. Head(outbox[d]).type \in {"ack", "event", "result", "heartbeat"}
    <3>1. outbox[d] \in Seq(FromWorker) /\ outbox[d] # <<>>
      BY <1>1, <1>7 DEF Flush
    <3>2. Head(outbox[d]) \in FromWorker
      BY <3>1
    <3> QED
      BY <3>2 DEF FromWorker
  <2>3. UNCHANGED <<row, tail>>
    BY <1>7, <2>2, NotHeard DEF Flush
  <2> QED
    BY <2>1, <2>3, Away
<1> QED
  BY <1>2, <1>3, <1>4, <1>5, <1>6, <1>7 DEF Connection

-----------------------------------------------------------------------------
(***************************************************************************)
(* The invariant, and what it says of the task.                            *)
(***************************************************************************)
\* What a worker says leaves the row as it is: an operation of the serializer
\* is going to write it.
LEMMA HearingKeeps ==
    ASSUME NEW e, NEW m, m.type \in {"ack", "event", "result", "heartbeat"}
    PROVE  (Handle(e, m) => row' = row) /\ (Transmit(e, m) => row' = row)
<1>1. Handle(e, m) => row' = row
  BY DEF Handle, HandleAck, HandleEvent, HandleResult, HandleHeartbeat, Report, Write
<1> QED
  BY <1>1 DEF Transmit

LEMMA WorkerKeeps ==
    ASSUME IInv, \/ \E x \in live : Emit(x) \/ Finish(x)
                 \/ \E e \in Executor : Worker(e) \/ Register(e) \/ Flush(e)
    PROVE  UNCHANGED <<row, requests, faults, damage>>
<1>1. /\ \A k : Ack(k).type = "ack"
      /\ \A k, n, s, b : Result(k, n, s, b).type = "result"
      /\ \A x : Event(x).type = "event"
      /\ \A e : Presence(e).type = "heartbeat"
  BY DEF Ack, Result, Event, Presence
<1>2. ASSUME NEW x \in live, Emit(x) \/ Finish(x)
      PROVE  UNCHANGED <<row, requests, faults, damage>>
  <2>1. \E m : m.type \in {"event", "result"} /\ Transmit(x.at, m)
    <3>1. Transmit(x.at, Event(x)) \/ \E k, n, s, b : Transmit(x.at, Result(k, n, s, b))
      BY <1>2 DEF Emit, Finish
    <3> QED
      BY <1>1, <3>1
  <2> QED
    BY <1>2, <2>1, HearingKeeps DEF Emit, Finish, counts
<1>3. ASSUME NEW e \in Executor, ReceiveAssign(e)
      PROVE  UNCHANGED <<row, requests, faults, damage>>
  <2>1. row' = row \/ \E k : Transmit(e, Ack(k))
    BY <1>3 DEF ReceiveAssign
  <2> QED
    BY <1>1, <1>3, <2>1, HearingKeeps DEF ReceiveAssign
<1>4. ASSUME NEW e \in Executor, ReceiveCancel(e)
      PROVE  UNCHANGED <<row, requests, faults, damage>>
  <2>1. row' = row \/ \E k, b : Transmit(e, Result(k, 0, "cancelled", b))
    BY <1>4 DEF ReceiveCancel
  <2> QED
    BY <1>1, <1>4, <2>1, HearingKeeps DEF ReceiveCancel, counts
<1>5. ASSUME NEW e \in Executor, Heartbeat(e) \/ Start(e)
      PROVE  UNCHANGED <<row, requests, faults, damage>>
  BY <1>1, <1>5, HearingKeeps DEF Heartbeat, Start, counts, server
<1>6. ASSUME NEW e \in Executor, Register(e) PROVE UNCHANGED <<row, requests, faults, damage>>
  BY <1>6 DEF Register, HandleHeartbeat, Report, counts
<1>7. ASSUME NEW e \in Executor, Flush(e) PROVE UNCHANGED <<row, requests, faults, damage>>
  <2>1. Head(outbox[e]).type \in {"ack", "event", "result", "heartbeat"}
    <3>1. outbox[e] \in Seq(FromWorker) /\ outbox[e] # <<>>
      BY <1>7 DEF Flush, IInv, Messages, OutboxFacts
    <3>2. Head(outbox[e]) \in FromWorker
      BY <3>1
    <3> QED
      BY <3>2 DEF FromWorker
  <2> QED
    BY <1>7, <2>1, HearingKeeps DEF Flush, counts
<1> QED
  BY <1>2, <1>3, <1>4, <1>5, <1>6, <1>7 DEF Worker

\* Requests and faults are counted, damage is remembered, and to open a task
\* that has ended is damage or a request.
LEMMA StillAlone ==
    ASSUME IInv, [Next]_vars, Alone'
    PROVE  Alone
<1>1. requests \in Nat /\ faults \in Nat /\ damage \in BOOLEAN
  BY DEF IInv, Network
<1> SUFFICES /\ requests' \in {requests, requests + 1} /\ faults' \in {faults, faults + 1}
             /\ damage => damage'
             /\ row.status \in Final => requests' > 0 \/ damage' \/ row'.status \in Final
  BY <1>1 DEF Alone
<1> DEFINE Goal == /\ requests' \in {requests, requests + 1} /\ faults' \in {faults, faults + 1}
                   /\ damage => damage'
                   /\ row.status \in Final => requests' > 0 \/ damage' \/ row'.status \in Final
<1>2. CASE SyncWrite \/ \E s \in sends : Send(s)
  BY <1>2 DEF SyncWrite, Send, NoteReopened, counts
<1>3. CASE Reclaim \/ Pick \/ Claim
  <2>1. row.status \in Final => row' = row
    BY <1>3 DEF Reclaim, Pick, Claim, Final
  <2>2. UNCHANGED <<requests, faults, damage>>
    BY <1>3 DEF Reclaim, Pick, Claim, counts
  <2> QED
    BY <2>1, <2>2
<1>4. CASE User
  <2>1. requests' = requests + 1 /\ UNCHANGED <<faults, damage>>
    BY <1>4 DEF User, Assign, Takeover, Retry, Cancel, Request
  <2> QED
    BY <1>1, <2>1
<1>5. CASE \/ \E x \in live : Emit(x) \/ Finish(x)
           \/ \E e \in Executor : Worker(e) \/ Register(e) \/ Flush(e)
  BY <1>5, WorkerKeeps
<1>6. CASE \E e \in Executor : Break(e) \/ Crash(e) \/ WorkerNotices(e) \/ ServerNotices(e)
                               \/ Connect(e)
  <2>1. row' = row /\ requests' = requests /\ faults' \in {faults, faults + 1}
    BY <1>6 DEF Break, Crash, Strike, WorkerNotices, ServerNotices, Connect, server, counts
  <2>2. damage => damage'
    BY <1>6 DEF Break, Crash, WorkerNotices, ServerNotices, Connect
  <2> QED
    BY <2>1, <2>2
<1>7. CASE \E e \in Executor : HeartbeatTimeout(e)
  BY <1>7 DEF HeartbeatTimeout, Report, counts, Final
<1>8. CASE UNCHANGED vars
  BY <1>8 DEF vars
<1> HIDE DEF Goal
<1> QED
  BY <1>2, <1>3, <1>4, <1>5, <1>6, <1>7, <1>8 DEF Next, ServerStep, Connection, Goal

LEMMA UnderWay ==
    ASSUME Place, down[First] # <<>>
    PROVE  Head(down[First]).type = "assign"
<1>1. PICK n \in Nat : down[First] = <<[type |-> "assign", key |-> 1, base |-> n]>>
  BY DEF Place
<1> QED
  BY <1>1

LEMMA CoreStep ==
    ASSUME Prompt, IInv, Core, Alone, Alone', [Next]_vars
    PROVE  Core'
<1>1. First \in Executor /\ row.exec = First /\ row.status \notin Final /\ ~damage'
      /\ requests' = 0 /\ requests \in Nat
  BY Typed DEF Core, Alone, IInv, Network
<1>2. CASE ServerStep
  BY <1>2, SyncWriteAttends, ReclaimAttends, PickAttends, ClaimAttends DEF ServerStep
<1>3. CASE User
  <2>1. requests' = requests + 1
    BY <1>3 DEF User, Assign, Takeover, Retry, Cancel, Request
  <2> QED
    BY <1>1, <2>1
<1>4. CASE \E s \in sends : Send(s)
  BY <1>4, SendAttends, SendFailsAttends
<1>5. ASSUME NEW x \in live, Emit(x) \/ Finish(x) PROVE Core'
  BY <1>1, <1>5, EmitAttends, FinishAttends, RunAway DEF Own
<1>6. ASSUME NEW e \in Executor, e # First, Worker(e) \/ Connection(e) PROVE Core'
  BY <1>6, WorkerAway, ConnectionAway
<1>7. CASE Worker(First)
  <2>1. ~ReceiveCancel(First)
    BY UnderWay DEF Core, ReceiveCancel
  <2> QED
    BY <1>7, <2>1, ReceiveAttends, HeartbeatAttends, StartAttends DEF Worker
<1>8. CASE Connection(First)
  BY <1>1, <1>8, BreakAttends, NoticesAttends, HeartbeatTimeoutAttends, ConnectAttends,
     RegisterAttends, FlushAttends DEF Connection
<1>9. CASE UNCHANGED vars
  <2>1. near' = near /\ faults' = faults
    BY <1>9 DEF vars, near, Own
  <2> QED
    BY <2>1, Elsewhere DEF IInv, Network
<1> QED
  BY <1>2, <1>3, <1>4, <1>5, <1>6, <1>7, <1>8, <1>9 DEF Next

LEMMA AttendedInitially == Init => AInv
<1> SUFFICES ASSUME Init PROVE Core
  BY DEF AInv
<1>1. First \in Executor
  BY DispatchAssumption DEF DispatchAssumption
<1>2. /\ row.status = "queued" /\ row.exec = First /\ row.key = 1 /\ row.seq = 0
      /\ tail = <<>> /\ Len(tail) = 0 /\ pass = {} /\ sends = {} /\ faults = 0
      /\ First \in sock /\ First \in link /\ conn[First] = "ready" /\ down[First] = <<>>
      /\ outbox[First] = <<>> /\ Len(outbox[First]) = 0 /\ Len(down[First]) = 0
      /\ held[First] = NoTask /\ local[First] = "none" /\ Own = {}
  BY <1>1 DEF Init, Own
<1>3. row \in Row
  BY <1>1 DEF Init, Row, Status, Key, Seqno
<1>4. Place
  <2>1. Tidy(row, tail)
    BY <1>2, <1>3 DEF Tidy
  <2> QED
    BY <1>2, <2>1 DEF Place
<1>5. Got = {} /\ Under = {} /\ Sent = {}
  BY <1>2 DEF Got, Under, Sent
<1>6. Below(2)
  BY <1>2 DEF Below, TailBelow, OutBelow
<1>7. Order
  BY <1>2, <1>5, <1>6 DEF Order, Ordered
<1>8. Claimed /\ Kept /\ Attending
  BY <1>2 DEF Claimed, Low, Kept, Attending, Quiet
<1> QED
  BY <1>4, <1>7, <1>8 DEF Core

LEMMA CoreMoves ==
    ASSUME IInv, Core, row.status \notin Final \cup {"lost"}
    PROVE  Moves
<1> USE DEF Core
<1>1. row.exec = First /\ row.key = 1
  BY Typed
<1>2. CASE First \notin link
  BY <1>1, <1>2 DEF Moves
<1>3. CASE local[First] = "running"
  <2>1. PICK x \in Own : TRUE
    BY <1>3 DEF Place
  <2>2. x \in live /\ x.at = First /\ x.key = 1 /\ x.seq \in Nat /\ x.step \in Nat
        /\ Origin(x) \in Nat /\ row.seq \in Nat
    BY Typed
  <2>3. row.seq <= Origin(x) + 2
    BY DEF Order, Got, Below, TailBelow
  <2>4. x.seq + (Step - x.step) + 1 > row.seq
    BY <2>2, <2>3 DEF Origin, Step
  <2> QED
    BY <1>1, <2>2, <2>4 DEF Moves
<1>4. CASE local[First] = "queued"
  BY <1>1, <1>4 DEF Moves, Place
<1>5. CASE down[First] # <<>>
  <2>1. Head(down[First]).type = "assign"
    BY <1>5, UnderWay
  <2> QED
    BY <1>1, <1>5, <2>1 DEF Moves
<1>6. CASE sends # {}
  BY <1>6 DEF Moves
<1>7. CASE Answer
  <2>1. CASE tail # <<>>
    BY <2>1 DEF Moves
  <2>2. ASSUME NEW i \in 1..Len(outbox[First]), outbox[First][i].type = "result",
               Below(outbox[First][i].seq - 1)
        PROVE  Moves
    <3>1. row.seq <= outbox[First][i].seq - 1
      BY <2>2 DEF Below, TailBelow
    <3>2. outbox[First][i].seq \in Nat /\ row.seq \in Nat /\ outbox[First][i].key = 1
      BY Typed
    <3>3. Answers(outbox[First][i])
      BY <1>1, <2>2, <3>1, <3>2 DEF Answers
    <3> QED
      BY <1>1, <3>3 DEF Moves
  <2>3. tail = <<>> => Len(tail) = 0
    OBVIOUS
  <2> QED
    BY <1>7, <2>1, <2>2, <2>3 DEF Answer
<1>8. CASE Quiet
  BY <1>8 DEF Quiet, Moves
<1> QED
  BY <1>2, <1>3, <1>4, <1>5, <1>6, <1>7, <1>8, Typed DEF Attending

\* A task that no user touches is always in somebody's hands, for any executors,
\* any number of executions and operations, and whatever order messages, leases
\* and timeouts come in, as long as the server's own steps take less than its
\* timeouts and at most one connection has broken or one worker has restarted:
\* the executor that was claimed for it will hear of it, has it, or has said how
\* it ended, in a result that no event still under way makes out of date
\* (task-sync.ts:268-424, executor-ws-message-handler.ts:303-337).
THEOREM AlwaysAttended ==
    ASSUME Prompt
    PROVE  Spec => [](faults <= 1 => Attended)
<1>1. IInv /\ AInv /\ [Next]_vars => AInv'
  BY StillAlone, CoreStep DEF AInv
<1>2. IInv /\ AInv => (faults <= 1 => Attended)
  BY CoreMoves DEF AInv, Alone, Attended
<1> QED
  BY <1>1, <1>2, AttendedInitially, Invariant, PTL DEF Spec
=============================================================================
