------------------------ MODULE TaskChatQueue_proofs ------------------------
(***************************************************************************)
(* Theorems about TaskChatQueue, for any number of nodes and messages and  *)
(* any values of the bounds.                                               *)
(***************************************************************************)
EXTENDS TaskChatQueue, TLAPS

USE DEF Drain, User, Sweep, Sync

\* Facts about the constants of the module that every proof needs: its labels,
\* the labels a SELECT goes on to, its workers, and the rows it writes.
LEMMA Labels ==
    {"idle", "head", "insert", "takeover", "enqueue", "lookup", "relookup_read", "relookup",
     "lookup_again", "queued_read", "queued", "removed_read", "removed", "leases",
     "swept_read", "swept", "synced", "check", "claim", "claimed_read", "claimed",
     "missed_read", "missed", "run", "complete", "completed_read", "completed", "release",
     "abandon", "abandoned_read", "abandoned", "refund", "unlock_loop", "unlock_stop",
     "unlock_done", "unlock_failed"} \subseteq PC
  BY DEF PC, Reading, AfterRead, Preparing, Running, Failing, Ending

LEMMA ReadLabels ==
    ASSUME NEW l \in Reading
    PROVE  /\ AfterRead[l] \in PC
           /\ AfterRead[l] \in Preparing \cup Running \cup Failing \cup Ending
                <=> l \in Preparing \cup Running \cup Failing \cup Ending
  BY DEF Reading, AfterRead, PC, Preparing, Running, Failing, Ending

LEMMA Workers ==
    /\ \A n \in Node : Of(n) \subseteq Worker
    /\ \A n \in Node : Drain(n) \in Worker /\ User(n) \in Worker
                          /\ Sweep(n) \in Worker /\ Sync(n) \in Worker
    /\ \A w \in Worker : w[1] \in Node
    /\ NoWorker \notin Worker
  BY QueueAssumption DEF QueueAssumption, Of, Worker

LEMMA WrittenRows ==
    /\ Gone("gone") \in Row /\ Gone("done") \in Row
    /\ \A r \in 0..MaxRetries : Unclaimed("pending", r) \in Row
    /\ Unclaimed("pending", 0) \in Row
    /\ \A r \in Row, w \in Worker :
        [r EXCEPT !.status = "claimed", !.claim = w, !.left = TTL] \in Row
    /\ \A r \in Row : [r EXCEPT !.left = Older(@)] \in Row
    /\ \A r \in Row : r.retry \in 0..MaxRetries
<1> USE QueueAssumption DEF QueueAssumption, Row
<1>1. Gone("gone") \in Row /\ Gone("done") \in Row
  BY DEF Gone, Unclaimed, Status
<1>2. /\ \A r \in 0..MaxRetries : Unclaimed("pending", r) \in Row
      /\ Unclaimed("pending", 0) \in Row
  BY DEF Unclaimed, Status
<1>3. ASSUME NEW r \in Row, NEW w \in Worker
      PROVE  [r EXCEPT !.status = "claimed", !.claim = w, !.left = TTL] \in Row
  <2>1. [r EXCEPT !.status = "claimed"] \in Row
    BY DEF Status
  <2>2. \A s \in Row : [s EXCEPT !.claim = w] \in Row
    OBVIOUS
  <2>3. \A s \in Row : [s EXCEPT !.left = TTL] \in Row
    OBVIOUS
  <2>4. [r EXCEPT !.status = "claimed", !.claim = w, !.left = TTL]
          = [[[r EXCEPT !.status = "claimed"] EXCEPT !.claim = w] EXCEPT !.left = TTL]
    OBVIOUS
  <2> HIDE DEF Row
  <2> QED
    BY <2>1, <2>2, <2>3, <2>4
<1>4. \A r \in Row : [r EXCEPT !.left = Older(@)] \in Row
  BY DEF Older
<1>5. \A r \in Row : r.retry \in 0..MaxRetries
  OBVIOUS
<1> QED
  BY <1>1, <1>2, <1>3, <1>4, <1>5

LEMMA WrittenLeases ==
    LET Lease == [id : Worker \cup {NoWorker}, left : -1..TTL] IN
    /\ NoLease \in Lease
    /\ \A w \in Worker : [id |-> w, left |-> TTL] \in Lease
    /\ \A l \in Lease : [l EXCEPT !.left = TTL] \in Lease
    /\ \A l \in Lease : [l EXCEPT !.left = Older(@)] \in Lease
  BY QueueAssumption DEF QueueAssumption, NoLease, Older

LEMMA TypeInit == Init => TypeOK
  BY QueueAssumption, Labels DEF QueueAssumption, Init, TypeOK, Row, Status, Gone, Unclaimed,
     NoLease

\* Moving one worker to a label, and writing one row.
LEMMA Goes ==
    ASSUME TypeOK, NEW w \in Worker, NEW l \in PC, Goto(w, l)
    PROVE  pc' \in [Worker -> PC]
  BY DEF TypeOK, Goto

LEMMA Writes ==
    ASSUME TypeOK, NEW i, NEW r \in Row
    PROVE  [rows EXCEPT ![i] = r] \in [Item -> Row]
  BY DEF TypeOK

\* The two ways in which a step moves a drain loop besides its own label.
LEMMA Returning ==
    ASSUME TypeOK, NEW n \in Node, DrainReturns(n)
    PROVE  /\ pc' \in [Worker -> PC] /\ again' \in [Node -> BOOLEAN]
           /\ item' \in [Worker -> Item \cup {NoItem}]
<1>1. pc' \in [Worker -> PC]
  BY Labels DEF TypeOK, DrainReturns
<1>2. again' \in [Node -> BOOLEAN]
  BY DEF TypeOK, DrainReturns
<1>3. item' \in [Worker -> Item \cup {NoItem}]
  BY DEF TypeOK, DrainReturns
<1> QED
  BY <1>1, <1>2, <1>3

LEMMA Schedules ==
    ASSUME TypeOK, NEW n \in Node, NEW p \in [Worker -> PC], Scheduling(p, n)
    PROVE  pc' \in [Worker -> PC] /\ again' \in [Node -> BOOLEAN]
<1>1. pc' \in [Worker -> PC]
  BY Labels DEF TypeOK, Scheduling
<1>2. again' \in [Node -> BOOLEAN]
  BY DEF TypeOK, Scheduling
<1> QED
  BY <1>1, <1>2

\* Every step keeps every variable in its type.
LEMMA TypeStep == TypeOK /\ [Next]_vars => TypeOK'
<1> SUFFICES ASSUME TypeOK, [Next]_vars PROVE TypeOK'
  OBVIOUS
<1> USE QueueAssumption, Workers DEF QueueAssumption
<1>typed. /\ rows \in [Item -> Row]
          /\ lease \in [id : Worker \cup {NoWorker}, left : -1..TTL]
          /\ pc \in [Worker -> PC]
          /\ item \in [Worker -> Item \cup {NoItem}]
          /\ snap \in [Worker -> SUBSET Item]
          /\ slot \in [Node -> BOOLEAN]
          /\ again \in [Node -> BOOLEAN]
          /\ mirror \in [Node -> SUBSET Item]
          /\ home \in Node \cup {NoNode}
          /\ moves \in 0..MaxMoves
          /\ up \subseteq Node
          /\ crashes \in 0..MaxCrashes
          /\ started \in [Item -> Nat]
  BY DEF TypeOK
<1>rows. rows \in [Item -> Row]
  BY <1>typed
<1>lease. lease \in [id : Worker \cup {NoWorker}, left : -1..TTL]
  BY <1>typed
<1>pc. pc \in [Worker -> PC]
  BY <1>typed
<1>item. item \in [Worker -> Item \cup {NoItem}]
  BY <1>typed
<1>snap. snap \in [Worker -> SUBSET Item]
  BY <1>typed
<1>slot. slot \in [Node -> BOOLEAN]
  BY <1>typed
<1>again. again \in [Node -> BOOLEAN]
  BY <1>typed
<1>mirror. mirror \in [Node -> SUBSET Item]
  BY <1>typed
<1>home. home \in Node \cup {NoNode}
  BY <1>typed
<1>moves. moves \in 0..MaxMoves
  BY <1>typed
<1>up. up \subseteq Node
  BY <1>typed
<1>crashes. crashes \in 0..MaxCrashes
  BY <1>typed
<1>started. started \in [Item -> Nat]
  BY <1>typed
<1>1. ASSUME NEW w \in Worker, Select(w) PROVE TypeOK'
  <2>1. pc' \in [Worker -> PC]
    BY <1>1, <1>pc, ReadLabels DEF Select, Pending, Goto, db, local, env
  <2>2. snap' \in [Worker -> SUBSET Item]
    BY <1>1, <1>snap DEF Select, Pending, Goto, db, local, env
  <2>3. UNCHANGED <<rows, lease, item, slot, again, mirror, home, moves, up, crashes, started>>
    BY <1>1 DEF Select, db, local, env
  <2> QED
    BY <2>1, <2>2, <2>3 DEF TypeOK
<1>2. ASSUME NEW w \in Worker, InsertLease(w) PROVE TypeOK'
  <2>1. rows' \in [Item -> Row]
    <3>1. [rows EXCEPT ![item[w]] = Gone("gone")] \in [Item -> Row]
      BY WrittenRows, Writes
    <3>2. rows' = rows \/ rows' = [rows EXCEPT ![item[w]] = Gone("gone")]
      BY <1>2 DEF InsertLease, Acquired, db
    <3> QED
      BY <3>1, <3>2, <1>rows
  <2>2. lease' \in [id : Worker \cup {NoWorker}, left : -1..TTL]
    BY <1>2, <1>lease, WrittenLeases DEF InsertLease, Acquired, Goto, db, local, env
  <2>3. pc' \in [Worker -> PC]
    BY <1>2, <1>pc, Labels, Goes DEF InsertLease, Acquired, db, local, env
  <2>4. slot' \in [Node -> BOOLEAN]
    BY <1>2, <1>slot DEF InsertLease, Acquired, Goto, db, local, env
  <2>5. started' \in [Item -> Nat]
    BY <1>2, <1>started DEF InsertLease, Acquired, Goto, db, local, env
  <2>6. UNCHANGED <<item, snap, again, mirror, home, moves, up, crashes>>
    BY <1>2 DEF InsertLease, Acquired, Goto, db, local, env
  <2> QED
    BY <2>1, <2>2, <2>3, <2>4, <2>5, <2>6 DEF TypeOK
<1>3. ASSUME NEW w \in Worker, TakeoverLease(w) PROVE TypeOK'
  <2>1. rows' \in [Item -> Row]
    <3>1. [rows EXCEPT ![item[w]] = Gone("gone")] \in [Item -> Row]
      BY WrittenRows, Writes
    <3>2. rows' = rows \/ rows' = [rows EXCEPT ![item[w]] = Gone("gone")]
      BY <1>3 DEF TakeoverLease, Acquired, db
    <3> QED
      BY <3>1, <3>2, <1>rows
  <2>2. lease' \in [id : Worker \cup {NoWorker}, left : -1..TTL]
    BY <1>3, <1>lease, WrittenLeases DEF TakeoverLease, Acquired, Goto, db, local, env
  <2>3. pc' \in [Worker -> PC]
    BY <1>3, <1>pc, Labels, Goes, Returning DEF TakeoverLease, Acquired, db, local, env
  <2>4. item' \in [Worker -> Item \cup {NoItem}]
    BY <1>3, <1>item, Returning DEF TakeoverLease, Acquired, Goto, db, local, env
  <2>5. slot' \in [Node -> BOOLEAN]
    BY <1>3, <1>slot DEF TakeoverLease, Acquired, Goto, db, local, env
  <2>6. again' \in [Node -> BOOLEAN]
    BY <1>3, <1>again, Returning DEF TakeoverLease, Acquired, Goto, db, local, env
  <2>7. started' \in [Item -> Nat]
    BY <1>3, <1>started DEF TakeoverLease, Acquired, Goto, db, local, env
  <2>8. UNCHANGED <<snap, mirror, home, moves, up, crashes>>
    BY <1>3 DEF TakeoverLease, Acquired, Goto, db, local, env
  <2> QED
    BY <2>1, <2>2, <2>3, <2>4, <2>5, <2>6, <2>7, <2>8 DEF TypeOK
<1>4. ASSUME NEW w \in Worker, Enqueue(w) PROVE TypeOK'
  <2>1. rows' \in [Item -> Row]
    <3>1. [rows EXCEPT ![item[w]] = Unclaimed("pending", 0)] \in [Item -> Row]
      BY WrittenRows, Writes
    <3>2. rows' = rows \/ rows' = [rows EXCEPT ![item[w]] = Unclaimed("pending", 0)]
      BY <1>4 DEF Enqueue
    <3> QED
      BY <3>1, <3>2, <1>rows
  <2>2. pc' \in [Worker -> PC]
    BY <1>4, <1>pc, Labels, Goes DEF Enqueue, db, local, env
  <2>3. UNCHANGED <<lease, item, snap, slot, again, mirror, home, moves, up, crashes, started>>
    BY <1>4 DEF Enqueue, db, local, env
  <2> QED
    BY <2>1, <2>2, <2>3 DEF TypeOK
<1>5. ASSUME NEW w \in Worker, Lookup(w) PROVE TypeOK'
  <2>1. rows' \in [Item -> Row]
    <3>1. [rows EXCEPT ![item[w]] = Gone("gone")] \in [Item -> Row]
      BY WrittenRows, Writes
    <3>2. rows' = rows \/ rows' = [rows EXCEPT ![item[w]] = Gone("gone")]
      BY <1>5 DEF Lookup
    <3> QED
      BY <3>1, <3>2, <1>rows
  <2>2. pc' \in [Worker -> PC]
    BY <1>5, <1>pc, Labels, Goes DEF Lookup, db, local, env
  <2>3. item' \in [Worker -> Item \cup {NoItem}]
    BY <1>5, <1>item DEF Lookup, Goto, db, local, env
  <2>4. UNCHANGED <<lease, snap, slot, again, mirror, home, moves, up, crashes, started>>
    BY <1>5 DEF Lookup, db, local, env
  <2> QED
    BY <2>1, <2>2, <2>3, <2>4 DEF TypeOK
<1>6. ASSUME NEW w \in Worker, LookAgain(w) PROVE TypeOK'
  <2>1. pc' \in [Worker -> PC]
    BY <1>6, <1>pc, Labels, Goes DEF LookAgain, Assign, db, local, env
  <2>2. snap' \in [Worker -> SUBSET Item]
    BY <1>6, <1>snap DEF LookAgain, Goto, Assign, db, local, env
  <2>3. mirror' \in [Node -> SUBSET Item]
    BY <1>6, <1>mirror, <1>snap DEF LookAgain, Goto, Assign, db, local, env
  <2>4. UNCHANGED <<rows, lease, item, slot, again, home, moves, up, crashes, started>>
    BY <1>6 DEF LookAgain, db, local, env
  <2> QED
    BY <2>1, <2>2, <2>3, <2>4 DEF TypeOK
<1>7. ASSUME NEW w \in Worker, TurnSucceeds(w) PROVE TypeOK'
  <2>1. pc' \in [Worker -> PC]
    BY <1>7, <1>pc, Labels, Goes DEF TurnSucceeds, FreeSlot, db, local, env
  <2>2. slot' \in [Node -> BOOLEAN]
    BY <1>7, <1>slot DEF TurnSucceeds, Goto, FreeSlot, db, local, env
  <2>3. UNCHANGED <<rows, lease, item, snap, again, mirror, home, moves, up, crashes, started>>
    BY <1>7 DEF TurnSucceeds, db, local, env
  <2> QED
    BY <2>1, <2>2, <2>3 DEF TypeOK
<1>8. ASSUME NEW w \in Worker, TurnThrows(w) PROVE TypeOK'
  <2>1. pc' \in [Worker -> PC]
    BY <1>8, <1>pc, Labels, Goes DEF TurnThrows, FreeSlot, db, local, env
  <2>2. slot' \in [Node -> BOOLEAN]
    BY <1>8, <1>slot DEF TurnThrows, Goto, FreeSlot, db, local, env
  <2>3. UNCHANGED <<rows, lease, item, snap, again, mirror, home, moves, up, crashes, started>>
    BY <1>8 DEF TurnThrows, db, local, env
  <2> QED
    BY <2>1, <2>2, <2>3 DEF TypeOK
<1>9. ASSUME NEW w \in Worker, Renew(w) PROVE TypeOK'
  BY <1>9, WrittenLeases DEF Renew, TypeOK, db, local, env
<1>10. ASSUME NEW n \in Node, Queued(n) PROVE TypeOK'
  <2>1. pc' \in [Worker -> PC]
    BY <1>10, <1>pc, Labels, Schedules DEF Queued, Assign, db, local, env
  <2>2. item' \in [Worker -> Item \cup {NoItem}]
    BY <1>10, <1>item DEF Queued, Assign, db, local, env
  <2>3. snap' \in [Worker -> SUBSET Item]
    BY <1>10, <1>snap DEF Queued, Assign, db, local, env
  <2>4. again' \in [Node -> BOOLEAN]
    BY <1>10, <1>again, <1>pc, Labels, Schedules DEF Queued, Assign, db, local, env
  <2>5. mirror' \in [Node -> SUBSET Item]
    BY <1>10, <1>mirror, <1>snap DEF Queued, Assign, db, local, env
  <2>6. UNCHANGED <<rows, lease, slot, home, moves, up, crashes, started>>
    BY <1>10 DEF Queued, db, local, env
  <2> QED
    BY <2>1, <2>2, <2>3, <2>4, <2>5, <2>6 DEF TypeOK
<1>11. ASSUME NEW n \in Node, Removed(n) PROVE TypeOK'
  <2>1. pc' \in [Worker -> PC]
    BY <1>11, <1>pc, Labels, Goes DEF Removed, Assign, db, local, env
  <2>2. snap' \in [Worker -> SUBSET Item]
    BY <1>11, <1>snap DEF Removed, Goto, Assign, db, local, env
  <2>3. mirror' \in [Node -> SUBSET Item]
    BY <1>11, <1>mirror, <1>snap DEF Removed, Goto, Assign, db, local, env
  <2>4. UNCHANGED <<rows, lease, item, slot, again, home, moves, up, crashes, started>>
    BY <1>11 DEF Removed, db, local, env
  <2> QED
    BY <2>1, <2>2, <2>3, <2>4 DEF TypeOK
<1>12. ASSUME NEW n \in Node, ReadHead(n) PROVE TypeOK'
  <2>1. pc' \in [Worker -> PC]
    BY <1>12, <1>pc, Labels, Goes DEF ReadHead, db, local, env
  <2>2. item' \in [Worker -> Item \cup {NoItem}]
    BY <1>12, <1>item, <1>mirror DEF ReadHead, Goto, db, local, env
  <2>3. UNCHANGED <<rows, lease, snap, slot, again, mirror, home, moves, up, crashes, started>>
    BY <1>12 DEF ReadHead, db, local, env
  <2> QED
    BY <2>1, <2>2, <2>3 DEF TypeOK
<1>13. ASSUME NEW n \in Node, GiveUp(n) PROVE TypeOK'
  <2>1. pc' \in [Worker -> PC]
    BY <1>13, <1>pc, Returning DEF GiveUp, db, local, env
  <2>2. item' \in [Worker -> Item \cup {NoItem}]
    BY <1>13, <1>item, Returning DEF GiveUp, db, local, env
  <2>3. again' \in [Node -> BOOLEAN]
    BY <1>13, <1>again, Returning DEF GiveUp, db, local, env
  <2>4. UNCHANGED <<rows, lease, snap, slot, mirror, home, moves, up, crashes, started>>
    BY <1>13 DEF GiveUp, db, local, env
  <2> QED
    BY <2>1, <2>2, <2>3, <2>4 DEF TypeOK
<1>14. ASSUME NEW n \in Node, Check(n) PROVE TypeOK'
  <2>1. pc' \in [Worker -> PC]
    BY <1>14, <1>pc, Labels, Goes DEF Check, FreeSlot, db, local, env
  <2>2. slot' \in [Node -> BOOLEAN]
    BY <1>14, <1>slot DEF Check, Goto, FreeSlot, db, local, env
  <2>3. UNCHANGED <<rows, lease, item, snap, again, mirror, home, moves, up, crashes, started>>
    BY <1>14 DEF Check, db, local, env
  <2> QED
    BY <2>1, <2>2, <2>3 DEF TypeOK
<1>15. ASSUME NEW n \in Node, Claim(n) PROVE TypeOK'
  <2>1. rows' \in [Item -> Row]
    <3>1. [rows[item[Drain(n)]] EXCEPT !.status = "claimed", !.claim = Drain(n), !.left = TTL]
             \in Row \/ item[Drain(n)] \notin Item
      BY WrittenRows DEF TypeOK
    <3>2. CASE IsHead(item[Drain(n)], Pending)
      <4>1. item[Drain(n)] \in Item
        BY <3>2 DEF IsHead, Pending
      <4>2. rows' = [rows EXCEPT ![item[Drain(n)]] =
                       [@ EXCEPT !.status = "claimed", !.claim = Drain(n), !.left = TTL]]
        BY <1>15, <3>2 DEF Claim
      <4> QED
        BY <3>1, <4>1, <4>2 DEF TypeOK
    <3>3. CASE ~IsHead(item[Drain(n)], Pending)
      BY <1>15, <3>3 DEF Claim, TypeOK
    <3> QED
      BY <3>2, <3>3
  <2>2. pc' \in [Worker -> PC]
    BY <1>15, <1>pc, Labels, Goes DEF Claim, IsHead, Pending, db, local, env
  <2>3. UNCHANGED <<lease, item, snap, slot, again, mirror, home, moves, up, crashes, started>>
    BY <1>15 DEF Claim, db, local, env
  <2> QED
    BY <2>1, <2>2, <2>3 DEF TypeOK
<1>16. ASSUME NEW n \in Node, Missed(n) PROVE TypeOK'
  <2>1. pc' \in [Worker -> PC]
    BY <1>16, <1>pc, Labels, Goes DEF Missed, Assign, FreeSlot, db, local, env
  <2>2. snap' \in [Worker -> SUBSET Item]
    BY <1>16, <1>snap DEF Missed, Goto, Assign, FreeSlot, db, local, env
  <2>3. slot' \in [Node -> BOOLEAN]
    BY <1>16, <1>slot DEF Missed, Goto, Assign, FreeSlot, db, local, env
  <2>4. mirror' \in [Node -> SUBSET Item]
    BY <1>16, <1>mirror, <1>snap DEF Missed, Goto, Assign, FreeSlot, db, local, env
  <2>5. UNCHANGED <<rows, lease, item, again, home, moves, up, crashes, started>>
    BY <1>16 DEF Missed, db, local, env
  <2> QED
    BY <2>1, <2>2, <2>3, <2>4, <2>5 DEF TypeOK
<1>17. ASSUME NEW n \in Node, Configure(n) PROVE TypeOK'
  <2>1. pc' \in [Worker -> PC]
    BY <1>17, <1>pc, Labels, Goes DEF Configure, Assign, db, local, env
  <2>2. snap' \in [Worker -> SUBSET Item]
    BY <1>17, <1>snap DEF Configure, Goto, Assign, db, local, env
  <2>3. mirror' \in [Node -> SUBSET Item]
    BY <1>17, <1>mirror, <1>snap DEF Configure, Goto, Assign, db, local, env
  <2>4. started' \in [Item -> Nat]
    BY <1>17, <1>started DEF Configure, Goto, Assign, db, local, env
  <2>5. UNCHANGED <<rows, lease, item, slot, again, home, moves, up, crashes>>
    BY <1>17 DEF Configure, db, local, env
  <2> QED
    BY <2>1, <2>2, <2>3, <2>4, <2>5 DEF TypeOK
<1>18. ASSUME NEW n \in Node, Complete(n) PROVE TypeOK'
  <2>1. rows' \in [Item -> Row]
    <3>1. [rows EXCEPT ![item[Drain(n)]] = Gone("done")] \in [Item -> Row]
      BY WrittenRows, Writes
    <3>2. rows' = rows \/ rows' = [rows EXCEPT ![item[Drain(n)]] = Gone("done")]
      BY <1>18 DEF Complete
    <3> QED
      BY <3>1, <3>2, <1>rows
  <2>2. pc' \in [Worker -> PC]
    BY <1>18, <1>pc, Labels, Goes DEF Complete, db, local, env
  <2>3. UNCHANGED <<lease, item, snap, slot, again, mirror, home, moves, up, crashes, started>>
    BY <1>18 DEF Complete, db, local, env
  <2> QED
    BY <2>1, <2>2, <2>3 DEF TypeOK
<1>19. ASSUME NEW n \in Node, Settle(n) PROVE TypeOK'
  <2>1. pc' \in [Worker -> PC]
    BY <1>19, <1>pc, Labels, Goes DEF Settle, Assign, FreeSlot, db, local, env
  <2>2. snap' \in [Worker -> SUBSET Item]
    BY <1>19, <1>snap DEF Settle, Goto, Assign, FreeSlot, db, local, env
  <2>3. slot' \in [Node -> BOOLEAN]
    BY <1>19, <1>slot DEF Settle, Goto, Assign, FreeSlot, db, local, env
  <2>4. mirror' \in [Node -> SUBSET Item]
    BY <1>19, <1>mirror, <1>snap DEF Settle, Goto, Assign, FreeSlot, db, local, env
  <2>5. UNCHANGED <<rows, lease, item, again, home, moves, up, crashes, started>>
    BY <1>19 DEF Settle, db, local, env
  <2> QED
    BY <2>1, <2>2, <2>3, <2>4, <2>5 DEF TypeOK
<1>20. ASSUME NEW n \in Node, Release(n) PROVE TypeOK'
  <2>1. rows' \in [Item -> Row]
    <3> DEFINE i == item[Drain(n)]
    <3>1. CASE ~Claimed(i, Drain(n))
      BY <1>20, <3>1 DEF Release, ReleaseTo, TypeOK
    <3>2. CASE Claimed(i, Drain(n)) /\ rows[i].retry + 1 > MaxRetries
      BY <1>20, <3>2, WrittenRows, Writes DEF Release, ReleaseTo
    <3>3. CASE Claimed(i, Drain(n)) /\ ~(rows[i].retry + 1 > MaxRetries) /\ i \in Item
      <4>1. rows[i].retry + 1 \in 0..MaxRetries
        <5>1. rows[i].retry \in 0..MaxRetries
          BY <3>3, <1>rows, WrittenRows
        <5> QED
          BY <5>1, <3>3
      <4> QED
        BY <1>20, <3>3, <4>1, WrittenRows, Writes DEF Release, ReleaseTo
    <3>4. CASE i \notin Item
      BY <1>20, <3>4 DEF Release, ReleaseTo, TypeOK
    <3> QED
      BY <3>1, <3>2, <3>3, <3>4
  <2>2. pc' \in [Worker -> PC]
    BY <1>20, <1>pc, Labels, Goes DEF Release, ReleaseTo, FreeSlot, Claimed, db, local, env
  <2>3. slot' \in [Node -> BOOLEAN]
    BY <1>20, <1>slot DEF Release, ReleaseTo, Goto, FreeSlot, Claimed, db, local, env
  <2>4. UNCHANGED <<lease, item, snap, again, mirror, home, moves, up, crashes, started>>
    BY <1>20 DEF Release, ReleaseTo, Goto, FreeSlot, Claimed, db, local, env
  <2> QED
    BY <2>1, <2>2, <2>3, <2>4 DEF TypeOK
<1>21. ASSUME NEW n \in Node, UnlockDrain(n) PROVE TypeOK'
  <2>1. lease' \in [id : Worker \cup {NoWorker}, left : -1..TTL]
    BY <1>21, <1>lease, WrittenLeases DEF UnlockDrain, DeleteLease, Goto, db, local, env
  <2>2. pc' \in [Worker -> PC]
    BY <1>21, <1>pc, Labels, Goes, Returning DEF UnlockDrain, DeleteLease, db, local, env
  <2>3. item' \in [Worker -> Item \cup {NoItem}]
    BY <1>21, <1>item, Returning DEF UnlockDrain, DeleteLease, Goto, db, local, env
  <2>4. again' \in [Node -> BOOLEAN]
    BY <1>21, <1>again, Returning DEF UnlockDrain, DeleteLease, Goto, db, local, env
  <2>5. UNCHANGED <<rows, snap, slot, mirror, home, moves, up, crashes, started>>
    BY <1>21 DEF UnlockDrain, db, local, env
  <2> QED
    BY <2>1, <2>2, <2>3, <2>4, <2>5 DEF TypeOK
<1>22. ASSUME NEW n \in Node, UnlockUser(n) PROVE TypeOK'
  <2>1. lease' \in [id : Worker \cup {NoWorker}, left : -1..TTL]
    BY <1>22, <1>lease, WrittenLeases DEF UnlockUser, DeleteLease, db, local, env
  <2>2. pc' \in [Worker -> PC]
    BY <1>22, <1>pc, Labels, Schedules DEF UnlockUser, DeleteLease, db, local, env
  <2>3. item' \in [Worker -> Item \cup {NoItem}]
    BY <1>22, <1>item DEF UnlockUser, DeleteLease, db, local, env
  <2>4. again' \in [Node -> BOOLEAN]
    BY <1>22, <1>again, <1>pc, Labels, Schedules DEF UnlockUser, DeleteLease, db, local, env
  <2>5. UNCHANGED <<rows, snap, slot, mirror, home, moves, up, crashes, started>>
    BY <1>22 DEF UnlockUser, db, local, env
  <2> QED
    BY <2>1, <2>2, <2>3, <2>4, <2>5 DEF TypeOK
<1>23. ASSUME NEW n \in Node, SlotExpires(n) PROVE TypeOK'
  BY <1>23 DEF SlotExpires, FreeSlot, TypeOK, db, local, env
<1>24. ASSUME NEW n \in Node, SweepClaims(n) PROVE TypeOK'
  <2>1. rows' \in [Item -> Row]
    <3>1. ASSUME NEW i \in Item PROVE Unclaimed("pending", rows[i].retry + 0) \in Row
      <4>1. rows[i].retry \in 0..MaxRetries
        BY <1>rows, WrittenRows
      <4>2. rows[i].retry + 0 = rows[i].retry
        BY <4>1
      <4> QED
        BY <4>1, <4>2, WrittenRows
    <3> QED
      BY <1>24, <3>1 DEF SweepClaims, SweepTo, TypeOK
  <2>2. pc' \in [Worker -> PC]
    BY <1>24, <1>pc, Labels, Goes DEF SweepClaims, SweepTo, Expired, db, local, env
  <2>3. item' \in [Worker -> Item \cup {NoItem}]
    BY <1>24, <1>item DEF SweepClaims, SweepTo, Goto, Expired, db, local, env
  <2>4. UNCHANGED <<lease, snap, slot, again, mirror, home, moves, up, crashes, started>>
    BY <1>24 DEF SweepClaims, SweepTo, Goto, Expired, db, local, env
  <2> QED
    BY <2>1, <2>2, <2>3, <2>4 DEF TypeOK
<1>25. ASSUME NEW n \in Node, SweepLeases(n) PROVE TypeOK'
  <2>1. lease' \in [id : Worker \cup {NoWorker}, left : -1..TTL]
    BY <1>25, <1>lease, WrittenLeases DEF SweepLeases, Goto, db, local, env
  <2>2. pc' \in [Worker -> PC]
    BY <1>25, <1>pc, Labels, Goes DEF SweepLeases, db, local, env
  <2>3. UNCHANGED <<rows, item, snap, slot, again, mirror, home, moves, up, crashes, started>>
    BY <1>25 DEF SweepLeases, db, local, env
  <2> QED
    BY <2>1, <2>2, <2>3 DEF TypeOK
<1>26. ASSUME NEW n \in Node, Swept(n) PROVE TypeOK'
  <2>1. pc' \in [Worker -> PC]
    BY <1>26, <1>pc, Labels, Schedules DEF Swept, Assign, db, local, env
  <2>2. item' \in [Worker -> Item \cup {NoItem}]
    BY <1>26, <1>item DEF Swept, Assign, db, local, env
  <2>3. snap' \in [Worker -> SUBSET Item]
    BY <1>26, <1>snap DEF Swept, Assign, db, local, env
  <2>4. again' \in [Node -> BOOLEAN]
    BY <1>26, <1>again, <1>pc, Labels, Schedules DEF Swept, Assign, db, local, env
  <2>5. mirror' \in [Node -> SUBSET Item]
    BY <1>26, <1>mirror, <1>snap DEF Swept, Assign, db, local, env
  <2>6. UNCHANGED <<rows, lease, slot, home, moves, up, crashes, started>>
    BY <1>26 DEF Swept, db, local, env
  <2> QED
    BY <2>1, <2>2, <2>3, <2>4, <2>5, <2>6 DEF TypeOK
<1>27. ASSUME NEW n \in Node, SyncRead(n) PROVE TypeOK'
  <2>1. pc' \in [Worker -> PC]
    BY <1>27, <1>pc, Labels, Goes DEF SyncRead, Pending, db, local, env
  <2>2. snap' \in [Worker -> SUBSET Item]
    BY <1>27, <1>snap DEF SyncRead, Goto, Pending, db, local, env
  <2>3. UNCHANGED <<rows, lease, item, slot, again, mirror, home, moves, up, crashes, started>>
    BY <1>27 DEF SyncRead, db, local, env
  <2> QED
    BY <2>1, <2>2, <2>3 DEF TypeOK
<1>28. ASSUME NEW n \in Node, Synced(n) PROVE TypeOK'
  <2>1. pc' \in [Worker -> PC]
    BY <1>28, <1>pc, Labels, Goes DEF Synced, Assign, db, local, env
  <2>2. snap' \in [Worker -> SUBSET Item]
    BY <1>28, <1>snap DEF Synced, Goto, Assign, db, local, env
  <2>3. mirror' \in [Node -> SUBSET Item]
    BY <1>28, <1>mirror, <1>snap DEF Synced, Goto, Assign, db, local, env
  <2>4. UNCHANGED <<rows, lease, item, slot, again, home, moves, up, crashes, started>>
    BY <1>28 DEF Synced, db, local, env
  <2> QED
    BY <2>1, <2>2, <2>3, <2>4 DEF TypeOK
<1>29. ASSUME NEW n \in Node, ClientOpens(n) PROVE TypeOK'
  <2>1. pc' \in [Worker -> PC]
    BY <1>29, <1>pc, Schedules DEF ClientOpens, db, local, env
  <2>2. again' \in [Node -> BOOLEAN]
    BY <1>29, <1>again, <1>pc, Schedules DEF ClientOpens, db, local, env
  <2>3. UNCHANGED <<rows, lease, item, snap, slot, mirror, home, moves, up, crashes, started>>
    BY <1>29 DEF ClientOpens, db, local, env
  <2> QED
    BY <2>1, <2>2, <2>3 DEF TypeOK
<1>30. ASSUME NEW n \in Node, ExecutorConnects(n) PROVE TypeOK'
  <2>1. pc' \in [Worker -> PC]
    BY <1>30, <1>pc, Schedules DEF ExecutorConnects, db, local, env
  <2>2. again' \in [Node -> BOOLEAN]
    BY <1>30, <1>again, <1>pc, Schedules DEF ExecutorConnects, db, local, env
  <2>3. home' \in Node \cup {NoNode}
    BY <1>30, <1>home DEF ExecutorConnects, db, local, env
  <2>4. moves' \in 0..MaxMoves
    BY <1>30, <1>moves DEF ExecutorConnects, db, local, env
  <2>5. UNCHANGED <<rows, lease, item, snap, slot, mirror, up, crashes, started>>
    BY <1>30 DEF ExecutorConnects, db, local, env
  <2> QED
    BY <2>1, <2>2, <2>3, <2>4, <2>5 DEF TypeOK
<1>31. ASSUME NEW n \in Node, Crash(n) PROVE TypeOK'
  <2>1. pc' \in [Worker -> PC]
    BY <1>31, <1>pc, Labels, Goes DEF Crash, FreeSlot, db, local, env
  <2>2. item' \in [Worker -> Item \cup {NoItem}]
    BY <1>31, <1>item DEF Crash, FreeSlot, db, local, env
  <2>3. snap' \in [Worker -> SUBSET Item]
    BY <1>31, <1>snap DEF Crash, FreeSlot, db, local, env
  <2>4. slot' \in [Node -> BOOLEAN]
    BY <1>31, <1>slot DEF Crash, FreeSlot, db, local, env
  <2>5. again' \in [Node -> BOOLEAN]
    BY <1>31, <1>again DEF Crash, FreeSlot, db, local, env
  <2>6. mirror' \in [Node -> SUBSET Item]
    BY <1>31, <1>mirror, <1>snap DEF Crash, FreeSlot, db, local, env
  <2>7. home' \in Node \cup {NoNode}
    BY <1>31, <1>home DEF Crash, FreeSlot, db, local, env
  <2>8. up' \subseteq Node
    BY <1>31, <1>up DEF Crash, FreeSlot, db, local, env
  <2>9. crashes' \in 0..MaxCrashes
    BY <1>31, <1>crashes DEF Crash, FreeSlot, db, local, env
  <2>10. UNCHANGED <<rows, lease, moves, started>>
    BY <1>31 DEF Crash, db, local, env
  <2> QED
    BY <2>1, <2>2, <2>3, <2>4, <2>5, <2>6, <2>7, <2>8, <2>9, <2>10 DEF TypeOK
<1>32. ASSUME NEW n \in Node, Restart(n) PROVE TypeOK'
  <2>1. up' \subseteq Node
    BY <1>32, <1>up DEF Restart, Pending, db, local, env
  <2>2. mirror' \in [Node -> SUBSET Item]
    BY <1>32, <1>mirror, <1>snap DEF Restart, Pending, db, local, env
  <2>3. UNCHANGED <<rows, lease, pc, item, snap, slot, again, home, moves, crashes, started>>
    BY <1>32 DEF Restart, db, local, env
  <2> QED
    BY <2>1, <2>2, <2>3 DEF TypeOK
<1>33. ASSUME NEW n \in Node, NEW i \in Item, SendMessage(n, i) PROVE TypeOK'
  <2>1. pc' \in [Worker -> PC]
    BY <1>33, <1>pc, Labels, Goes DEF SendMessage, db, local, env
  <2>2. item' \in [Worker -> Item \cup {NoItem}]
    BY <1>33, <1>item DEF SendMessage, Goto, db, local, env
  <2>3. UNCHANGED <<rows, lease, snap, slot, again, mirror, home, moves, up, crashes, started>>
    BY <1>33 DEF SendMessage, db, local, env
  <2> QED
    BY <2>1, <2>2, <2>3 DEF TypeOK
<1>34. ASSUME NEW n \in Node, NEW i \in Item, Remove(n, i) PROVE TypeOK'
  <2>1. rows' \in [Item -> Row]
    <3>1. [rows EXCEPT ![i] = Gone("gone")] \in [Item -> Row]
      BY WrittenRows, Writes
    <3>2. rows' = [rows EXCEPT ![i] = Gone("gone")]
      BY <1>34 DEF Remove
    <3> QED
      BY <3>1, <3>2, <1>rows
  <2>2. pc' \in [Worker -> PC]
    BY <1>34, <1>pc, Labels, Goes DEF Remove, db, local, env
  <2>3. UNCHANGED <<lease, item, snap, slot, again, mirror, home, moves, up, crashes, started>>
    BY <1>34 DEF Remove, db, local, env
  <2> QED
    BY <2>1, <2>2, <2>3 DEF TypeOK
<1>35. ASSUME ExecutorLeaves PROVE TypeOK'
  BY <1>35 DEF ExecutorLeaves, TypeOK, db, local, env
<1>36. ASSUME Tick PROVE TypeOK'
  <2>1. rows' \in [Item -> Row]
    BY <1>36, <1>rows, WrittenRows, Writes DEF Tick, db, local, env
  <2>2. lease' \in [id : Worker \cup {NoWorker}, left : -1..TTL]
    BY <1>36, <1>lease, WrittenLeases DEF Tick, db, local, env
  <2>3. UNCHANGED <<pc, item, snap, slot, again, mirror, home, moves, up, crashes, started>>
    BY <1>36 DEF Tick, db, local, env
  <2> QED
    BY <2>1, <2>2, <2>3 DEF TypeOK
<1>37. ASSUME UNCHANGED vars PROVE TypeOK'
  BY <1>37 DEF vars, TypeOK, db, local, env
<1> QED
  BY <1>1, <1>2, <1>3, <1>4, <1>5, <1>6, <1>7, <1>8, <1>9, <1>10, <1>11, <1>12, <1>13, <1>14, <1>15, <1>16, <1>17, <1>18, <1>19, <1>20, <1>21, <1>22, <1>23, <1>24, <1>25, <1>26, <1>27, <1>28, <1>29, <1>30, <1>31, <1>32, <1>33, <1>34, <1>35, <1>36, <1>37
  DEF Next, Step, DrainStep, UserStep, SweepStep, TurnStep, Request, Timer, Listen, Fault

\* Every reachable state is well-typed: whatever the nodes, the messages and the
\* bounds are, each variable stays in the set that its comment promises.
THEOREM TypeCorrect == Spec => []TypeOK
<1> QED
  BY TypeInit, TypeStep, PTL DEF Spec

-----------------------------------------------------------------------------
\* MutualExclusion.  A worker that holds the session lease is the one that its
\* row names, and the row has not expired: that is inductive, and two workers
\* cannot both be named.
LeaseHeld == RenewalsTimely => \A w \in Worker : Holding(w) => lease.id = w /\ lease.left >= 0

\* Which labels lie between obtaining the lease and releasing it.
LEMMA HoldingLabels ==
    /\ \A l \in {"idle", "head", "insert", "takeover", "enqueue", "lookup", "relookup_read",
                 "relookup", "lookup_again", "queued_read", "queued", "removed_read", "removed",
                 "leases", "swept_read", "swept", "synced"} :
        l \notin Preparing \cup Running \cup Failing \cup Ending
    /\ \A l \in {"check", "claim", "claimed_read", "claimed", "missed_read", "missed", "run",
                 "complete", "completed_read", "completed", "release", "abandon",
                 "abandoned_read", "abandoned", "refund", "unlock_loop", "unlock_stop",
                 "unlock_done", "unlock_failed"} :
        l \in Preparing \cup Running \cup Failing \cup Ending
  BY DEF Preparing, Running, Failing, Ending

\* Moving one worker to a label outside those, or to one of those when it holds
\* the lease already, gives the lease to nobody; neither do the two ways in which
\* a step moves a drain loop.
LEMMA NobodyNew ==
    ASSUME TypeOK, NEW w \in Worker, NEW l, Goto(w, l),
           l \in Preparing \cup Running \cup Failing \cup Ending => Holding(w)
    PROVE  \A v \in Worker : Holding(v)' => Holding(v)
  BY DEF TypeOK, Goto, Holding

LEMMA ReturnsHolding ==
    ASSUME TypeOK, NEW n \in Node, DrainReturns(n)
    PROVE  \A v \in Worker : Holding(v)' => Holding(v) /\ v # Drain(n)
  BY Workers, HoldingLabels DEF TypeOK, DrainReturns, Holding

LEMMA SchedulingHolding ==
    ASSUME TypeOK, NEW n \in Node, NEW p \in [Worker -> PC], Scheduling(p, n)
    PROVE  \A v \in Worker : Holding(v)' =>
                p[v] \in Preparing \cup Running \cup Failing \cup Ending
  BY Workers, HoldingLabels DEF Scheduling, Holding

\* Obtaining the lease when no live worker holds it.
LEMMA AcquiredHeld ==
    ASSUME TypeOK, LeaseHeld, NEW w \in Worker, Acquired(w),
           RenewalsTimely => \A v \in Worker : ~Holding(v)
    PROVE  LeaseHeld'
<1>1. lease'.id = w /\ lease'.left >= 0
  BY QueueAssumption DEF QueueAssumption, Acquired
<1>2. ASSUME NEW v \in Worker, v # w PROVE Holding(v)' => Holding(v)
  BY <1>2 DEF Acquired, Goto, Holding, TypeOK
<1> QED
  BY <1>1, <1>2 DEF LeaseHeld

LEMMA HeldStep == TypeOK /\ LeaseHeld /\ [Next]_vars => LeaseHeld'
<1> SUFFICES ASSUME TypeOK, LeaseHeld, [Next]_vars PROVE LeaseHeld'
  OBVIOUS
<1> USE QueueAssumption, Workers
<1>pc. pc \in [Worker -> PC]
  BY DEF TypeOK
<1>same. ASSUME lease' = lease, \A v \in Worker : Holding(v)' => Holding(v) PROVE LeaseHeld'
  BY <1>same DEF LeaseHeld
<1>free. ASSUME lease.id = NoWorker \/ lease.left < 0
         PROVE  RenewalsTimely => \A v \in Worker : ~Holding(v)
  BY <1>free DEF LeaseHeld, TypeOK
<1>1. ASSUME NEW w \in Worker, Select(w) PROVE LeaseHeld'
  <2>1. lease' = lease
    BY <1>1 DEF Select, db
  <2>2. \A v \in Worker : Holding(v)' => Holding(v)
    BY <1>1, <1>pc, NobodyNew, HoldingLabels, ReadLabels DEF Select, Holding
  <2> QED
    BY <2>1, <2>2, <1>same
<1>2. ASSUME NEW w \in Worker, InsertLease(w) PROVE LeaseHeld'
  <2>1. CASE Acquired(w) /\ (lease.id = NoWorker \/ lease.left < 0)
    BY <2>1, <1>free, AcquiredHeld
  <2>2. CASE lease' = lease /\ Goto(w, "takeover")
    BY <2>2, <1>same, NobodyNew, HoldingLabels
  <2> QED
    BY <1>2, <2>1, <2>2 DEF InsertLease, db
<1>3. ASSUME NEW w \in Worker, TakeoverLease(w) PROVE LeaseHeld'
  <2>1. CASE Acquired(w) /\ (lease.id = NoWorker \/ lease.left < 0)
    BY <2>1, <1>free, AcquiredHeld
  <2>2. CASE lease' = lease /\ Goto(w, "enqueue")
    BY <2>2, <1>same, NobodyNew, HoldingLabels
  <2>3. CASE lease' = lease /\ DrainReturns(w[1])
    BY <2>3, <1>same, ReturnsHolding
  <2> QED
    BY <1>3, <2>1, <2>2, <2>3 DEF TakeoverLease, db
<1>4. ASSUME NEW w \in Worker, Enqueue(w) PROVE LeaseHeld'
  <2>1. lease' = lease
    BY <1>4 DEF Enqueue, db
  <2>2. \A v \in Worker : Holding(v)' => Holding(v)
    BY <1>4, <1>pc, NobodyNew, HoldingLabels DEF Enqueue, Holding
  <2> QED
    BY <2>1, <2>2, <1>same
<1>5. ASSUME NEW w \in Worker, Lookup(w) PROVE LeaseHeld'
  <2>1. lease' = lease
    BY <1>5 DEF Lookup, db
  <2>2. \A v \in Worker : Holding(v)' => Holding(v)
    BY <1>5, <1>pc, NobodyNew, HoldingLabels DEF Lookup, Holding
  <2> QED
    BY <2>1, <2>2, <1>same
<1>6. ASSUME NEW w \in Worker, LookAgain(w) PROVE LeaseHeld'
  <2>1. lease' = lease
    BY <1>6 DEF LookAgain, db
  <2>2. \A v \in Worker : Holding(v)' => Holding(v)
    BY <1>6, <1>pc, NobodyNew, HoldingLabels DEF LookAgain, Holding
  <2> QED
    BY <2>1, <2>2, <1>same
<1>7. ASSUME NEW w \in Worker, TurnSucceeds(w) PROVE LeaseHeld'
  <2>1. lease' = lease
    BY <1>7 DEF TurnSucceeds, db
  <2>2. \A v \in Worker : Holding(v)' => Holding(v)
    BY <1>7, <1>pc, NobodyNew, HoldingLabels DEF TurnSucceeds, Holding
  <2> QED
    BY <2>1, <2>2, <1>same
<1>8. ASSUME NEW w \in Worker, TurnThrows(w) PROVE LeaseHeld'
  <2>1. lease' = lease
    BY <1>8 DEF TurnThrows, db
  <2>2. \A v \in Worker : Holding(v)' => Holding(v)
    BY <1>8, <1>pc, NobodyNew, HoldingLabels DEF TurnThrows, Holding
  <2> QED
    BY <2>1, <2>2, <1>same
<1>9. ASSUME NEW w \in Worker, Renew(w) PROVE LeaseHeld'
  <2>1. pc' = pc /\ lease'.id = lease.id /\ lease'.left = TTL
    BY <1>9 DEF Renew, TypeOK
  <2> QED
    BY <2>1 DEF LeaseHeld, Holding, QueueAssumption
<1>10. ASSUME NEW n \in Node, Queued(n) PROVE LeaseHeld'
  <2> DEFINE p == [pc EXCEPT ![User(n)] = "idle"]
  <2>1. p \in [Worker -> PC] /\ lease' = lease /\ (Scheduling(p, n) \/ pc' = p)
    BY <1>10, <1>pc, Labels DEF Queued, db
  <2>2. ASSUME NEW v \in Worker, Holding(v)'
        PROVE  p[v] \in Preparing \cup Running \cup Failing \cup Ending
    BY <2>1, <2>2, SchedulingHolding DEF Holding
  <2>3. \A v \in Worker : Holding(v)' => Holding(v)
    BY <2>2, <1>pc, HoldingLabels DEF Holding
  <2> QED
    BY <2>1, <2>3, <1>same
<1>11. ASSUME NEW n \in Node, Removed(n) PROVE LeaseHeld'
  <2>1. lease' = lease
    BY <1>11 DEF Removed, db
  <2>2. \A v \in Worker : Holding(v)' => Holding(v)
    BY <1>11, <1>pc, NobodyNew, HoldingLabels DEF Removed, Holding
  <2> QED
    BY <2>1, <2>2, <1>same
<1>12. ASSUME NEW n \in Node, ReadHead(n) PROVE LeaseHeld'
  <2>1. lease' = lease
    BY <1>12 DEF ReadHead, db
  <2>2. \A v \in Worker : Holding(v)' => Holding(v)
    BY <1>12, <1>pc, NobodyNew, HoldingLabels DEF ReadHead, Holding
  <2> QED
    BY <2>1, <2>2, <1>same
<1>13. ASSUME NEW n \in Node, GiveUp(n) PROVE LeaseHeld'
  BY <1>13, <1>same, ReturnsHolding DEF GiveUp, db
<1>14. ASSUME NEW n \in Node, Check(n) PROVE LeaseHeld'
  <2>1. lease' = lease
    BY <1>14 DEF Check, db
  <2>2. \A v \in Worker : Holding(v)' => Holding(v)
    BY <1>14, <1>pc, NobodyNew, HoldingLabels DEF Check, Holding
  <2> QED
    BY <2>1, <2>2, <1>same
<1>15. ASSUME NEW n \in Node, Claim(n) PROVE LeaseHeld'
  <2>1. lease' = lease
    BY <1>15 DEF Claim, db
  <2>2. \A v \in Worker : Holding(v)' => Holding(v)
    BY <1>15, <1>pc, NobodyNew, HoldingLabels DEF Claim, Holding
  <2> QED
    BY <2>1, <2>2, <1>same
<1>16. ASSUME NEW n \in Node, Missed(n) PROVE LeaseHeld'
  <2>1. lease' = lease
    BY <1>16 DEF Missed, db
  <2>2. \A v \in Worker : Holding(v)' => Holding(v)
    BY <1>16, <1>pc, NobodyNew, HoldingLabels DEF Missed, Holding
  <2> QED
    BY <2>1, <2>2, <1>same
<1>17. ASSUME NEW n \in Node, Configure(n) PROVE LeaseHeld'
  <2>1. lease' = lease
    BY <1>17 DEF Configure, db
  <2>2. \A v \in Worker : Holding(v)' => Holding(v)
    BY <1>17, <1>pc, NobodyNew, HoldingLabels DEF Configure, Holding
  <2> QED
    BY <2>1, <2>2, <1>same
<1>18. ASSUME NEW n \in Node, Complete(n) PROVE LeaseHeld'
  <2>1. lease' = lease
    BY <1>18 DEF Complete, db
  <2>2. \A v \in Worker : Holding(v)' => Holding(v)
    BY <1>18, <1>pc, NobodyNew, HoldingLabels DEF Complete, Holding
  <2> QED
    BY <2>1, <2>2, <1>same
<1>19. ASSUME NEW n \in Node, Settle(n) PROVE LeaseHeld'
  <2>1. lease' = lease
    BY <1>19 DEF Settle, db
  <2>2. \A v \in Worker : Holding(v)' => Holding(v)
    BY <1>19, <1>pc, NobodyNew, HoldingLabels DEF Settle, Holding
  <2> QED
    BY <2>1, <2>2, <1>same
<1>20. ASSUME NEW n \in Node, Release(n) PROVE LeaseHeld'
  <2>1. lease' = lease
    BY <1>20 DEF Release, ReleaseTo, db
  <2>2. \A v \in Worker : Holding(v)' => Holding(v)
    BY <1>20, <1>pc, NobodyNew, HoldingLabels DEF Release, ReleaseTo, Holding
  <2> QED
    BY <2>1, <2>2, <1>same
<1>21. ASSUME NEW n \in Node, UnlockDrain(n) PROVE LeaseHeld'
  <2>1. Holding(Drain(n)) /\ lease' = IF lease.id = Drain(n) THEN NoLease ELSE lease
    BY <1>21, HoldingLabels DEF UnlockDrain, DeleteLease, Holding
  <2>2. ASSUME NEW v \in Worker, Holding(v)' PROVE Holding(v) /\ v # Drain(n)
    <3>1. CASE DrainReturns(n)
      BY <3>1, <2>2, ReturnsHolding
    <3>2. CASE Goto(Drain(n), "head")
      BY <3>2, <2>2, <1>pc, HoldingLabels DEF Goto, Holding
    <3> QED
      BY <1>21, <3>1, <3>2 DEF UnlockDrain
  <2> QED
    BY <2>1, <2>2 DEF LeaseHeld
<1>22. ASSUME NEW n \in Node, UnlockUser(n) PROVE LeaseHeld'
  <2>1. Holding(User(n)) /\ lease' = IF lease.id = User(n) THEN NoLease ELSE lease
    BY <1>22, HoldingLabels DEF UnlockUser, DeleteLease, Holding
  <2>2. ASSUME NEW v \in Worker, Holding(v)' PROVE Holding(v) /\ v # User(n)
    <3>1. [pc EXCEPT ![User(n)] = "idle"] \in [Worker -> PC]
      BY <1>pc, Labels
    <3>2. [pc EXCEPT ![User(n)] = "idle"][v] \in Preparing \cup Running \cup Failing \cup Ending
      BY <1>22, <2>2, <3>1, SchedulingHolding DEF UnlockUser
    <3> QED
      BY <3>2, <1>pc, HoldingLabels DEF Holding
  <2> QED
    BY <2>1, <2>2 DEF LeaseHeld
<1>23. ASSUME NEW n \in Node, SlotExpires(n) PROVE LeaseHeld'
  BY <1>23, <1>same DEF SlotExpires, db, Holding
<1>24. ASSUME NEW n \in Node, SweepClaims(n) PROVE LeaseHeld'
  <2>1. lease' = lease
    BY <1>24 DEF SweepClaims, SweepTo, db
  <2>2. \A v \in Worker : Holding(v)' => Holding(v)
    BY <1>24, <1>pc, NobodyNew, HoldingLabels DEF SweepClaims, SweepTo, Holding
  <2> QED
    BY <2>1, <2>2, <1>same
<1>25. ASSUME NEW n \in Node, SweepLeases(n) PROVE LeaseHeld'
  <2>1. \A v \in Worker : Holding(v)' => Holding(v)
    BY <1>25, NobodyNew, HoldingLabels DEF SweepLeases
  <2>2. CASE lease.left < 0
    BY <2>1, <2>2, <1>free DEF LeaseHeld
  <2>3. CASE ~(lease.left < 0)
    BY <1>25, <2>1, <2>3, <1>same DEF SweepLeases
  <2> QED
    BY <2>2, <2>3
<1>26. ASSUME NEW n \in Node, Swept(n) PROVE LeaseHeld'
  <2> DEFINE p == [pc EXCEPT ![Sweep(n)] = "idle"]
  <2>1. p \in [Worker -> PC] /\ lease' = lease /\ (Scheduling(p, n) \/ pc' = p)
    BY <1>26, <1>pc, Labels DEF Swept, db
  <2>2. ASSUME NEW v \in Worker, Holding(v)'
        PROVE  p[v] \in Preparing \cup Running \cup Failing \cup Ending
    BY <2>1, <2>2, SchedulingHolding DEF Holding
  <2>3. \A v \in Worker : Holding(v)' => Holding(v)
    BY <2>2, <1>pc, HoldingLabels DEF Holding
  <2> QED
    BY <2>1, <2>3, <1>same
<1>27. ASSUME NEW n \in Node, SyncRead(n) PROVE LeaseHeld'
  <2>1. lease' = lease
    BY <1>27 DEF SyncRead, db
  <2>2. \A v \in Worker : Holding(v)' => Holding(v)
    BY <1>27, <1>pc, NobodyNew, HoldingLabels DEF SyncRead, Holding
  <2> QED
    BY <2>1, <2>2, <1>same
<1>28. ASSUME NEW n \in Node, Synced(n) PROVE LeaseHeld'
  <2>1. lease' = lease
    BY <1>28 DEF Synced, db
  <2>2. \A v \in Worker : Holding(v)' => Holding(v)
    BY <1>28, <1>pc, NobodyNew, HoldingLabels DEF Synced, Holding
  <2> QED
    BY <2>1, <2>2, <1>same
<1>29. ASSUME NEW n \in Node, ClientOpens(n) PROVE LeaseHeld'
  <2>1. lease' = lease /\ (Scheduling(pc, n) \/ pc' = pc)
    BY <1>29 DEF ClientOpens, db
  <2>2. \A v \in Worker : Holding(v)' => Holding(v)
    BY <2>1, <1>pc, SchedulingHolding DEF Holding
  <2> QED
    BY <2>1, <2>2, <1>same
<1>30. ASSUME NEW n \in Node, ExecutorConnects(n) PROVE LeaseHeld'
  <2>1. lease' = lease /\ (Scheduling(pc, n) \/ pc' = pc)
    BY <1>30 DEF ExecutorConnects, db
  <2>2. \A v \in Worker : Holding(v)' => Holding(v)
    BY <2>1, <1>pc, SchedulingHolding DEF Holding
  <2> QED
    BY <2>1, <2>2, <1>same
<1>31. ASSUME NEW n \in Node, Crash(n) PROVE LeaseHeld'
  <2>1. \A v \in Worker : Holding(v)' => Holding(v)
    BY <1>31, HoldingLabels DEF Crash, Holding
  <2> QED
    BY <1>31, <2>1, <1>same DEF Crash, db
<1>32. ASSUME NEW n \in Node, Restart(n) PROVE LeaseHeld'
  BY <1>32, <1>same DEF Restart, db, Holding
<1>33. ASSUME NEW n \in Node, NEW i \in Item, SendMessage(n, i) PROVE LeaseHeld'
  <2>1. lease' = lease
    BY <1>33 DEF SendMessage, db
  <2>2. \A v \in Worker : Holding(v)' => Holding(v)
    BY <1>33, <1>pc, NobodyNew, HoldingLabels DEF SendMessage, Holding
  <2> QED
    BY <2>1, <2>2, <1>same
<1>34. ASSUME NEW n \in Node, NEW i \in Item, Remove(n, i) PROVE LeaseHeld'
  <2>1. lease' = lease
    BY <1>34 DEF Remove, db
  <2>2. \A v \in Worker : Holding(v)' => Holding(v)
    BY <1>34, <1>pc, NobodyNew, HoldingLabels DEF Remove, Holding
  <2> QED
    BY <2>1, <2>2, <1>same
<1>35. ASSUME ExecutorLeaves PROVE LeaseHeld'
  BY <1>35, <1>same DEF ExecutorLeaves, db, Holding
<1>36. ASSUME Tick PROVE LeaseHeld'
  <2>1. pc' = pc /\ lease'.id = lease.id /\ lease'.left = Older(lease.left)
    BY <1>36 DEF Tick, TypeOK
  <2>2. ASSUME RenewalsTimely, NEW w \in Worker, Holding(w), lease.id = w
        PROVE  Older(lease.left) >= 0
    BY <1>36, <2>2 DEF Tick, TypeOK, Older
  <2> QED
    BY <2>1, <2>2 DEF LeaseHeld, Holding
<1>37. ASSUME UNCHANGED vars PROVE LeaseHeld'
  BY <1>37, <1>same DEF vars, db, Holding
<1> QED
  BY <1>1, <1>2, <1>3, <1>4, <1>5, <1>6, <1>7, <1>8, <1>9, <1>10, <1>11, <1>12, <1>13, <1>14, <1>15, <1>16, <1>17, <1>18, <1>19, <1>20, <1>21, <1>22, <1>23, <1>24, <1>25, <1>26, <1>27, <1>28, <1>29, <1>30, <1>31, <1>32, <1>33, <1>34, <1>35, <1>36, <1>37
  DEF Next, Step, DrainStep, UserStep, SweepStep, TurnStep, Request, Timer, Listen, Fault

\* No two workers are between obtaining the session lease and releasing it, for
\* any number of nodes, when live workers renew their lease in time.
THEOREM OneTurn == Spec => []MutualExclusion
<1>1. Init => LeaseHeld
  BY HoldingLabels DEF Init, LeaseHeld, Holding
<1>2. LeaseHeld => MutualExclusion
  BY DEF LeaseHeld, MutualExclusion
<1> QED
  BY <1>1, <1>2, TypeInit, TypeStep, HeldStep, PTL DEF Spec

-----------------------------------------------------------------------------
\* Frames: the steps that write the lease and the steps that write the rows.
LEMMA LeaseWriters ==
    ASSUME [Next]_vars
    PROVE  \/ lease' = lease
           \/ \E w \in Worker :
               InsertLease(w) \/ TakeoverLease(w) \/ Renew(w)
           \/ \E n \in Node :
               UnlockDrain(n) \/ UnlockUser(n) \/ SweepLeases(n)
           \/ Tick
<1>1. ASSUME NEW w \in Worker, Select(w) PROVE lease' = lease
  BY <1>1 DEF Select, db
<1>2. ASSUME NEW w \in Worker, Enqueue(w) PROVE lease' = lease
  BY <1>2 DEF Enqueue, db
<1>3. ASSUME NEW w \in Worker, Lookup(w) PROVE lease' = lease
  BY <1>3 DEF Lookup, db
<1>4. ASSUME NEW w \in Worker, LookAgain(w) PROVE lease' = lease
  BY <1>4 DEF LookAgain, db
<1>5. ASSUME NEW w \in Worker, TurnSucceeds(w) PROVE lease' = lease
  BY <1>5 DEF TurnSucceeds, db
<1>6. ASSUME NEW w \in Worker, TurnThrows(w) PROVE lease' = lease
  BY <1>6 DEF TurnThrows, db
<1>7. ASSUME NEW n \in Node, Queued(n) PROVE lease' = lease
  BY <1>7 DEF Queued, db
<1>8. ASSUME NEW n \in Node, Removed(n) PROVE lease' = lease
  BY <1>8 DEF Removed, db
<1>9. ASSUME NEW n \in Node, ReadHead(n) PROVE lease' = lease
  BY <1>9 DEF ReadHead, db
<1>10. ASSUME NEW n \in Node, GiveUp(n) PROVE lease' = lease
  BY <1>10 DEF GiveUp, db
<1>11. ASSUME NEW n \in Node, Check(n) PROVE lease' = lease
  BY <1>11 DEF Check, db
<1>12. ASSUME NEW n \in Node, Claim(n) PROVE lease' = lease
  BY <1>12 DEF Claim, db
<1>13. ASSUME NEW n \in Node, Missed(n) PROVE lease' = lease
  BY <1>13 DEF Missed, db
<1>14. ASSUME NEW n \in Node, Configure(n) PROVE lease' = lease
  BY <1>14 DEF Configure, db
<1>15. ASSUME NEW n \in Node, Complete(n) PROVE lease' = lease
  BY <1>15 DEF Complete, db
<1>16. ASSUME NEW n \in Node, Settle(n) PROVE lease' = lease
  BY <1>16 DEF Settle, db
<1>17. ASSUME NEW n \in Node, Release(n) PROVE lease' = lease
  BY <1>17 DEF Release, ReleaseTo, db
<1>18. ASSUME NEW n \in Node, SlotExpires(n) PROVE lease' = lease
  BY <1>18 DEF SlotExpires, db
<1>19. ASSUME NEW n \in Node, SweepClaims(n) PROVE lease' = lease
  BY <1>19 DEF SweepClaims, SweepTo, db
<1>20. ASSUME NEW n \in Node, Swept(n) PROVE lease' = lease
  BY <1>20 DEF Swept, db
<1>21. ASSUME NEW n \in Node, SyncRead(n) PROVE lease' = lease
  BY <1>21 DEF SyncRead, db
<1>22. ASSUME NEW n \in Node, Synced(n) PROVE lease' = lease
  BY <1>22 DEF Synced, db
<1>23. ASSUME NEW n \in Node, ClientOpens(n) PROVE lease' = lease
  BY <1>23 DEF ClientOpens, db
<1>24. ASSUME NEW n \in Node, ExecutorConnects(n) PROVE lease' = lease
  BY <1>24 DEF ExecutorConnects, db
<1>25. ASSUME NEW n \in Node, Crash(n) PROVE lease' = lease
  BY <1>25 DEF Crash, db
<1>26. ASSUME NEW n \in Node, Restart(n) PROVE lease' = lease
  BY <1>26 DEF Restart, db
<1>27. ASSUME NEW n \in Node, NEW i \in Item, SendMessage(n, i) PROVE lease' = lease
  BY <1>27 DEF SendMessage, db
<1>28. ASSUME NEW n \in Node, NEW i \in Item, Remove(n, i) PROVE lease' = lease
  BY <1>28 DEF Remove, db
<1>29. ASSUME ExecutorLeaves PROVE lease' = lease
  BY <1>29 DEF ExecutorLeaves, db
<1>30. ASSUME UNCHANGED vars PROVE lease' = lease
  BY <1>30 DEF vars, db
<1> QED
  BY Workers, <1>1, <1>2, <1>3, <1>4, <1>5, <1>6, <1>7, <1>8, <1>9, <1>10, <1>11, <1>12, <1>13, <1>14, <1>15, <1>16, <1>17, <1>18, <1>19, <1>20, <1>21, <1>22, <1>23, <1>24, <1>25, <1>26, <1>27, <1>28, <1>29, <1>30
  DEF Next, Step, DrainStep, UserStep, SweepStep, TurnStep, Request, Timer, Listen, Fault

LEMMA RowWriters ==
    ASSUME [Next]_vars
    PROVE  \/ rows' = rows
           \/ \E w \in Worker :
               InsertLease(w) \/ TakeoverLease(w)
           \/ \E n \in Node :
               \/ Enqueue(User(n)) \/ Lookup(User(n)) \/ Claim(n)
               \/ Complete(n) \/ Release(n) \/ SweepClaims(n)
           \/ \E n \in Node, i \in Item :
               Remove(n, i)
           \/ Tick
<1>1. ASSUME NEW w \in Worker, Select(w) PROVE rows' = rows
  BY <1>1 DEF Select, db
<1>2. ASSUME NEW w \in Worker, LookAgain(w) PROVE rows' = rows
  BY <1>2 DEF LookAgain, db
<1>3. ASSUME NEW w \in Worker, TurnSucceeds(w) PROVE rows' = rows
  BY <1>3 DEF TurnSucceeds, db
<1>4. ASSUME NEW w \in Worker, TurnThrows(w) PROVE rows' = rows
  BY <1>4 DEF TurnThrows, db
<1>5. ASSUME NEW w \in Worker, Renew(w) PROVE rows' = rows
  BY <1>5 DEF Renew, db
<1>6. ASSUME NEW n \in Node, Queued(n) PROVE rows' = rows
  BY <1>6 DEF Queued, db
<1>7. ASSUME NEW n \in Node, Removed(n) PROVE rows' = rows
  BY <1>7 DEF Removed, db
<1>8. ASSUME NEW n \in Node, ReadHead(n) PROVE rows' = rows
  BY <1>8 DEF ReadHead, db
<1>9. ASSUME NEW n \in Node, GiveUp(n) PROVE rows' = rows
  BY <1>9 DEF GiveUp, db
<1>10. ASSUME NEW n \in Node, Check(n) PROVE rows' = rows
  BY <1>10 DEF Check, db
<1>11. ASSUME NEW n \in Node, Missed(n) PROVE rows' = rows
  BY <1>11 DEF Missed, db
<1>12. ASSUME NEW n \in Node, Configure(n) PROVE rows' = rows
  BY <1>12 DEF Configure, db
<1>13. ASSUME NEW n \in Node, Settle(n) PROVE rows' = rows
  BY <1>13 DEF Settle, db
<1>14. ASSUME NEW n \in Node, UnlockDrain(n) PROVE rows' = rows
  BY <1>14 DEF UnlockDrain, db
<1>15. ASSUME NEW n \in Node, UnlockUser(n) PROVE rows' = rows
  BY <1>15 DEF UnlockUser, db
<1>16. ASSUME NEW n \in Node, SlotExpires(n) PROVE rows' = rows
  BY <1>16 DEF SlotExpires, db
<1>17. ASSUME NEW n \in Node, SweepLeases(n) PROVE rows' = rows
  BY <1>17 DEF SweepLeases, db
<1>18. ASSUME NEW n \in Node, Swept(n) PROVE rows' = rows
  BY <1>18 DEF Swept, db
<1>19. ASSUME NEW n \in Node, SyncRead(n) PROVE rows' = rows
  BY <1>19 DEF SyncRead, db
<1>20. ASSUME NEW n \in Node, Synced(n) PROVE rows' = rows
  BY <1>20 DEF Synced, db
<1>21. ASSUME NEW n \in Node, ClientOpens(n) PROVE rows' = rows
  BY <1>21 DEF ClientOpens, db
<1>22. ASSUME NEW n \in Node, ExecutorConnects(n) PROVE rows' = rows
  BY <1>22 DEF ExecutorConnects, db
<1>23. ASSUME NEW n \in Node, Crash(n) PROVE rows' = rows
  BY <1>23 DEF Crash, db
<1>24. ASSUME NEW n \in Node, Restart(n) PROVE rows' = rows
  BY <1>24 DEF Restart, db
<1>25. ASSUME NEW n \in Node, NEW i \in Item, SendMessage(n, i) PROVE rows' = rows
  BY <1>25 DEF SendMessage, db
<1>26. ASSUME ExecutorLeaves PROVE rows' = rows
  BY <1>26 DEF ExecutorLeaves, db
<1>27. ASSUME UNCHANGED vars PROVE rows' = rows
  BY <1>27 DEF vars, db
<1> QED
  BY Workers, <1>1, <1>2, <1>3, <1>4, <1>5, <1>6, <1>7, <1>8, <1>9, <1>10, <1>11, <1>12, <1>13, <1>14, <1>15, <1>16, <1>17, <1>18, <1>19, <1>20, <1>21, <1>22, <1>23, <1>24, <1>25, <1>26, <1>27
  DEF Next, Step, DrainStep, UserStep, SweepStep, TurnStep, Request, Timer, Listen, Fault

\* An unexpired lease changes hands only in a step of the worker that it names:
\* no takeover, sweep or late release takes it away.
THEOREM LeaseFenced == Spec => LeaseFencing
<1> DEFINE Fenced == \A w \in Worker : lease.id = w /\ lease.left >= 0 /\ lease.id' # w
                                          => pc[w]' # pc[w]
<1>1. TypeOK /\ [Next]_vars => [Fenced]_vars
  <2> SUFFICES ASSUME TypeOK, [Next]_vars, NEW w \in Worker,
                      lease.id = w, lease.left >= 0, lease.id' # w
               PROVE  pc'[w] # pc[w]
    OBVIOUS
  <2>pc. pc \in [Worker -> PC] /\ lease.left \in -1..TTL
    BY DEF TypeOK
  <2>1. ASSUME NEW v \in Worker, InsertLease(v) PROVE FALSE
    BY <2>1, Workers DEF InsertLease, db
  <2>2. ASSUME NEW v \in Worker, TakeoverLease(v) PROVE FALSE
    BY <2>2, <2>pc, QueueAssumption DEF TakeoverLease, db, QueueAssumption
  <2>3. ASSUME NEW v \in Worker, Renew(v) PROVE FALSE
    BY <2>3 DEF Renew, TypeOK
  <2>4. ASSUME NEW n \in Node, UnlockDrain(n) PROVE pc'[w] # pc[w]
    <3>1. w = Drain(n)
      BY <2>4 DEF UnlockDrain, DeleteLease
    <3> QED
      BY <2>4, <3>1, <2>pc DEF UnlockDrain, DrainReturns, Goto
  <2>5. ASSUME NEW n \in Node, UnlockUser(n) PROVE pc'[w] # pc[w]
    <3>1. w = User(n)
      BY <2>5 DEF UnlockUser, DeleteLease
    <3> QED
      BY <2>5, <3>1, <2>pc DEF UnlockUser, Scheduling
  <2>6. ASSUME NEW n \in Node, SweepLeases(n) PROVE FALSE
    BY <2>6, <2>pc, QueueAssumption DEF SweepLeases, QueueAssumption
  <2>7. ASSUME Tick PROVE FALSE
    BY <2>7 DEF Tick, TypeOK
  <2> QED
    BY LeaseWriters, <2>1, <2>2, <2>3, <2>4, <2>5, <2>6, <2>7
<1> QED
  BY <1>1, TypeCorrect, PTL DEF Spec, LeaseFencing

\* ClaimFencing.  What a user's handler writes is the row of the message it was
\* sent, which no other handler has and which is not in the table: inductive.
Asking == {"insert", "takeover", "enqueue", "lookup", "relookup_read", "relookup", "lookup_again"}
OwnRequest ==
    \A n \in Node : pc[User(n)] \in Asking =>
        /\ item[User(n)] \in Item
        /\ rows[item[User(n)]].status = "none"
        /\ \A m \in Node : m # n => item[User(m)] # item[User(n)]

\* A handler keeps its message until it is through, and is given one by
\* SendMessage only.
LEMMA RequestKept ==
    ASSUME TypeOK, [Next]_vars, NEW m \in Node
    PROVE  \/ item'[User(m)] = item[User(m)] /\ (pc'[User(m)] \in Asking => pc[User(m)] \in Asking)
           \/ item'[User(m)] = NoItem /\ pc'[User(m)] \notin Asking
           \/ \E i \in Item : SendMessage(m, i)
<1> DEFINE Kept == item'[User(m)] = item[User(m)] /\ (pc'[User(m)] \in Asking => pc[User(m)] \in Asking)
           Left == item'[User(m)] = NoItem /\ pc'[User(m)] \notin Asking
<1>typed. pc \in [Worker -> PC] /\ item \in [Worker -> Item \cup {NoItem}]
  BY DEF TypeOK
<1> USE Workers, <1>typed DEF Asking
<1>1. ASSUME NEW w \in Worker, Select(w) PROVE Kept
  BY <1>1 DEF Select, Reading, AfterRead, Goto
<1>2. ASSUME NEW w \in Worker, InsertLease(w) PROVE Kept
  BY <1>2 DEF InsertLease, Acquired, Goto
<1>3. ASSUME NEW w \in Worker, TakeoverLease(w) PROVE Kept
  BY <1>3 DEF TakeoverLease, Acquired, DrainReturns, Goto
<1>4. ASSUME NEW n \in Node, Enqueue(User(n)) PROVE Kept
  BY <1>4 DEF Enqueue, Goto
<1>5. ASSUME NEW n \in Node, Lookup(User(n)) PROVE Kept \/ Left
  BY <1>5 DEF Lookup, Goto
<1>6. ASSUME NEW n \in Node, LookAgain(User(n)) PROVE Kept
  BY <1>6 DEF LookAgain, Goto
<1>7. ASSUME NEW w \in Worker, TurnSucceeds(w) PROVE Kept
  BY <1>7 DEF TurnSucceeds, Goto
<1>8. ASSUME NEW w \in Worker, TurnThrows(w) PROVE Kept
  BY <1>8 DEF TurnThrows, Goto
<1>9. ASSUME NEW w \in Worker, Renew(w) PROVE Kept
  BY <1>9 DEF Renew, Goto
<1>10. ASSUME NEW n \in Node, Queued(n) PROVE Kept \/ Left
  BY <1>10 DEF Queued, Scheduling, Goto
<1>11. ASSUME NEW n \in Node, Removed(n) PROVE Kept
  BY <1>11 DEF Removed, Goto
<1>12. ASSUME NEW n \in Node, ReadHead(n) PROVE Kept
  BY <1>12 DEF ReadHead, Goto
<1>13. ASSUME NEW n \in Node, GiveUp(n) PROVE Kept
  BY <1>13 DEF GiveUp, DrainReturns, Goto
<1>14. ASSUME NEW n \in Node, Check(n) PROVE Kept
  BY <1>14 DEF Check, Goto
<1>15. ASSUME NEW n \in Node, Claim(n) PROVE Kept
  BY <1>15 DEF Claim, Goto
<1>16. ASSUME NEW n \in Node, Missed(n) PROVE Kept
  BY <1>16 DEF Missed, Goto
<1>17. ASSUME NEW n \in Node, Configure(n) PROVE Kept
  BY <1>17 DEF Configure, Goto
<1>18. ASSUME NEW n \in Node, Complete(n) PROVE Kept
  BY <1>18 DEF Complete, Goto
<1>19. ASSUME NEW n \in Node, Settle(n) PROVE Kept
  BY <1>19 DEF Settle, Goto
<1>20. ASSUME NEW n \in Node, Release(n) PROVE Kept
  BY <1>20 DEF Release, ReleaseTo, Goto
<1>21. ASSUME NEW n \in Node, UnlockDrain(n) PROVE Kept
  BY <1>21 DEF UnlockDrain, DrainReturns, Goto
<1>22. ASSUME NEW n \in Node, UnlockUser(n) PROVE Kept \/ Left
  BY <1>22 DEF UnlockUser, Scheduling, Goto
<1>23. ASSUME NEW n \in Node, SlotExpires(n) PROVE Kept
  BY <1>23 DEF SlotExpires, Goto
<1>24. ASSUME NEW n \in Node, SweepClaims(n) PROVE Kept
  BY <1>24 DEF SweepClaims, SweepTo, Goto
<1>25. ASSUME NEW n \in Node, SweepLeases(n) PROVE Kept
  BY <1>25 DEF SweepLeases, Goto
<1>26. ASSUME NEW n \in Node, Swept(n) PROVE Kept
  BY <1>26 DEF Swept, Scheduling, Goto
<1>27. ASSUME NEW n \in Node, SyncRead(n) PROVE Kept
  BY <1>27 DEF SyncRead, Goto
<1>28. ASSUME NEW n \in Node, Synced(n) PROVE Kept
  BY <1>28 DEF Synced, Goto
<1>29. ASSUME NEW n \in Node, ClientOpens(n) PROVE Kept
  BY <1>29 DEF ClientOpens, Scheduling, Goto
<1>30. ASSUME NEW n \in Node, ExecutorConnects(n) PROVE Kept
  BY <1>30 DEF ExecutorConnects, Scheduling, Goto
<1>31. ASSUME NEW n \in Node, Crash(n) PROVE Kept \/ Left
  BY <1>31 DEF Crash, Of, Goto
<1>32. ASSUME NEW n \in Node, Restart(n) PROVE Kept
  BY <1>32 DEF Restart, Goto
<1>33. ASSUME NEW n \in Node, NEW i \in Item, SendMessage(n, i) PROVE Kept \/ n = m
  BY <1>33 DEF SendMessage, Goto
<1>34. ASSUME NEW n \in Node, NEW i \in Item, Remove(n, i) PROVE Kept
  BY <1>34 DEF Remove, Goto
<1>35. ASSUME ExecutorLeaves PROVE Kept
  BY <1>35 DEF ExecutorLeaves, Goto
<1>36. ASSUME Tick PROVE Kept
  BY <1>36 DEF Tick, Goto
<1>37. ASSUME UNCHANGED vars PROVE Kept
  BY <1>37 DEF vars, Goto
<1> QED
  BY <1>1, <1>2, <1>3, <1>4, <1>5, <1>6, <1>7, <1>8, <1>9, <1>10, <1>11, <1>12, <1>13, <1>14, <1>15, <1>16, <1>17, <1>18, <1>19, <1>20, <1>21, <1>22, <1>23, <1>24, <1>25, <1>26, <1>27, <1>28, <1>29, <1>30, <1>31, <1>32, <1>33, <1>34, <1>35, <1>36, <1>37
  DEF Next, Step, DrainStep, UserStep, SweepStep, TurnStep, Request, Timer, Listen, Fault

LEMMA RequestStep == TypeOK /\ OwnRequest /\ [Next]_vars => OwnRequest'
<1> SUFFICES ASSUME TypeOK, OwnRequest, [Next]_vars,
                    NEW n \in Node, pc'[User(n)] \in Asking
             PROVE  /\ item'[User(n)] \in Item
                    /\ rows'[item'[User(n)]].status = "none"
                    /\ \A m \in Node : m # n => item'[User(m)] # item'[User(n)]
  BY DEF OwnRequest
<1> USE Workers, QueueAssumption
<1>typed. /\ pc \in [Worker -> PC] /\ item \in [Worker -> Item \cup {NoItem}]
          /\ rows \in [Item -> Row]
  BY DEF TypeOK
<1>fresh. ASSUME NEW k \in Node, NEW i \in Item, SendMessage(k, i)
          PROVE  /\ rows' = rows /\ rows[i].status = "none"
                 /\ item'[User(k)] = i
                 /\ \A m \in Node : m # k => item'[User(m)] = item[User(m)]
                 /\ \A m \in Node : item[User(m)] # i
  BY <1>fresh, <1>typed DEF SendMessage, Fresh, db
<1>1. CASE \E i \in Item : SendMessage(n, i)
  BY <1>1, <1>fresh
<1>2. CASE item'[User(n)] = item[User(n)] /\ pc[User(n)] \in Asking
  <2> DEFINE i == item[User(n)]
  <2>1. /\ i \in Item /\ rows[i].status = "none"
        /\ \A m \in Node : m # n => item[User(m)] # i
    BY <1>2 DEF OwnRequest
  <2>2. ASSUME NEW m \in Node, m # n PROVE item'[User(m)] # i
    BY <2>1, <2>2, <1>fresh, RequestKept DEF QueueAssumption
  <2>3. rows'[i].status = "none"
    <3>1. ASSUME NEW w \in Worker, Acquired(w), pc[w] \in {"insert", "takeover"}
          PROVE  rows'[i].status = "none"
      <4>1. CASE w[2] = "user"
        <5>1. PICK m \in Node : w = User(m)
          BY <4>1 DEF Worker
        <5>2. m # n
          BY <3>1, <4>1, <5>1, <1>typed DEF Acquired, Goto, Asking
        <5> QED
          BY <2>1, <3>1, <4>1, <5>1, <5>2, <1>typed DEF Acquired
      <4>2. CASE w[2] # "user"
        BY <2>1, <3>1, <4>2 DEF Acquired
      <4> QED
        BY <4>1, <4>2
    <3>2. ASSUME NEW w \in Worker, InsertLease(w) \/ TakeoverLease(w)
          PROVE  rows'[i].status = "none"
      BY <3>1, <3>2, <2>1 DEF InsertLease, TakeoverLease, db
    <3>3. ASSUME NEW m \in Node, Enqueue(User(m)) PROVE rows'[i].status = "none"
      <4>1. rows' = rows \/ m # n
        BY <3>3, <1>typed DEF Enqueue, Goto, Asking
      <4> QED
        BY <3>3, <4>1, <2>1, <1>typed DEF Enqueue
    <3>4. ASSUME NEW m \in Node, Lookup(User(m)) PROVE rows'[i].status = "none"
      <4>1. rows' = rows \/ m # n
        BY <3>4, <1>typed DEF Lookup, Goto, Asking
      <4> QED
        BY <3>4, <4>1, <2>1, <1>typed DEF Lookup
    <3>5. ASSUME NEW m \in Node, Claim(m) PROVE rows'[i].status = "none"
      BY <3>5, <2>1, <1>typed DEF Claim, IsHead, Pending
    <3>6. ASSUME NEW m \in Node, Complete(m) PROVE rows'[i].status = "none"
      BY <3>6, <2>1, <1>typed DEF Complete, Claimed
    <3>7. ASSUME NEW m \in Node, Release(m) PROVE rows'[i].status = "none"
      BY <3>7, <2>1, <1>typed DEF Release, ReleaseTo, Claimed
    <3>8. ASSUME NEW m \in Node, SweepClaims(m) PROVE rows'[i].status = "none"
      BY <3>8, <2>1, <1>typed DEF SweepClaims, SweepTo, Expired
    <3>9. ASSUME NEW m \in Node, NEW j \in Item, Remove(m, j) PROVE rows'[i].status = "none"
      BY <3>9, <2>1, <1>typed DEF Remove, Live
    <3>10. ASSUME Tick PROVE rows'[i].status = "none"
      BY <3>10, <2>1, <1>typed DEF Tick, Row
    <3> QED
      BY RowWriters, <2>1, <3>2, <3>3, <3>4, <3>5, <3>6, <3>7, <3>8, <3>9, <3>10
  <2> QED
    BY <1>2, <2>1, <2>2, <2>3
<1> QED
  BY <1>1, <1>2, RequestKept

\* An unexpired claim is given up only by the drain loop it names or by a user
\* who removes the message, for any number of nodes and without any assumption
\* on time.
THEOREM ClaimFenced == Spec => ClaimFencing
<1> DEFINE Fenced ==
        \A i \in Item, w \in Worker :
            Claimed(i, w) /\ rows[i].left >= 0 /\ ~Claimed(i, w)'
                => \/ pc[w]' # pc[w]
                   \/ \E n \in Node : pc[User(n)] = "idle" /\ pc[User(n)]' = "removed_read"
<1>1. Init => OwnRequest
  BY Workers DEF Init, OwnRequest, Asking
<1>2. TypeOK /\ OwnRequest /\ [Next]_vars => [Fenced]_vars
  <2> SUFFICES ASSUME TypeOK, OwnRequest, [Next]_vars, NEW i \in Item, NEW w \in Worker,
                      Claimed(i, w), rows[i].left >= 0, ~Claimed(i, w)'
               PROVE  \/ pc'[w] # pc[w]
                      \/ \E n \in Node : pc[User(n)] = "idle" /\ pc'[User(n)] = "removed_read"
    OBVIOUS
  <2> USE Workers DEF Claimed
  <2>typed. pc \in [Worker -> PC] /\ rows \in [Item -> Row]
    BY DEF TypeOK
  <2>own. ASSUME NEW n \in Node, pc[User(n)] \in Asking PROVE item[User(n)] # i
    BY <2>own DEF OwnRequest
  <2>1. ASSUME NEW v \in Worker, InsertLease(v) \/ TakeoverLease(v) PROVE FALSE
    <3>1. v[2] = "user" => item[v] # i
      <4>1. v[2] = "user" => \E n \in Node : v = User(n)
        BY DEF Worker
      <4> QED
        BY <2>1, <2>own, <4>1 DEF InsertLease, TakeoverLease, Asking
    <3> QED
      BY <2>1, <3>1, <2>typed DEF InsertLease, TakeoverLease, Acquired, db
  <2>2. ASSUME NEW n \in Node, Enqueue(User(n)) PROVE FALSE
    BY <2>2, <2>own, <2>typed DEF Enqueue, Asking
  <2>3. ASSUME NEW n \in Node, Lookup(User(n)) PROVE FALSE
    BY <2>3, <2>own, <2>typed DEF Lookup, Asking
  <2>4. ASSUME NEW n \in Node, Claim(n) PROVE FALSE
    BY <2>4, <2>typed DEF Claim, IsHead, Pending
  <2>5. ASSUME NEW n \in Node, Complete(n) PROVE pc'[w] # pc[w]
    <3>1. w = Drain(n)
      BY <2>5, <2>typed DEF Complete
    <3> QED
      BY <2>5, <3>1, <2>typed DEF Complete, Goto
  <2>6. ASSUME NEW n \in Node, Release(n) PROVE pc'[w] # pc[w]
    <3>1. w = Drain(n)
      BY <2>6, <2>typed DEF Release, ReleaseTo
    <3> QED
      BY <2>6, <3>1, <2>typed DEF Release, ReleaseTo, Goto
  <2>7. ASSUME NEW n \in Node, SweepClaims(n) PROVE FALSE
    BY <2>7, <2>typed, QueueAssumption DEF SweepClaims, SweepTo, Expired, Row, QueueAssumption
  <2>8. ASSUME NEW n \in Node, NEW j \in Item, Remove(n, j)
        PROVE  pc[User(n)] = "idle" /\ pc'[User(n)] = "removed_read"
    BY <2>8, <2>typed DEF Remove, Goto
  <2>9. ASSUME Tick PROVE FALSE
    BY <2>9, <2>typed DEF Tick, Row
  <2> QED
    BY RowWriters, <2>1, <2>2, <2>3, <2>4, <2>5, <2>6, <2>7, <2>8, <2>9
<1> QED
  BY <1>1, <1>2, TypeCorrect, TypeInit, TypeStep, RequestStep, PTL DEF Spec, ClaimFencing
-----------------------------------------------------------------------------
\* Only the release by a drain loop raises the retry count of a row, and it has
\* the claim then.
THEOREM ClaimerCharges == Spec => OnlyClaimerCharges
<1> DEFINE Charged ==
        \A i \in Item : rows[i].retry' > rows[i].retry
            => \E n \in Node : Claimed(i, Drain(n)) /\ pc[Drain(n)] \in {"release", "refund"}
                                 /\ pc[Drain(n)]' # pc[Drain(n)]
<1>1. TypeOK /\ [Next]_vars => [Charged]_vars
  <2> SUFFICES ASSUME TypeOK, [Next]_vars, NEW i \in Item, rows'[i].retry > rows[i].retry
               PROVE  \E n \in Node : Claimed(i, Drain(n)) /\ pc[Drain(n)] \in {"release", "refund"}
                                        /\ pc'[Drain(n)] # pc[Drain(n)]
    OBVIOUS
  <2> USE Workers
  <2>typed. pc \in [Worker -> PC] /\ rows \in [Item -> Row] 
    BY DEF TypeOK
  <2>nat. rows[i].retry \in Nat
    <3>1. MaxRetries \in Nat /\ rows[i] \in Row
      BY <2>typed, QueueAssumption DEF QueueAssumption
    <3> QED
      BY <3>1 DEF Row
  <2>zero. Gone("gone").retry = 0 /\ Gone("done").retry = 0 /\ Unclaimed("pending", 0).retry = 0
    BY DEF Gone, Unclaimed
  <2>1. ASSUME NEW w \in Worker, InsertLease(w) \/ TakeoverLease(w) PROVE FALSE
    BY <2>1, <2>typed, <2>nat, <2>zero DEF InsertLease, TakeoverLease, Acquired, db
  <2>2. ASSUME NEW n \in Node, Enqueue(User(n)) PROVE FALSE
    BY <2>2, <2>typed, <2>nat, <2>zero DEF Enqueue
  <2>3. ASSUME NEW n \in Node, Lookup(User(n)) PROVE FALSE
    BY <2>3, <2>typed, <2>nat, <2>zero DEF Lookup
  <2>4. ASSUME NEW n \in Node, Claim(n) PROVE FALSE
    <3>1. CASE rows' = rows
      BY <3>1, <2>typed, <2>nat
    <3>2. CASE item[Drain(n)] \in Item
               /\ rows' = [rows EXCEPT ![item[Drain(n)]] =
                              [@ EXCEPT !.status = "claimed", !.claim = Drain(n), !.left = TTL]]
      <4>1. rows'[i].retry = rows[i].retry
        BY <3>2, <2>typed DEF Row
      <4> QED
        BY <4>1, <2>nat
    <3> QED
      BY <2>4, <3>1, <3>2 DEF Claim, IsHead, Pending
  <2>5. ASSUME NEW n \in Node, Complete(n) PROVE FALSE
    BY <2>5, <2>typed, <2>nat, <2>zero DEF Complete
  <2>6. ASSUME NEW n \in Node, Release(n)
        PROVE  Claimed(i, Drain(n)) /\ pc[Drain(n)] \in {"release", "refund"}
                 /\ pc'[Drain(n)] # pc[Drain(n)]
    <3>1. pc[Drain(n)] \in {"release", "refund"} /\ pc'[Drain(n)] # pc[Drain(n)]
      BY <2>6, <2>typed DEF Release, ReleaseTo, Goto
    <3>2. Claimed(i, Drain(n))
      BY <2>6, <2>typed, <2>nat DEF Release, ReleaseTo
    <3> QED
      BY <3>1, <3>2
  <2>7. ASSUME NEW n \in Node, SweepClaims(n) PROVE FALSE
    <3>1. Unclaimed("pending", rows[i].retry + 0).retry = rows[i].retry
      BY <2>nat DEF Unclaimed
    <3> QED
      BY <2>7, <3>1, <2>typed, <2>nat DEF SweepClaims, SweepTo
  <2>8. ASSUME NEW n \in Node, NEW j \in Item, Remove(n, j) PROVE FALSE
    BY <2>8, <2>typed, <2>nat, <2>zero DEF Remove
  <2>9. ASSUME Tick PROVE FALSE
    <3>1. rows'[i].retry = rows[i].retry
      BY <2>9, <2>typed DEF Tick, Row
    <3> QED
      BY <3>1, <2>typed, <2>nat
  <2>10. ASSUME rows' = rows PROVE FALSE
    BY <2>10, <2>nat
  <2> QED
    BY RowWriters, <2>1, <2>2, <2>3, <2>4, <2>5, <2>6, <2>7, <2>8, <2>9, <2>10
<1> QED
  BY <1>1, TypeCorrect, PTL DEF Spec, OnlyClaimerCharges

-----------------------------------------------------------------------------
\* SlotHasOwner is inductive as it stands: a step either leaves the slots alone
\* and every working worker working, or frees the slot of the one worker that it
\* moves, or takes the slot for a worker that now works.
Working(w) == pc[w] \in Preparing \cup Running \cup Failing

LEMMA WorkingLabels ==
    /\ \A l \in {"check", "claim", "claimed_read", "claimed", "missed_read", "missed", "run",
                 "complete", "completed_read", "completed", "release", "abandon",
                 "abandoned_read", "abandoned", "refund"} :
        l \in Preparing \cup Running \cup Failing
    /\ \A l \in {"idle", "head", "insert", "takeover", "enqueue", "lookup", "relookup_read",
                 "relookup", "lookup_again", "queued_read", "queued", "removed_read", "removed",
                 "leases", "swept_read", "swept", "synced", "unlock_loop", "unlock_stop",
                 "unlock_done", "unlock_failed"} :
        l \notin Preparing \cup Running \cup Failing
    /\ \A l \in Reading : AfterRead[l] \in Preparing \cup Running \cup Failing
                            <=> l \in Preparing \cup Running \cup Failing
  BY DEF Preparing, Running, Failing, Reading, AfterRead

\* Moving a worker that does not work, or from work to work.
LEMMA StillWorking ==
    ASSUME TypeOK, NEW w \in Worker, NEW l, Goto(w, l),
           Working(w) => l \in Preparing \cup Running \cup Failing
    PROVE  \A v \in Worker : Working(v) => Working(v)'
  BY DEF TypeOK, Goto, Working

\* Moving any one worker: those of the other nodes go on.
LEMMA OthersWorking ==
    ASSUME TypeOK, NEW w \in Worker, NEW l, Goto(w, l)
    PROVE  \A v \in Worker : v[1] # w[1] /\ Working(v) => Working(v)'
  BY DEF TypeOK, Goto, Working

LEMMA ReturnsWorking ==
    ASSUME TypeOK, NEW n \in Node, DrainReturns(n), ~Working(Drain(n))
    PROVE  \A v \in Worker : Working(v) => Working(v)'
  BY Workers DEF TypeOK, DrainReturns, Working

LEMMA SchedulingWorking ==
    ASSUME TypeOK, NEW n \in Node, NEW w \in Worker, ~Working(w),
           NEW p \in [Worker -> PC], p = [pc EXCEPT ![w] = "idle"] \/ p = pc,
           Scheduling(p, n) \/ pc' = p
    PROVE  \A v \in Worker : Working(v) => Working(v)'
<1> SUFFICES ASSUME NEW v \in Worker, Working(v) PROVE Working(v)'
  OBVIOUS
<1>1. v # w /\ p[v] = pc[v] /\ pc[v] # "idle"
  BY WorkingLabels DEF Working, TypeOK
<1>2. pc'[v] = p[v]
  BY <1>1, Workers DEF Scheduling
<1> QED
  BY <1>1, <1>2 DEF Working

LEMMA SlotStep == TypeOK /\ SlotHasOwner /\ [Next]_vars => SlotHasOwner'
<1> SUFFICES ASSUME TypeOK, SlotHasOwner, [Next]_vars PROVE SlotHasOwner'
  OBVIOUS
<1> USE Workers
<1>typed. pc \in [Worker -> PC] /\ slot \in [Node -> BOOLEAN]
  BY DEF TypeOK
<1>owner. \A n \in Node : slot[n] => \E w \in Of(n) : w \in Worker /\ Working(w)
  BY DEF SlotHasOwner, Working
<1>homes. \A n \in Node : \A w \in Of(n) : w[1] = n
  BY DEF Of
<1>kept. ASSUME slot' = slot, \A v \in Worker : Working(v) => Working(v)'
         PROVE  SlotHasOwner'
  BY <1>kept, <1>owner DEF SlotHasOwner, Working
<1>freed. ASSUME NEW n \in Node, FreeSlot(n),
                 \A v \in Worker : v[1] # n /\ Working(v) => Working(v)'
          PROVE  SlotHasOwner'
  <2>1. ASSUME NEW m \in Node, slot'[m] PROVE m # n /\ slot[m]
    BY <1>freed, <2>1, <1>typed DEF FreeSlot
  <2> QED
    BY <1>freed, <2>1, <1>owner, <1>homes DEF SlotHasOwner, Working
<1>acquired. ASSUME NEW w \in Worker, Acquired(w), ~Working(w) PROVE SlotHasOwner'
  <2>1. w \in Of(w[1]) /\ Working(w)'
    BY <1>acquired, <1>typed, WorkingLabels DEF Worker, Of, Acquired, Goto, Working
  <2>2. \A v \in Worker : Working(v) => Working(v)'
    BY <1>acquired, <1>typed DEF Acquired, Goto, Working
  <2>3. \A m \in Node : slot'[m] => slot[m] \/ m = w[1]
    BY <1>acquired, <1>typed DEF Acquired
  <2> QED
    BY <2>1, <2>2, <2>3, <1>owner DEF SlotHasOwner, Working
<1>1. ASSUME NEW w \in Worker, Select(w) PROVE SlotHasOwner'
  <2>1. slot' = slot /\ Goto(w, AfterRead[pc[w]]) /\ pc[w] \in Reading
    BY <1>1 DEF Select, local
  <2> QED
    BY <2>1, <1>kept, StillWorking, WorkingLabels DEF Working
<1>2. ASSUME NEW w \in Worker, InsertLease(w) PROVE SlotHasOwner'
  <2>1. ~Working(w)
    BY <1>2, WorkingLabels DEF InsertLease, Working
  <2>2. CASE slot' = slot /\ Goto(w, "takeover")
    BY <2>1, <2>2, <1>kept, StillWorking
  <2> QED
    BY <1>2, <2>1, <2>2, <1>acquired DEF InsertLease
<1>3. ASSUME NEW w \in Worker, TakeoverLease(w) PROVE SlotHasOwner'
  <2>1. ~Working(w)
    BY <1>3, WorkingLabels DEF TakeoverLease, Working
  <2>2. CASE slot' = slot /\ Goto(w, "enqueue")
    BY <2>1, <2>2, <1>kept, StillWorking
  <2>3. CASE slot' = slot /\ w[2] = "drain" /\ DrainReturns(w[1])
    <3>1. w = Drain(w[1])
      BY <2>3 DEF Worker
    <3> QED
      BY <2>1, <2>3, <3>1, <1>kept, ReturnsWorking
  <2> QED
    BY <1>3, <2>1, <2>2, <2>3, <1>acquired DEF TakeoverLease
<1>4. ASSUME NEW w \in Worker, Enqueue(w) PROVE SlotHasOwner'
  <2>1. slot' = slot
    BY <1>4 DEF Enqueue, local
  <2>2. \A v \in Worker : Working(v) => Working(v)'
    BY <1>4, <1>typed, StillWorking, WorkingLabels DEF Enqueue, Working
  <2> QED
    BY <2>1, <2>2, <1>kept
<1>5. ASSUME NEW w \in Worker, Lookup(w) PROVE SlotHasOwner'
  <2>1. slot' = slot
    BY <1>5 DEF Lookup, local
  <2>2. \A v \in Worker : Working(v) => Working(v)'
    BY <1>5, <1>typed, StillWorking, WorkingLabels DEF Lookup, Working
  <2> QED
    BY <2>1, <2>2, <1>kept
<1>6. ASSUME NEW w \in Worker, LookAgain(w) PROVE SlotHasOwner'
  <2>1. slot' = slot
    BY <1>6 DEF LookAgain, local
  <2>2. \A v \in Worker : Working(v) => Working(v)'
    BY <1>6, <1>typed, StillWorking, WorkingLabels DEF LookAgain, Working
  <2> QED
    BY <2>1, <2>2, <1>kept
<1>7. ASSUME NEW w \in Worker, TurnSucceeds(w) PROVE SlotHasOwner'
  <2>1. CASE slot' = slot /\ Goto(w, "complete")
    BY <2>1, <1>kept, StillWorking, WorkingLabels
  <2>2. CASE FreeSlot(w[1]) /\ Goto(w, "unlock_done")
    BY <2>2, <1>freed, OthersWorking
  <2> QED
    BY <1>7, <2>1, <2>2 DEF TurnSucceeds
<1>8. ASSUME NEW w \in Worker, TurnThrows(w) PROVE SlotHasOwner'
  <2>1. CASE slot' = slot /\ Goto(w, "release")
    BY <2>1, <1>kept, StillWorking, WorkingLabels
  <2>2. CASE FreeSlot(w[1]) /\ Goto(w, "unlock_done")
    BY <2>2, <1>freed, OthersWorking
  <2> QED
    BY <1>8, <2>1, <2>2 DEF TurnThrows
<1>9. ASSUME NEW w \in Worker, Renew(w) PROVE SlotHasOwner'
  BY <1>9, <1>kept DEF Renew, local, Working
<1>10. ASSUME NEW n \in Node, Queued(n) PROVE SlotHasOwner'
  <2> DEFINE p == [pc EXCEPT ![User(n)] = "idle"]
  <2>1. ~Working(User(n)) /\ slot' = slot /\ (Scheduling(p, n) \/ pc' = p)
    BY <1>10, WorkingLabels DEF Queued, Working
  <2>2. p \in [Worker -> PC]
    BY <1>typed, Labels
  <2> QED
    BY <2>1, <2>2, <1>kept, SchedulingWorking
<1>11. ASSUME NEW n \in Node, Removed(n) PROVE SlotHasOwner'
  <2>1. slot' = slot /\ \E l \in PC : Goto(User(n), l)
    BY <1>11, Labels DEF Removed, local
  <2>2. ~Working(User(n))
    BY <1>11, WorkingLabels DEF Removed, Working
  <2> QED
    BY <2>1, <2>2, <1>kept, StillWorking
<1>12. ASSUME NEW n \in Node, ReadHead(n) PROVE SlotHasOwner'
  <2>1. slot' = slot /\ \E l \in PC : Goto(Drain(n), l)
    BY <1>12, Labels DEF ReadHead, local
  <2>2. ~Working(Drain(n))
    BY <1>12, WorkingLabels DEF ReadHead, Working
  <2> QED
    BY <2>1, <2>2, <1>kept, StillWorking
<1>13. ASSUME NEW n \in Node, GiveUp(n) PROVE SlotHasOwner'
  <2>1. ~Working(Drain(n)) /\ slot' = slot /\ DrainReturns(n)
    BY <1>13, WorkingLabels DEF GiveUp, Working
  <2> QED
    BY <2>1, <1>kept, ReturnsWorking
<1>14. ASSUME NEW n \in Node, Check(n) PROVE SlotHasOwner'
  <2>1. CASE slot' = slot /\ Goto(Drain(n), "claim")
    BY <2>1, <1>kept, StillWorking, WorkingLabels
  <2>2. CASE FreeSlot(n) /\ Goto(Drain(n), "unlock_stop")
    BY <2>2, <1>freed, OthersWorking
  <2> QED
    BY <1>14, <2>1, <2>2 DEF Check
<1>15. ASSUME NEW n \in Node, Claim(n) PROVE SlotHasOwner'
  <2>1. slot' = slot
    BY <1>15 DEF Claim, local
  <2>2. \A v \in Worker : Working(v) => Working(v)'
    <3>1. \E l \in Preparing \cup Running \cup Failing : Goto(Drain(n), l)
      BY <1>15, WorkingLabels DEF Claim
    <3> QED
      BY <3>1, <1>typed, StillWorking
  <2> QED
    BY <2>1, <2>2, <1>kept
<1>16. ASSUME NEW n \in Node, Missed(n) PROVE SlotHasOwner'
  <2>1. FreeSlot(n) /\ \E l \in PC : Goto(Drain(n), l)
    BY <1>16, Labels DEF Missed
  <2> QED
    BY <2>1, <1>freed, OthersWorking
<1>17. ASSUME NEW n \in Node, Configure(n) PROVE SlotHasOwner'
  <2>1. slot' = slot
    BY <1>17 DEF Configure, local
  <2>2. \A v \in Worker : Working(v) => Working(v)'
    <3>1. \E l \in Preparing \cup Running \cup Failing : Goto(Drain(n), l)
      BY <1>17, WorkingLabels DEF Configure
    <3> QED
      BY <3>1, <1>typed, StillWorking
  <2> QED
    BY <2>1, <2>2, <1>kept
<1>18. ASSUME NEW n \in Node, Complete(n) PROVE SlotHasOwner'
  <2>1. slot' = slot
    BY <1>18 DEF Complete, local
  <2>2. \A v \in Worker : Working(v) => Working(v)'
    <3>1. \E l \in Preparing \cup Running \cup Failing : Goto(Drain(n), l)
      BY <1>18, WorkingLabels DEF Complete
    <3> QED
      BY <3>1, <1>typed, StillWorking
  <2> QED
    BY <2>1, <2>2, <1>kept
<1>19. ASSUME NEW n \in Node, Settle(n) PROVE SlotHasOwner'
  <2>1. FreeSlot(n) /\ \E l \in PC : Goto(Drain(n), l)
    BY <1>19, Labels DEF Settle
  <2> QED
    BY <2>1, <1>freed, OthersWorking
<1>20. ASSUME NEW n \in Node, Release(n) PROVE SlotHasOwner'
  <2>1. FreeSlot(n) /\ \E l \in PC : Goto(Drain(n), l)
    BY <1>20, Labels DEF Release, ReleaseTo
  <2> QED
    BY <2>1, <1>freed, OthersWorking
<1>21. ASSUME NEW n \in Node, UnlockDrain(n) PROVE SlotHasOwner'
  <2>1. ~Working(Drain(n)) /\ slot' = slot
    BY <1>21, WorkingLabels DEF UnlockDrain, Working
  <2>2. DrainReturns(n) \/ Goto(Drain(n), "head")
    BY <1>21 DEF UnlockDrain
  <2> QED
    BY <2>1, <2>2, <1>kept, ReturnsWorking, StillWorking
<1>22. ASSUME NEW n \in Node, UnlockUser(n) PROVE SlotHasOwner'
  <2> DEFINE p == [pc EXCEPT ![User(n)] = "idle"]
  <2>1. ~Working(User(n)) /\ slot' = slot /\ (Scheduling(p, n) \/ pc' = p)
    BY <1>22, WorkingLabels DEF UnlockUser, Working
  <2>2. p \in [Worker -> PC]
    BY <1>typed, Labels
  <2> QED
    BY <2>1, <2>2, <1>kept, SchedulingWorking
<1>23. ASSUME NEW n \in Node, SlotExpires(n) PROVE SlotHasOwner'
  BY <1>23, <1>freed DEF SlotExpires, Working
<1>24. ASSUME NEW n \in Node, SweepClaims(n) PROVE SlotHasOwner'
  <2>1. slot' = slot /\ \E l \in PC : Goto(Sweep(n), l)
    BY <1>24, Labels DEF SweepClaims, SweepTo, local
  <2>2. ~Working(Sweep(n))
    BY <1>24, WorkingLabels DEF SweepClaims, SweepTo, Working
  <2> QED
    BY <2>1, <2>2, <1>kept, StillWorking
<1>25. ASSUME NEW n \in Node, SweepLeases(n) PROVE SlotHasOwner'
  <2>1. slot' = slot /\ \E l \in PC : Goto(Sweep(n), l)
    BY <1>25, Labels DEF SweepLeases, local
  <2>2. ~Working(Sweep(n))
    BY <1>25, WorkingLabels DEF SweepLeases, Working
  <2> QED
    BY <2>1, <2>2, <1>kept, StillWorking
<1>26. ASSUME NEW n \in Node, Swept(n) PROVE SlotHasOwner'
  <2> DEFINE p == [pc EXCEPT ![Sweep(n)] = "idle"]
  <2>1. ~Working(Sweep(n)) /\ slot' = slot /\ (Scheduling(p, n) \/ pc' = p)
    BY <1>26, WorkingLabels DEF Swept, Working
  <2>2. p \in [Worker -> PC]
    BY <1>typed, Labels
  <2> QED
    BY <2>1, <2>2, <1>kept, SchedulingWorking
<1>27. ASSUME NEW n \in Node, SyncRead(n) PROVE SlotHasOwner'
  <2>1. slot' = slot /\ \E l \in PC : Goto(Sync(n), l)
    BY <1>27, Labels DEF SyncRead, local
  <2>2. ~Working(Sync(n))
    BY <1>27, WorkingLabels DEF SyncRead, Working
  <2> QED
    BY <2>1, <2>2, <1>kept, StillWorking
<1>28. ASSUME NEW n \in Node, Synced(n) PROVE SlotHasOwner'
  <2>1. slot' = slot /\ \E l \in PC : Goto(Sync(n), l)
    BY <1>28, Labels DEF Synced, local
  <2>2. ~Working(Sync(n))
    BY <1>28, WorkingLabels DEF Synced, Working
  <2> QED
    BY <2>1, <2>2, <1>kept, StillWorking
<1>29. ASSUME NEW n \in Node, ClientOpens(n) PROVE SlotHasOwner'
  <2>1. slot' = slot /\ (Scheduling(pc, n) \/ pc' = pc)
    BY <1>29 DEF ClientOpens
  <2>2. \A v \in Worker : Working(v) => Working(v)'
    BY <2>1, <1>typed, WorkingLabels DEF Scheduling, Working
  <2> QED
    BY <2>1, <2>2, <1>kept
<1>30. ASSUME NEW n \in Node, ExecutorConnects(n) PROVE SlotHasOwner'
  <2>1. slot' = slot /\ (Scheduling(pc, n) \/ pc' = pc)
    BY <1>30 DEF ExecutorConnects
  <2>2. \A v \in Worker : Working(v) => Working(v)'
    BY <2>1, <1>typed, WorkingLabels DEF Scheduling, Working
  <2> QED
    BY <2>1, <2>2, <1>kept
<1>31. ASSUME NEW n \in Node, Crash(n) PROVE SlotHasOwner'
  <2>1. ASSUME NEW v \in Worker, v[1] # n PROVE pc'[v] = pc[v]
    BY <1>31, <2>1, <1>homes DEF Crash
  <2> QED
    BY <1>31, <2>1, <1>freed DEF Crash, Working
<1>32. ASSUME NEW n \in Node, Restart(n) PROVE SlotHasOwner'
  BY <1>32, <1>kept DEF Restart, local, Working
<1>33. ASSUME NEW n \in Node, NEW i \in Item, SendMessage(n, i) PROVE SlotHasOwner'
  <2>1. slot' = slot /\ \E l \in PC : Goto(User(n), l)
    BY <1>33, Labels DEF SendMessage, local
  <2>2. ~Working(User(n))
    BY <1>33, WorkingLabels DEF SendMessage, Working
  <2> QED
    BY <2>1, <2>2, <1>kept, StillWorking
<1>34. ASSUME NEW n \in Node, NEW i \in Item, Remove(n, i) PROVE SlotHasOwner'
  <2>1. slot' = slot /\ \E l \in PC : Goto(User(n), l)
    BY <1>34, Labels DEF Remove, local
  <2>2. ~Working(User(n))
    BY <1>34, WorkingLabels DEF Remove, Working
  <2> QED
    BY <2>1, <2>2, <1>kept, StillWorking
<1>35. ASSUME ExecutorLeaves PROVE SlotHasOwner'
  BY <1>35, <1>kept DEF ExecutorLeaves, local, Working
<1>36. ASSUME Tick PROVE SlotHasOwner'
  BY <1>36, <1>kept DEF Tick, local, Working
<1>37. ASSUME UNCHANGED vars PROVE SlotHasOwner'
  BY <1>37, <1>kept DEF vars, local, Working
<1> QED
  BY <1>1, <1>2, <1>3, <1>4, <1>5, <1>6, <1>7, <1>8, <1>9, <1>10, <1>11, <1>12, <1>13, <1>14, <1>15, <1>16, <1>17, <1>18, <1>19, <1>20, <1>21, <1>22, <1>23, <1>24, <1>25, <1>26, <1>27, <1>28, <1>29, <1>30, <1>31, <1>32, <1>33, <1>34, <1>35, <1>36, <1>37
  DEF Next, Step, DrainStep, UserStep, SweepStep, TurnStep, Request, Timer, Listen, Fault

\* The slot of a node is never taken without a worker of the node at work.
THEOREM SlotOwned == Spec => []SlotHasOwner
<1>1. Init => SlotHasOwner
  BY DEF Init, SlotHasOwner
<1> QED
  BY <1>1, TypeInit, TypeStep, SlotStep, PTL DEF Spec

-----------------------------------------------------------------------------
\* DoneWasStarted.  A drain loop on its way to a completion has started a turn for
\* its message; one that gives a message up without a turn has a task run for it.
\* That is inductive, since turns that were started stay counted.
Sending == {"claimed_read", "claimed", "run", "complete", "abandon"}
Sent(n) ==
    /\ pc[Drain(n)] \in Sending => item[Drain(n)] \in Item
    /\ pc[Drain(n)] \in {"run", "complete"} => started[item[Drain(n)]] > 0
    /\ pc[Drain(n)] = "abandon" => item[Drain(n)] \in WithTaskRun

LEMMA StartedKept ==
    ASSUME TypeOK, [Next]_vars, NEW i \in Item, started[i] > 0
    PROVE  started'[i] > 0
<1>typed. started \in [Item -> Nat] /\ started[i] \in Nat /\ MaxRetries + 1 + MaxCrashes \in Nat
  BY QueueAssumption DEF TypeOK, QueueAssumption
<1>same. ASSUME started' = started PROVE started'[i] > 0
  BY <1>same
<1>one. ASSUME NEW w \in Worker, started' = [started EXCEPT ![item[w]] = 1] PROVE started'[i] > 0
  BY <1>one, <1>typed
<1>1. ASSUME NEW w \in Worker, Select(w) PROVE started'[i] > 0
  BY <1>1, <1>same DEF Select
<1>2. ASSUME NEW w \in Worker, InsertLease(w) PROVE started'[i] > 0
  BY <1>2, <1>same, <1>one DEF InsertLease, Acquired
<1>3. ASSUME NEW w \in Worker, TakeoverLease(w) PROVE started'[i] > 0
  BY <1>3, <1>same, <1>one DEF TakeoverLease, Acquired
<1>4. ASSUME NEW w \in Worker, Enqueue(w) PROVE started'[i] > 0
  BY <1>4, <1>same DEF Enqueue
<1>5. ASSUME NEW w \in Worker, Lookup(w) PROVE started'[i] > 0
  BY <1>5, <1>same DEF Lookup
<1>6. ASSUME NEW w \in Worker, LookAgain(w) PROVE started'[i] > 0
  BY <1>6, <1>same DEF LookAgain
<1>7. ASSUME NEW w \in Worker, TurnSucceeds(w) PROVE started'[i] > 0
  BY <1>7, <1>same DEF TurnSucceeds
<1>8. ASSUME NEW w \in Worker, TurnThrows(w) PROVE started'[i] > 0
  BY <1>8, <1>same DEF TurnThrows
<1>9. ASSUME NEW w \in Worker, Renew(w) PROVE started'[i] > 0
  BY <1>9, <1>same DEF Renew
<1>10. ASSUME NEW n \in Node, Queued(n) PROVE started'[i] > 0
  BY <1>10, <1>same DEF Queued
<1>11. ASSUME NEW n \in Node, Removed(n) PROVE started'[i] > 0
  BY <1>11, <1>same DEF Removed
<1>12. ASSUME NEW n \in Node, ReadHead(n) PROVE started'[i] > 0
  BY <1>12, <1>same DEF ReadHead
<1>13. ASSUME NEW n \in Node, GiveUp(n) PROVE started'[i] > 0
  BY <1>13, <1>same DEF GiveUp
<1>14. ASSUME NEW n \in Node, Check(n) PROVE started'[i] > 0
  BY <1>14, <1>same DEF Check
<1>15. ASSUME NEW n \in Node, Claim(n) PROVE started'[i] > 0
  BY <1>15, <1>same DEF Claim
<1>16. ASSUME NEW n \in Node, Missed(n) PROVE started'[i] > 0
  BY <1>16, <1>same DEF Missed
<1>17. ASSUME NEW n \in Node, Configure(n) PROVE started'[i] > 0
  BY <1>17, <1>same, <1>typed DEF Configure
<1>18. ASSUME NEW n \in Node, Complete(n) PROVE started'[i] > 0
  BY <1>18, <1>same DEF Complete
<1>19. ASSUME NEW n \in Node, Settle(n) PROVE started'[i] > 0
  BY <1>19, <1>same DEF Settle
<1>20. ASSUME NEW n \in Node, Release(n) PROVE started'[i] > 0
  BY <1>20, <1>same DEF Release, ReleaseTo
<1>21. ASSUME NEW n \in Node, UnlockDrain(n) PROVE started'[i] > 0
  BY <1>21, <1>same DEF UnlockDrain
<1>22. ASSUME NEW n \in Node, UnlockUser(n) PROVE started'[i] > 0
  BY <1>22, <1>same DEF UnlockUser
<1>23. ASSUME NEW n \in Node, SlotExpires(n) PROVE started'[i] > 0
  BY <1>23, <1>same DEF SlotExpires
<1>24. ASSUME NEW n \in Node, SweepClaims(n) PROVE started'[i] > 0
  BY <1>24, <1>same DEF SweepClaims, SweepTo
<1>25. ASSUME NEW n \in Node, SweepLeases(n) PROVE started'[i] > 0
  BY <1>25, <1>same DEF SweepLeases
<1>26. ASSUME NEW n \in Node, Swept(n) PROVE started'[i] > 0
  BY <1>26, <1>same DEF Swept
<1>27. ASSUME NEW n \in Node, SyncRead(n) PROVE started'[i] > 0
  BY <1>27, <1>same DEF SyncRead
<1>28. ASSUME NEW n \in Node, Synced(n) PROVE started'[i] > 0
  BY <1>28, <1>same DEF Synced
<1>29. ASSUME NEW n \in Node, ClientOpens(n) PROVE started'[i] > 0
  BY <1>29, <1>same DEF ClientOpens
<1>30. ASSUME NEW n \in Node, ExecutorConnects(n) PROVE started'[i] > 0
  BY <1>30, <1>same DEF ExecutorConnects
<1>31. ASSUME NEW n \in Node, Crash(n) PROVE started'[i] > 0
  BY <1>31, <1>same DEF Crash
<1>32. ASSUME NEW n \in Node, Restart(n) PROVE started'[i] > 0
  BY <1>32, <1>same DEF Restart
<1>33. ASSUME NEW n \in Node, NEW j \in Item, SendMessage(n, j) PROVE started'[i] > 0
  BY <1>33, <1>same DEF SendMessage
<1>34. ASSUME NEW n \in Node, NEW j \in Item, Remove(n, j) PROVE started'[i] > 0
  BY <1>34, <1>same DEF Remove
<1>35. ASSUME ExecutorLeaves PROVE started'[i] > 0
  BY <1>35, <1>same DEF ExecutorLeaves
<1>36. ASSUME Tick PROVE started'[i] > 0
  BY <1>36, <1>same DEF Tick
<1>37. ASSUME UNCHANGED vars PROVE started'[i] > 0
  BY <1>37, <1>same DEF vars
<1> QED
  BY Workers, <1>1, <1>2, <1>3, <1>4, <1>5, <1>6, <1>7, <1>8, <1>9, <1>10, <1>11, <1>12, <1>13, <1>14, <1>15, <1>16, <1>17, <1>18, <1>19, <1>20, <1>21, <1>22, <1>23, <1>24, <1>25, <1>26, <1>27, <1>28, <1>29, <1>30, <1>31, <1>32, <1>33, <1>34, <1>35, <1>36, <1>37
  DEF Next, Step, DrainStep, UserStep, SweepStep, TurnStep, Request, Timer, Listen, Fault

LEMMA SentStep ==
    ASSUME TypeOK, [Next]_vars, NEW n \in Node, Sent(n)
    PROVE  Sent(n)'
<1> USE Workers, QueueAssumption
<1>typed. /\ pc \in [Worker -> PC] /\ item \in [Worker -> Item \cup {NoItem}]
          /\ started \in [Item -> Nat]
  BY DEF TypeOK
<1>same. ASSUME pc'[Drain(n)] = pc[Drain(n)], item'[Drain(n)] = item[Drain(n)] PROVE Sent(n)'
  BY <1>same, StartedKept DEF Sent, Sending
<1>out. ASSUME pc'[Drain(n)] \notin Sending PROVE Sent(n)'
  BY <1>out DEF Sent, Sending
<1>on. ASSUME item'[Drain(n)] = item[Drain(n)],
              \/ pc[Drain(n)] = "claimed_read" /\ pc'[Drain(n)] = "claimed"
              \/ pc[Drain(n)] = "run" /\ pc'[Drain(n)] = "complete"
       PROVE  Sent(n)'
  BY <1>on, StartedKept DEF Sent, Sending
<1>moves. ASSUME NEW w \in Worker, w # Drain(n), NEW l, Goto(w, l) PROVE pc'[Drain(n)] = pc[Drain(n)]
  BY <1>moves, <1>typed DEF Goto
<1>returns. ASSUME NEW m \in Node, DrainReturns(m) PROVE Sent(n)'
  <2>1. CASE m = n
    BY <1>returns, <2>1, <1>out, <1>typed DEF DrainReturns, Sending
  <2>2. CASE m # n
    BY <1>returns, <2>2, <1>same, <1>typed DEF DrainReturns
  <2> QED
    BY <2>1, <2>2
<1>schedules. ASSUME NEW m \in Node, NEW q \in [Worker -> PC], q[Drain(n)] = pc[Drain(n)],
                     Scheduling(q, m) \/ pc' = q, item'[Drain(n)] = item[Drain(n)]
              PROVE  Sent(n)'
  <2>1. pc'[Drain(n)] = pc[Drain(n)] \/ pc'[Drain(n)] = "head"
    BY <1>schedules DEF Scheduling
  <2> QED
    BY <2>1, <1>schedules, <1>same, <1>out DEF Sending
<1>1. ASSUME NEW w \in Worker, Select(w) PROVE Sent(n)'
  <2>1. Goto(w, AfterRead[pc[w]]) /\ pc[w] \in Reading /\ item' = item
    BY <1>1 DEF Select
  <2>2. CASE w = Drain(n)
    <3>1. pc'[Drain(n)] = AfterRead[pc[w]]
      BY <2>1, <2>2, <1>typed DEF Goto
    <3>2. AfterRead[pc[w]] \in Sending => pc[w] = "claimed_read" /\ AfterRead[pc[w]] = "claimed"
      BY <2>1 DEF AfterRead, Reading, Sending
    <3> QED
      BY <2>1, <2>2, <3>1, <3>2, <1>on, <1>out
  <2> QED
    BY <2>1, <2>2, <1>moves, <1>same
<1>2. ASSUME NEW w \in Worker, InsertLease(w) PROVE Sent(n)'
  <2>1. item' = item /\ \E l \in {"run", "check", "takeover"} : Goto(w, l) /\ (l = "run" => w[2] = "user")
    BY <1>2 DEF InsertLease, Acquired, Worker
  <2>2. CASE w = Drain(n)
    BY <2>1, <2>2, <1>out, <1>typed DEF Goto, Sending
  <2> QED
    BY <2>1, <2>2, <1>moves, <1>same
<1>3. ASSUME NEW w \in Worker, TakeoverLease(w) PROVE Sent(n)'
  <2>1. CASE DrainReturns(w[1])
    BY <2>1, <1>returns
  <2>2. CASE /\ item' = item
             /\ \E l \in {"run", "check", "enqueue"} : Goto(w, l) /\ (l = "run" => w[2] = "user")
    <3>1. CASE w = Drain(n)
      BY <2>2, <3>1, <1>out, <1>typed DEF Goto, Sending
    <3> QED
      BY <2>2, <3>1, <1>moves, <1>same
  <2> QED
    BY <1>3, <2>1, <2>2 DEF TakeoverLease, Acquired, Worker
<1>4. ASSUME NEW m \in Node, Enqueue(User(m)) PROVE Sent(n)'
  <2>1. pc'[Drain(n)] = pc[Drain(n)] /\ item'[Drain(n)] = item[Drain(n)]
    BY <1>4, <1>typed DEF Enqueue, Goto
  <2> QED
    BY <2>1, <1>same
<1>5. ASSUME NEW m \in Node, Lookup(User(m)) PROVE Sent(n)'
  <2>1. pc'[Drain(n)] = pc[Drain(n)] /\ item'[Drain(n)] = item[Drain(n)]
    BY <1>5, <1>typed DEF Lookup, Goto
  <2> QED
    BY <2>1, <1>same
<1>6. ASSUME NEW m \in Node, LookAgain(User(m)) PROVE Sent(n)'
  <2>1. pc'[Drain(n)] = pc[Drain(n)] /\ item'[Drain(n)] = item[Drain(n)]
    BY <1>6, <1>typed DEF LookAgain, Goto
  <2> QED
    BY <2>1, <1>same
<1>7. ASSUME NEW w \in Worker, TurnSucceeds(w) PROVE Sent(n)'
  <2>1. item' = item /\ pc[w] = "run"
        /\ \E l \in {"complete", "unlock_done"} : Goto(w, l)
    BY <1>7 DEF TurnSucceeds
  <2>2. CASE w = Drain(n)
    BY <2>1, <2>2, <1>on, <1>out, <1>typed DEF Goto, Sending
  <2> QED
    BY <2>1, <2>2, <1>moves, <1>same
<1>8. ASSUME NEW w \in Worker, TurnThrows(w) PROVE Sent(n)'
  <2>1. item' = item /\ \E l \in {"release", "unlock_done"} : Goto(w, l)
    BY <1>8 DEF TurnThrows
  <2>2. CASE w = Drain(n)
    BY <2>1, <2>2, <1>out, <1>typed DEF Goto, Sending
  <2> QED
    BY <2>1, <2>2, <1>moves, <1>same
<1>9. ASSUME NEW w \in Worker, Renew(w) PROVE Sent(n)'
  BY <1>9, <1>same DEF Renew
<1>10. ASSUME NEW m \in Node, Queued(m) PROVE Sent(n)'
  <2> DEFINE q == [pc EXCEPT ![User(m)] = "idle"]
  <2>1. q \in [Worker -> PC] /\ q[Drain(n)] = pc[Drain(n)]
    BY <1>typed, Labels
  <2>2. (Scheduling(q, m) \/ pc' = q) /\ item'[Drain(n)] = item[Drain(n)]
    BY <1>10, <1>typed DEF Queued
  <2> QED
    BY <2>1, <2>2, <1>schedules
<1>11. ASSUME NEW m \in Node, Removed(m) PROVE Sent(n)'
  <2>1. pc'[Drain(n)] = pc[Drain(n)] /\ item'[Drain(n)] = item[Drain(n)]
    BY <1>11, <1>typed DEF Removed, Goto
  <2> QED
    BY <2>1, <1>same
<1>12. ASSUME NEW m \in Node, ReadHead(m) PROVE Sent(n)'
  <2>1. CASE m = n
    BY <1>12, <2>1, <1>out, <1>typed DEF ReadHead, Goto, Sending
  <2>2. CASE m # n
    BY <1>12, <2>2, <1>same, <1>typed DEF ReadHead, Goto
  <2> QED
    BY <2>1, <2>2
<1>13. ASSUME NEW m \in Node, GiveUp(m) PROVE Sent(n)'
  BY <1>13, <1>returns DEF GiveUp
<1>14. ASSUME NEW m \in Node, Check(m) PROVE Sent(n)'
  <2>1. item' = item /\ \E l \in {"claim", "unlock_stop"} : Goto(Drain(m), l)
    BY <1>14 DEF Check
  <2>2. CASE m = n
    BY <2>1, <2>2, <1>out, <1>typed DEF Goto, Sending
  <2>3. CASE m # n
    BY <2>1, <2>3, <1>same, <1>typed DEF Goto
  <2> QED
    BY <2>2, <2>3
<1>15. ASSUME NEW m \in Node, Claim(m) PROVE Sent(n)'
  <2>1. item' = item
    BY <1>15 DEF Claim
  <2>2. CASE m = n
    <3>1. CASE IsHead(item[Drain(n)], Pending) /\ Goto(Drain(n), "claimed_read")
      BY <2>1, <3>1, <1>typed DEF IsHead, Pending, Goto, Sent, Sending
    <3>2. CASE Goto(Drain(n), "missed_read")
      BY <3>2, <1>out, <1>typed DEF Goto, Sending
    <3> QED
      BY <1>15, <2>2, <3>1, <3>2 DEF Claim
  <2>3. CASE m # n
    <3>1. pc'[Drain(n)] = pc[Drain(n)]
      BY <1>15, <2>3, <1>typed DEF Claim, Goto
    <3> QED
      BY <2>1, <3>1, <1>same
  <2> QED
    BY <2>2, <2>3
<1>16. ASSUME NEW m \in Node, Missed(m) PROVE Sent(n)'
  <2>1. item' = item /\ \E l \in {"unlock_loop"} : Goto(Drain(m), l)
    BY <1>16 DEF Missed
  <2>2. CASE m = n
    BY <2>1, <2>2, <1>out, <1>typed DEF Goto, Sending
  <2>3. CASE m # n
    BY <2>1, <2>3, <1>same, <1>typed DEF Goto
  <2> QED
    BY <2>2, <2>3
<1>17. ASSUME NEW m \in Node, Configure(m) PROVE Sent(n)'
  <2>1. item' = item
    BY <1>17 DEF Configure
  <2>2. CASE m = n
    <3>1. item[Drain(n)] \in Item
      BY <1>17, <2>2 DEF Configure, Sent, Sending
    <3>2. CASE Goto(Drain(n), "run")
               /\ started' = [started EXCEPT ![item[Drain(n)]] = IF @ > MaxRetries + 1 + MaxCrashes
                                                                 THEN @ ELSE @ + 1]
      <4>1. started'[item[Drain(n)]] > 0
        <5>1. MaxRetries \in Nat /\ MaxCrashes \in Nat
          BY QueueAssumption DEF QueueAssumption
        <5>2. started[item[Drain(n)]] \in Nat
          BY <3>1, <1>typed
        <5> QED
          BY <3>1, <3>2, <5>1, <5>2, <1>typed
      <4>2. pc'[Drain(n)] = "run"
        BY <3>2, <1>typed DEF Goto
      <4> QED
        BY <2>1, <3>1, <4>1, <4>2 DEF Sent, Sending
    <3>3. CASE Goto(Drain(n), "abandon") /\ item[Drain(n)] \in WithTaskRun
      BY <2>1, <3>1, <3>3, <1>typed DEF Goto, Sent, Sending
    <3>4. CASE Goto(Drain(n), "refund")
      BY <3>4, <1>out, <1>typed DEF Goto, Sending
    <3> QED
      BY <1>17, <2>2, <3>2, <3>3, <3>4 DEF Configure
  <2>3. CASE m # n
    <3>1. pc'[Drain(n)] = pc[Drain(n)]
      BY <1>17, <2>3, <1>typed DEF Configure, Goto
    <3> QED
      BY <2>1, <3>1, <1>same
  <2> QED
    BY <2>2, <2>3
<1>18. ASSUME NEW m \in Node, Complete(m) PROVE Sent(n)'
  <2>1. item' = item /\ \E l \in {"completed_read", "abandoned_read"} : Goto(Drain(m), l)
    BY <1>18 DEF Complete
  <2>2. CASE m = n
    BY <2>1, <2>2, <1>out, <1>typed DEF Goto, Sending
  <2>3. CASE m # n
    BY <2>1, <2>3, <1>same, <1>typed DEF Goto
  <2> QED
    BY <2>2, <2>3
<1>19. ASSUME NEW m \in Node, Settle(m) PROVE Sent(n)'
  <2>1. item' = item /\ \E l \in {"unlock_done", "unlock_stop"} : Goto(Drain(m), l)
    BY <1>19 DEF Settle
  <2>2. CASE m = n
    BY <2>1, <2>2, <1>out, <1>typed DEF Goto, Sending
  <2>3. CASE m # n
    BY <2>1, <2>3, <1>same, <1>typed DEF Goto
  <2> QED
    BY <2>2, <2>3
<1>20. ASSUME NEW m \in Node, Release(m) PROVE Sent(n)'
  <2>1. item' = item /\ \E l \in {"unlock_failed", "unlock_stop"} : Goto(Drain(m), l)
    BY <1>20 DEF Release, ReleaseTo
  <2>2. CASE m = n
    BY <2>1, <2>2, <1>out, <1>typed DEF Goto, Sending
  <2>3. CASE m # n
    BY <2>1, <2>3, <1>same, <1>typed DEF Goto
  <2> QED
    BY <2>2, <2>3
<1>21. ASSUME NEW m \in Node, UnlockDrain(m) PROVE Sent(n)'
  <2>1. CASE DrainReturns(m)
    BY <2>1, <1>returns
  <2>2. CASE Goto(Drain(m), "head") /\ item' = [item EXCEPT ![Drain(m)] = NoItem]
    <3>1. CASE m = n
      BY <2>2, <3>1, <1>out, <1>typed DEF Goto, Sending
    <3>2. CASE m # n
      BY <2>2, <3>2, <1>same, <1>typed DEF Goto
    <3> QED
      BY <3>1, <3>2
  <2> QED
    BY <1>21, <2>1, <2>2 DEF UnlockDrain
<1>22. ASSUME NEW m \in Node, UnlockUser(m) PROVE Sent(n)'
  <2> DEFINE q == [pc EXCEPT ![User(m)] = "idle"]
  <2>1. q \in [Worker -> PC] /\ q[Drain(n)] = pc[Drain(n)]
    BY <1>typed, Labels
  <2>2. (Scheduling(q, m) \/ pc' = q) /\ item'[Drain(n)] = item[Drain(n)]
    BY <1>22, <1>typed DEF UnlockUser
  <2> QED
    BY <2>1, <2>2, <1>schedules
<1>23. ASSUME NEW m \in Node, SlotExpires(m) PROVE Sent(n)'
  BY <1>23, <1>same DEF SlotExpires
<1>24. ASSUME NEW m \in Node, SweepClaims(m) PROVE Sent(n)'
  <2>1. pc'[Drain(n)] = pc[Drain(n)] /\ item'[Drain(n)] = item[Drain(n)]
    BY <1>24, <1>typed DEF SweepClaims, SweepTo, Goto
  <2> QED
    BY <2>1, <1>same
<1>25. ASSUME NEW m \in Node, SweepLeases(m) PROVE Sent(n)'
  <2>1. pc'[Drain(n)] = pc[Drain(n)] /\ item'[Drain(n)] = item[Drain(n)]
    BY <1>25, <1>typed DEF SweepLeases, Goto
  <2> QED
    BY <2>1, <1>same
<1>26. ASSUME NEW m \in Node, Swept(m) PROVE Sent(n)'
  <2> DEFINE q == [pc EXCEPT ![Sweep(m)] = "idle"]
  <2>1. q \in [Worker -> PC] /\ q[Drain(n)] = pc[Drain(n)]
    BY <1>typed, Labels
  <2>2. (Scheduling(q, m) \/ pc' = q) /\ item'[Drain(n)] = item[Drain(n)]
    BY <1>26, <1>typed DEF Swept
  <2> QED
    BY <2>1, <2>2, <1>schedules
<1>27. ASSUME NEW m \in Node, SyncRead(m) PROVE Sent(n)'
  <2>1. pc'[Drain(n)] = pc[Drain(n)] /\ item'[Drain(n)] = item[Drain(n)]
    BY <1>27, <1>typed DEF SyncRead, Goto
  <2> QED
    BY <2>1, <1>same
<1>28. ASSUME NEW m \in Node, Synced(m) PROVE Sent(n)'
  <2>1. pc'[Drain(n)] = pc[Drain(n)] /\ item'[Drain(n)] = item[Drain(n)]
    BY <1>28, <1>typed DEF Synced, Goto
  <2> QED
    BY <2>1, <1>same
<1>29. ASSUME NEW m \in Node, ClientOpens(m) PROVE Sent(n)'
  <2>1. (Scheduling(pc, m) \/ pc' = pc) /\ item' = item
    BY <1>29 DEF ClientOpens
  <2> QED
    BY <2>1, <1>typed, <1>schedules
<1>30. ASSUME NEW m \in Node, ExecutorConnects(m) PROVE Sent(n)'
  <2>1. (Scheduling(pc, m) \/ pc' = pc) /\ item' = item
    BY <1>30 DEF ExecutorConnects
  <2> QED
    BY <2>1, <1>typed, <1>schedules
<1>31. ASSUME NEW m \in Node, Crash(m) PROVE Sent(n)'
  <2>1. CASE m = n
    BY <1>31, <2>1, <1>out DEF Crash, Of, Sending
  <2>2. CASE m # n
    BY <1>31, <2>2, <1>same DEF Crash, Of
  <2> QED
    BY <2>1, <2>2
<1>32. ASSUME NEW m \in Node, Restart(m) PROVE Sent(n)'
  BY <1>32, <1>same DEF Restart
<1>33. ASSUME NEW m \in Node, NEW i \in Item, SendMessage(m, i) PROVE Sent(n)'
  <2>1. pc'[Drain(n)] = pc[Drain(n)] /\ item'[Drain(n)] = item[Drain(n)]
    BY <1>33, <1>typed DEF SendMessage, Goto
  <2> QED
    BY <2>1, <1>same
<1>34. ASSUME NEW m \in Node, NEW i \in Item, Remove(m, i) PROVE Sent(n)'
  <2>1. pc'[Drain(n)] = pc[Drain(n)] /\ item'[Drain(n)] = item[Drain(n)]
    BY <1>34, <1>typed DEF Remove, Goto
  <2> QED
    BY <2>1, <1>same
<1>35. ASSUME ExecutorLeaves PROVE Sent(n)'
  BY <1>35, <1>same DEF ExecutorLeaves
<1>36. ASSUME Tick PROVE Sent(n)'
  BY <1>36, <1>same DEF Tick
<1>37. ASSUME UNCHANGED vars PROVE Sent(n)'
  BY <1>37, <1>same DEF vars
<1> QED
  BY <1>1, <1>2, <1>3, <1>4, <1>5, <1>6, <1>7, <1>8, <1>9, <1>10, <1>11, <1>12, <1>13, <1>14, <1>15, <1>16, <1>17, <1>18, <1>19, <1>20, <1>21, <1>22, <1>23, <1>24, <1>25, <1>26, <1>27, <1>28, <1>29, <1>30, <1>31, <1>32, <1>33, <1>34, <1>35, <1>36, <1>37
  DEF Next, Step, DrainStep, UserStep, SweepStep, TurnStep, Request, Timer, Listen, Fault

\* No message leaves the queue as done without a turn or a task run for it.
THEOREM DoneStarted == Spec => []DoneWasStarted
<1> DEFINE AllSent == \A n \in Node : Sent(n)
<1>1. Init => AllSent /\ DoneWasStarted
  <2>1. Init => AllSent
    BY Workers DEF Init, Sent, Sending
  <2>2. Init => DoneWasStarted
    <3>1. Gone("none").status # "done"
      BY DEF Gone, Unclaimed
    <3> QED
      BY <3>1 DEF Init, DoneWasStarted
  <2> QED
    BY <2>1, <2>2
<1>2. TypeOK /\ AllSent /\ [Next]_vars => AllSent'
  BY SentStep
<1>3. TypeOK /\ AllSent /\ DoneWasStarted /\ [Next]_vars => DoneWasStarted'
  <2> SUFFICES ASSUME TypeOK, AllSent, DoneWasStarted, [Next]_vars,
                      NEW i \in Item, rows'[i].status = "done"
               PROVE  started'[i] > 0 \/ i \in WithTaskRun
    BY DEF DoneWasStarted
  <2> USE Workers
  <2>typed. rows \in [Item -> Row] /\ rows[i] \in Row
    BY DEF TypeOK
  <2>kept. ASSUME rows[i].status = "done" PROVE started'[i] > 0 \/ i \in WithTaskRun
    BY <2>kept, StartedKept DEF DoneWasStarted
  <2>other. Gone("gone").status # "done" /\ \A r : Unclaimed("pending", r).status # "done"
    BY DEF Gone, Unclaimed
  <2>1. ASSUME NEW w \in Worker, InsertLease(w) \/ TakeoverLease(w) PROVE rows[i].status = "done"
    BY <2>1, <2>typed, <2>other DEF InsertLease, TakeoverLease, Acquired, db
  <2>2. ASSUME NEW n \in Node, Enqueue(User(n)) PROVE rows[i].status = "done"
    BY <2>2, <2>typed, <2>other DEF Enqueue
  <2>3. ASSUME NEW n \in Node, Lookup(User(n)) PROVE rows[i].status = "done"
    BY <2>3, <2>typed, <2>other DEF Lookup
  <2>4. ASSUME NEW n \in Node, Claim(n) PROVE rows[i].status = "done"
    <3>1. CASE rows' = rows
      BY <3>1
    <3>2. CASE rows' = [rows EXCEPT ![item[Drain(n)]] =
                           [@ EXCEPT !.status = "claimed", !.claim = Drain(n), !.left = TTL]]
      BY <3>2, <2>typed DEF Row
    <3> QED
      BY <2>4, <3>1, <3>2 DEF Claim
  <2>5. ASSUME NEW n \in Node, Complete(n) PROVE started'[i] > 0 \/ i \in WithTaskRun
    <3>1. CASE item[Drain(n)] = i
      <4>1. started[i] > 0 \/ i \in WithTaskRun
        BY <2>5, <3>1 DEF Complete, Sent
      <4> QED
        BY <4>1, StartedKept
    <3>2. CASE item[Drain(n)] # i
      BY <2>5, <3>2, <2>typed, <2>kept DEF Complete
    <3> QED
      BY <3>1, <3>2
  <2>6. ASSUME NEW n \in Node, Release(n) PROVE rows[i].status = "done"
    BY <2>6, <2>typed, <2>other DEF Release, ReleaseTo
  <2>7. ASSUME NEW n \in Node, SweepClaims(n) PROVE rows[i].status = "done"
    BY <2>7, <2>typed, <2>other DEF SweepClaims, SweepTo
  <2>8. ASSUME NEW n \in Node, NEW j \in Item, Remove(n, j) PROVE rows[i].status = "done"
    BY <2>8, <2>typed, <2>other DEF Remove
  <2>9. ASSUME Tick PROVE rows[i].status = "done"
    BY <2>9, <2>typed DEF Tick, Row
  <2>10. ASSUME rows' = rows PROVE rows[i].status = "done"
    BY <2>10
  <2> QED
    BY RowWriters, <2>1, <2>2, <2>3, <2>4, <2>5, <2>6, <2>7, <2>8, <2>9, <2>10, <2>kept
<1> QED
  BY <1>1, <1>2, <1>3, TypeInit, TypeStep, PTL DEF Spec
-----------------------------------------------------------------------------
\* TurnsBounded.  A drain loop between its claim and the end of its turn has the
\* row, unexpired, or a user has removed the message; nobody else is at that
\* message.  The turns of a message are then covered by the retries its row was
\* charged with, one for each crash, and one for the turn under way.
ClaimLabels == {"claimed_read", "claimed", "run", "complete", "release", "abandon", "refund"}
Ahead  == {"claimed_read", "claimed"}         \* its turn has not started
Turned == {"run", "complete", "release"}      \* its turn has started, its row is not settled

\* The retries that a message has used up; one that is no longer queued may have
\* used them all.
Due(r) == IF r.status \in {"pending", "claimed"} THEN r.retry
          ELSE IF r.status = "none" THEN 0 ELSE MaxRetries

ClaimKept ==
    \A n \in Node : pc[Drain(n)] \in ClaimLabels =>
        /\ item[Drain(n)] \in Item
        /\ \/ Claimed(item[Drain(n)], Drain(n)) /\ rows[item[Drain(n)]].left >= 0
           \/ rows[item[Drain(n)]].status = "gone"
Alone ==
    \A m, n \in Node :
        (/\ pc[Drain(m)] \in ClaimLabels /\ pc[Drain(n)] \in ClaimLabels
         /\ item[Drain(m)] = item[Drain(n)]) => m = n
Covered == \A i \in Item : started[i] <= Due(rows[i]) + crashes + 1
Settled ==
    \A i \in Item :
        (/\ rows[i].status \in {"none", "pending", "claimed"}
         /\ \A n \in Node : item[Drain(n)] = i => pc[Drain(n)] \notin Turned)
            => started[i] <= Due(rows[i]) + crashes
AheadCovered ==
    \A n \in Node : pc[Drain(n)] \in Ahead =>
        started[item[Drain(n)]] <= Due(rows[item[Drain(n)]]) + crashes
Budget == TurnsTimely => ClaimKept /\ Alone /\ Covered /\ Settled /\ AheadCovered

\* What a step does to a drain loop that neither claims, starts its turn, settles
\* its claim nor crashes: as far as Budget can tell, nothing.
Steady(n) ==
    /\ pc'[Drain(n)] \in ClaimLabels <=> pc[Drain(n)] \in ClaimLabels
    /\ pc'[Drain(n)] \in Ahead <=> pc[Drain(n)] \in Ahead
    /\ pc'[Drain(n)] \in Turned <=> pc[Drain(n)] \in Turned
    /\ pc[Drain(n)] \in ClaimLabels => item'[Drain(n)] = item[Drain(n)]

LEMMA OthersSteady ==
    ASSUME TypeOK, NEW n \in Node, NEW w \in Worker, w # Drain(n), NEW l, Goto(w, l),
           item'[Drain(n)] = item[Drain(n)]
    PROVE  Steady(n)
  BY Workers DEF TypeOK, Goto, Steady

LEMMA DrainSteady ==
    ASSUME TypeOK, [Next]_vars, NEW n \in Node
    PROVE  \/ Steady(n)
           \/ Claim(n) \/ Configure(n) \/ Complete(n) \/ Release(n) \/ Crash(n)
<1> USE Workers
<1>typed. pc \in [Worker -> PC] /\ item \in [Worker -> Item \cup {NoItem}]
  BY DEF TypeOK
<1>same. ASSUME pc'[Drain(n)] = pc[Drain(n)], item'[Drain(n)] = item[Drain(n)] PROVE Steady(n)
  BY <1>same DEF Steady
<1>out. ASSUME pc[Drain(n)] \notin ClaimLabels, pc'[Drain(n)] \notin ClaimLabels PROVE Steady(n)
  BY <1>out DEF Steady, ClaimLabels, Ahead, Turned
<1>on. ASSUME item'[Drain(n)] = item[Drain(n)],
              \/ pc[Drain(n)] = "claimed_read" /\ pc'[Drain(n)] = "claimed"
              \/ pc[Drain(n)] = "run" /\ pc'[Drain(n)] \in {"complete", "release"}
       PROVE  Steady(n)
  BY <1>on DEF Steady, ClaimLabels, Ahead, Turned
<1>returns. ASSUME NEW m \in Node, DrainReturns(m), pc[Drain(m)] \notin ClaimLabels
            PROVE  Steady(n)
  <2>1. CASE m = n
    BY <1>returns, <2>1, <1>out, <1>typed DEF DrainReturns, ClaimLabels
  <2>2. CASE m # n
    BY <1>returns, <2>2, <1>same, <1>typed DEF DrainReturns
  <2> QED
    BY <2>1, <2>2
<1>schedules. ASSUME NEW m \in Node, NEW q \in [Worker -> PC], q[Drain(n)] = pc[Drain(n)],
                     Scheduling(q, m) \/ pc' = q, item'[Drain(n)] = item[Drain(n)]
              PROVE  Steady(n)
  <2>1. \/ pc'[Drain(n)] = pc[Drain(n)]
        \/ pc'[Drain(n)] = "head" /\ pc[Drain(n)] = "idle"
    BY <1>schedules DEF Scheduling
  <2> QED
    BY <2>1, <1>schedules, <1>same, <1>out DEF ClaimLabels
<1>1. ASSUME NEW w \in Worker, Select(w) PROVE Steady(n)
  <2>1. Goto(w, AfterRead[pc[w]]) /\ pc[w] \in Reading /\ item' = item
    BY <1>1 DEF Select
  <2>2. CASE w = Drain(n)
    <3>1. pc'[Drain(n)] = AfterRead[pc[w]]
      BY <2>1, <2>2, <1>typed DEF Goto
    <3>2. \/ pc[w] = "claimed_read" /\ AfterRead[pc[w]] = "claimed"
          \/ pc[w] \notin ClaimLabels /\ AfterRead[pc[w]] \notin ClaimLabels
      BY <2>1 DEF AfterRead, Reading, ClaimLabels
    <3> QED
      BY <2>1, <2>2, <3>1, <3>2, <1>on, <1>out
  <2> QED
    BY <2>1, <2>2, OthersSteady
<1>2. ASSUME NEW w \in Worker, InsertLease(w) PROVE Steady(n)
  <2>1. /\ item' = item /\ pc[w] = "insert"
        /\ \E l \in {"run", "check", "takeover"} : Goto(w, l) /\ (l = "run" => w[2] = "user")
    BY <1>2 DEF InsertLease, Acquired, Worker
  <2>2. CASE w = Drain(n)
    BY <2>1, <2>2, <1>out, <1>typed DEF Goto, ClaimLabels
  <2> QED
    BY <2>1, <2>2, OthersSteady
<1>3. ASSUME NEW w \in Worker, TakeoverLease(w) PROVE Steady(n)
  <2>1. CASE DrainReturns(w[1]) /\ w = Drain(w[1])
    BY <1>3, <2>1, <1>returns DEF TakeoverLease, ClaimLabels
  <2>2. CASE /\ item' = item
             /\ \E l \in {"run", "check", "enqueue"} : Goto(w, l) /\ (l = "run" => w[2] = "user")
    <3>1. CASE w = Drain(n)
      BY <1>3, <2>2, <3>1, <1>out, <1>typed DEF TakeoverLease, Goto, ClaimLabels
    <3> QED
      BY <2>2, <3>1, OthersSteady
  <2> QED
    BY <1>3, <2>1, <2>2 DEF TakeoverLease, Acquired, Worker
<1>4. ASSUME NEW m \in Node, Enqueue(User(m)) PROVE Steady(n)
  <2>1. pc'[Drain(n)] = pc[Drain(n)] /\ item'[Drain(n)] = item[Drain(n)]
    BY <1>4, <1>typed DEF Enqueue, Goto
  <2> QED
    BY <2>1, <1>same
<1>5. ASSUME NEW m \in Node, Lookup(User(m)) PROVE Steady(n)
  <2>1. pc'[Drain(n)] = pc[Drain(n)] /\ item'[Drain(n)] = item[Drain(n)]
    BY <1>5, <1>typed DEF Lookup, Goto
  <2> QED
    BY <2>1, <1>same
<1>6. ASSUME NEW m \in Node, LookAgain(User(m)) PROVE Steady(n)
  <2>1. pc'[Drain(n)] = pc[Drain(n)] /\ item'[Drain(n)] = item[Drain(n)]
    BY <1>6, <1>typed DEF LookAgain, Goto
  <2> QED
    BY <2>1, <1>same
<1>7. ASSUME NEW w \in Worker, TurnSucceeds(w) PROVE Steady(n)
  <2>1. item' = item /\ pc[w] = "run" /\ \E l \in {"complete", "unlock_done"} : Goto(w, l) /\ (w[2] = "drain" => l = "complete")
    BY <1>7 DEF TurnSucceeds
  <2>2. CASE w = Drain(n)
    BY <2>1, <2>2, <1>on, <1>typed DEF Goto
  <2> QED
    BY <2>1, <2>2, OthersSteady
<1>8. ASSUME NEW w \in Worker, TurnThrows(w) PROVE Steady(n)
  <2>1. item' = item /\ pc[w] = "run" /\ \E l \in {"release", "unlock_done"} : Goto(w, l) /\ (w[2] = "drain" => l = "release")
    BY <1>8 DEF TurnThrows
  <2>2. CASE w = Drain(n)
    BY <2>1, <2>2, <1>on, <1>typed DEF Goto
  <2> QED
    BY <2>1, <2>2, OthersSteady
<1>9. ASSUME NEW w \in Worker, Renew(w) PROVE Steady(n)
  BY <1>9, <1>same DEF Renew
<1>10. ASSUME NEW m \in Node, Queued(m) PROVE Steady(n)
  <2> DEFINE q == [pc EXCEPT ![User(m)] = "idle"]
  <2>1. q \in [Worker -> PC] /\ q[Drain(n)] = pc[Drain(n)]
    BY <1>typed, Labels
  <2>2. (Scheduling(q, m) \/ pc' = q) /\ item'[Drain(n)] = item[Drain(n)]
    BY <1>10, <1>typed DEF Queued
  <2> QED
    BY <2>1, <2>2, <1>schedules
<1>11. ASSUME NEW m \in Node, Removed(m) PROVE Steady(n)
  <2>1. pc'[Drain(n)] = pc[Drain(n)] /\ item'[Drain(n)] = item[Drain(n)]
    BY <1>11, <1>typed DEF Removed, Goto
  <2> QED
    BY <2>1, <1>same
<1>12. ASSUME NEW m \in Node, ReadHead(m) PROVE Steady(n)
  <2>1. CASE m = n
    BY <1>12, <2>1, <1>out, <1>typed DEF ReadHead, Goto, ClaimLabels
  <2>2. CASE m # n
    BY <1>12, <2>2, <1>same, <1>typed DEF ReadHead, Goto
  <2> QED
    BY <2>1, <2>2
<1>13. ASSUME NEW m \in Node, GiveUp(m) PROVE Steady(n)
  BY <1>13, <1>returns DEF GiveUp, ClaimLabels
<1>14. ASSUME NEW m \in Node, Check(m) PROVE Steady(n)
  <2>1. item' = item /\ pc[Drain(m)] \in {"check"} /\ \E l \in {"claim", "unlock_stop"} : Goto(Drain(m), l)
    BY <1>14 DEF Check
  <2>2. CASE m = n
    BY <2>1, <2>2, <1>out, <1>typed DEF Goto, ClaimLabels
  <2>3. CASE m # n
    BY <2>1, <2>3, <1>same, <1>typed DEF Goto
  <2> QED
    BY <2>2, <2>3
<1>15. ASSUME NEW m \in Node, Missed(m) PROVE Steady(n)
  <2>1. item' = item /\ pc[Drain(m)] \in {"missed"} /\ \E l \in {"unlock_loop"} : Goto(Drain(m), l)
    BY <1>15 DEF Missed
  <2>2. CASE m = n
    BY <2>1, <2>2, <1>out, <1>typed DEF Goto, ClaimLabels
  <2>3. CASE m # n
    BY <2>1, <2>3, <1>same, <1>typed DEF Goto
  <2> QED
    BY <2>2, <2>3
<1>16. ASSUME NEW m \in Node, Settle(m) PROVE Steady(n)
  <2>1. item' = item /\ pc[Drain(m)] \in {"completed", "abandoned"} /\ \E l \in {"unlock_done", "unlock_stop"} : Goto(Drain(m), l)
    BY <1>16 DEF Settle
  <2>2. CASE m = n
    BY <2>1, <2>2, <1>out, <1>typed DEF Goto, ClaimLabels
  <2>3. CASE m # n
    BY <2>1, <2>3, <1>same, <1>typed DEF Goto
  <2> QED
    BY <2>2, <2>3
<1>17. ASSUME NEW m \in Node, Claim(m), m # n PROVE Steady(n)
  <2>1. item' = item /\ \E l : Goto(Drain(m), l)
    BY <1>17 DEF Claim
  <2> QED
    BY <1>17, <2>1, OthersSteady
<1>18. ASSUME NEW m \in Node, Configure(m), m # n PROVE Steady(n)
  <2>1. item' = item /\ \E l : Goto(Drain(m), l)
    BY <1>18 DEF Configure
  <2> QED
    BY <1>18, <2>1, OthersSteady
<1>19. ASSUME NEW m \in Node, Complete(m), m # n PROVE Steady(n)
  <2>1. item' = item /\ \E l : Goto(Drain(m), l)
    BY <1>19 DEF Complete
  <2> QED
    BY <1>19, <2>1, OthersSteady
<1>20. ASSUME NEW m \in Node, Release(m), m # n PROVE Steady(n)
  <2>1. item' = item /\ \E l : Goto(Drain(m), l)
    BY <1>20 DEF Release, ReleaseTo
  <2> QED
    BY <1>20, <2>1, OthersSteady
<1>21. ASSUME NEW m \in Node, UnlockDrain(m) PROVE Steady(n)
  <2>1. pc[Drain(m)] \notin ClaimLabels
    BY <1>21 DEF UnlockDrain, ClaimLabels
  <2>2. CASE DrainReturns(m)
    BY <2>1, <2>2, <1>returns
  <2>3. CASE Goto(Drain(m), "head") /\ item' = [item EXCEPT ![Drain(m)] = NoItem]
    <3>1. CASE m = n
      BY <2>1, <2>3, <3>1, <1>out, <1>typed DEF Goto, ClaimLabels
    <3>2. CASE m # n
      BY <2>3, <3>2, <1>same, <1>typed DEF Goto
    <3> QED
      BY <3>1, <3>2
  <2> QED
    BY <1>21, <2>2, <2>3 DEF UnlockDrain
<1>22. ASSUME NEW m \in Node, UnlockUser(m) PROVE Steady(n)
  <2> DEFINE q == [pc EXCEPT ![User(m)] = "idle"]
  <2>1. q \in [Worker -> PC] /\ q[Drain(n)] = pc[Drain(n)]
    BY <1>typed, Labels
  <2>2. (Scheduling(q, m) \/ pc' = q) /\ item'[Drain(n)] = item[Drain(n)]
    BY <1>22, <1>typed DEF UnlockUser
  <2> QED
    BY <2>1, <2>2, <1>schedules
<1>23. ASSUME NEW m \in Node, SlotExpires(m) PROVE Steady(n)
  BY <1>23, <1>same DEF SlotExpires
<1>24. ASSUME NEW m \in Node, SweepClaims(m) PROVE Steady(n)
  <2>1. pc'[Drain(n)] = pc[Drain(n)] /\ item'[Drain(n)] = item[Drain(n)]
    BY <1>24, <1>typed DEF SweepClaims, SweepTo, Goto
  <2> QED
    BY <2>1, <1>same
<1>25. ASSUME NEW m \in Node, SweepLeases(m) PROVE Steady(n)
  <2>1. pc'[Drain(n)] = pc[Drain(n)] /\ item'[Drain(n)] = item[Drain(n)]
    BY <1>25, <1>typed DEF SweepLeases, Goto
  <2> QED
    BY <2>1, <1>same
<1>26. ASSUME NEW m \in Node, Swept(m) PROVE Steady(n)
  <2> DEFINE q == [pc EXCEPT ![Sweep(m)] = "idle"]
  <2>1. q \in [Worker -> PC] /\ q[Drain(n)] = pc[Drain(n)]
    BY <1>typed, Labels
  <2>2. (Scheduling(q, m) \/ pc' = q) /\ item'[Drain(n)] = item[Drain(n)]
    BY <1>26, <1>typed DEF Swept
  <2> QED
    BY <2>1, <2>2, <1>schedules
<1>27. ASSUME NEW m \in Node, SyncRead(m) PROVE Steady(n)
  <2>1. pc'[Drain(n)] = pc[Drain(n)] /\ item'[Drain(n)] = item[Drain(n)]
    BY <1>27, <1>typed DEF SyncRead, Goto
  <2> QED
    BY <2>1, <1>same
<1>28. ASSUME NEW m \in Node, Synced(m) PROVE Steady(n)
  <2>1. pc'[Drain(n)] = pc[Drain(n)] /\ item'[Drain(n)] = item[Drain(n)]
    BY <1>28, <1>typed DEF Synced, Goto
  <2> QED
    BY <2>1, <1>same
<1>29. ASSUME NEW m \in Node, ClientOpens(m) PROVE Steady(n)
  <2>1. (Scheduling(pc, m) \/ pc' = pc) /\ item' = item
    BY <1>29 DEF ClientOpens
  <2> QED
    BY <2>1, <1>typed, <1>schedules
<1>30. ASSUME NEW m \in Node, ExecutorConnects(m) PROVE Steady(n)
  <2>1. (Scheduling(pc, m) \/ pc' = pc) /\ item' = item
    BY <1>30 DEF ExecutorConnects
  <2> QED
    BY <2>1, <1>typed, <1>schedules
<1>31. ASSUME NEW m \in Node, Crash(m), m # n PROVE Steady(n)
  BY <1>31, <1>same DEF Crash, Of
<1>32. ASSUME NEW m \in Node, Restart(m) PROVE Steady(n)
  BY <1>32, <1>same DEF Restart
<1>33. ASSUME NEW m \in Node, NEW i \in Item, SendMessage(m, i) PROVE Steady(n)
  <2>1. pc'[Drain(n)] = pc[Drain(n)] /\ item'[Drain(n)] = item[Drain(n)]
    BY <1>33, <1>typed DEF SendMessage, Goto
  <2> QED
    BY <2>1, <1>same
<1>34. ASSUME NEW m \in Node, NEW i \in Item, Remove(m, i) PROVE Steady(n)
  <2>1. pc'[Drain(n)] = pc[Drain(n)] /\ item'[Drain(n)] = item[Drain(n)]
    BY <1>34, <1>typed DEF Remove, Goto
  <2> QED
    BY <2>1, <1>same
<1>35. ASSUME ExecutorLeaves PROVE Steady(n)
  BY <1>35, <1>same DEF ExecutorLeaves
<1>36. ASSUME Tick PROVE Steady(n)
  BY <1>36, <1>same DEF Tick
<1>37. ASSUME UNCHANGED vars PROVE Steady(n)
  BY <1>37, <1>same DEF vars
<1> QED
  BY Workers, <1>1, <1>2, <1>3, <1>4, <1>5, <1>6, <1>7, <1>8, <1>9, <1>10, <1>11, <1>12,
     <1>13, <1>14, <1>15, <1>16, <1>17, <1>18, <1>19, <1>20, <1>21, <1>22, <1>23, <1>24,
     <1>25, <1>26, <1>27, <1>28, <1>29, <1>30, <1>31, <1>32, <1>33, <1>34, <1>35, <1>36,
     <1>37
  DEF Next, Step, DrainStep, UserStep, SweepStep, TurnStep, Request, Timer, Listen, Fault

\* The steps that write what Budget speaks of besides the drain loops.
LEMMA BudgetWriters ==
    ASSUME [Next]_vars
    PROVE  \/ UNCHANGED <<rows, started, crashes>>
           \/ \E w \in Worker : InsertLease(w) \/ TakeoverLease(w)
           \/ \E n \in Node :
               \/ Enqueue(User(n)) \/ Lookup(User(n)) \/ Claim(n) \/ Configure(n)
               \/ Complete(n) \/ Release(n) \/ SweepClaims(n) \/ Crash(n)
           \/ \E n \in Node, i \in Item : Remove(n, i)
           \/ Tick
<1>1. ASSUME NEW w \in Worker, Select(w) PROVE UNCHANGED <<rows, started, crashes>>
  BY <1>1 DEF Select, db, env
<1>2. ASSUME NEW w \in Worker, LookAgain(w) PROVE UNCHANGED <<rows, started, crashes>>
  BY <1>2 DEF LookAgain, db, env
<1>3. ASSUME NEW w \in Worker, TurnSucceeds(w) PROVE UNCHANGED <<rows, started, crashes>>
  BY <1>3 DEF TurnSucceeds, db, env
<1>4. ASSUME NEW w \in Worker, TurnThrows(w) PROVE UNCHANGED <<rows, started, crashes>>
  BY <1>4 DEF TurnThrows, db, env
<1>5. ASSUME NEW w \in Worker, Renew(w) PROVE UNCHANGED <<rows, started, crashes>>
  BY <1>5 DEF Renew, db, env
<1>6. ASSUME NEW n \in Node, Queued(n) PROVE UNCHANGED <<rows, started, crashes>>
  BY <1>6 DEF Queued, db, env
<1>7. ASSUME NEW n \in Node, Removed(n) PROVE UNCHANGED <<rows, started, crashes>>
  BY <1>7 DEF Removed, db, env
<1>8. ASSUME NEW n \in Node, ReadHead(n) PROVE UNCHANGED <<rows, started, crashes>>
  BY <1>8 DEF ReadHead, db, env
<1>9. ASSUME NEW n \in Node, GiveUp(n) PROVE UNCHANGED <<rows, started, crashes>>
  BY <1>9 DEF GiveUp, db, env
<1>10. ASSUME NEW n \in Node, Check(n) PROVE UNCHANGED <<rows, started, crashes>>
  BY <1>10 DEF Check, db, env
<1>11. ASSUME NEW n \in Node, Missed(n) PROVE UNCHANGED <<rows, started, crashes>>
  BY <1>11 DEF Missed, db, env
<1>12. ASSUME NEW n \in Node, Settle(n) PROVE UNCHANGED <<rows, started, crashes>>
  BY <1>12 DEF Settle, db, env
<1>13. ASSUME NEW n \in Node, UnlockDrain(n) PROVE UNCHANGED <<rows, started, crashes>>
  BY <1>13 DEF UnlockDrain, db, env
<1>14. ASSUME NEW n \in Node, UnlockUser(n) PROVE UNCHANGED <<rows, started, crashes>>
  BY <1>14 DEF UnlockUser, db, env
<1>15. ASSUME NEW n \in Node, SlotExpires(n) PROVE UNCHANGED <<rows, started, crashes>>
  BY <1>15 DEF SlotExpires, db, env
<1>16. ASSUME NEW n \in Node, SweepLeases(n) PROVE UNCHANGED <<rows, started, crashes>>
  BY <1>16 DEF SweepLeases, db, env
<1>17. ASSUME NEW n \in Node, Swept(n) PROVE UNCHANGED <<rows, started, crashes>>
  BY <1>17 DEF Swept, db, env
<1>18. ASSUME NEW n \in Node, SyncRead(n) PROVE UNCHANGED <<rows, started, crashes>>
  BY <1>18 DEF SyncRead, db, env
<1>19. ASSUME NEW n \in Node, Synced(n) PROVE UNCHANGED <<rows, started, crashes>>
  BY <1>19 DEF Synced, db, env
<1>20. ASSUME NEW n \in Node, ClientOpens(n) PROVE UNCHANGED <<rows, started, crashes>>
  BY <1>20 DEF ClientOpens, db, env
<1>21. ASSUME NEW n \in Node, ExecutorConnects(n) PROVE UNCHANGED <<rows, started, crashes>>
  BY <1>21 DEF ExecutorConnects, db, env
<1>22. ASSUME NEW n \in Node, Restart(n) PROVE UNCHANGED <<rows, started, crashes>>
  BY <1>22 DEF Restart, db, env
<1>23. ASSUME NEW n \in Node, NEW i \in Item, SendMessage(n, i) PROVE UNCHANGED <<rows, started, crashes>>
  BY <1>23 DEF SendMessage, db, env
<1>24. ASSUME ExecutorLeaves PROVE UNCHANGED <<rows, started, crashes>>
  BY <1>24 DEF ExecutorLeaves, db, env
<1>25. ASSUME UNCHANGED vars PROVE UNCHANGED <<rows, started, crashes>>
  BY <1>25 DEF vars, db, env
<1> QED
  BY Workers, <1>1, <1>2, <1>3, <1>4, <1>5, <1>6, <1>7, <1>8, <1>9, <1>10, <1>11, <1>12,
     <1>13, <1>14, <1>15, <1>16, <1>17, <1>18, <1>19, <1>20, <1>21, <1>22, <1>23, <1>24,
     <1>25
  DEF Next, Step, DrainStep, UserStep, SweepStep, TurnStep, Request, Timer, Listen, Fault

\* One drain loop's step leaves the other ones alone.
LEMMA OnlyOne ==
    ASSUME TypeOK, NEW m \in Node, \/ Claim(m) \/ Configure(m) \/ Complete(m)
                                   \/ Release(m) \/ Crash(m)
    PROVE  \A n \in Node : n # m => Steady(n)
<1>1. ASSUME NEW n \in Node, n # m, Crash(m) PROVE Steady(n)
  BY <1>1, Workers DEF Crash, Of, Steady
<1>2. ASSUME NEW n \in Node, n # m, NEW l, Goto(Drain(m), l), item' = item PROVE Steady(n)
  BY <1>2, Workers, OthersSteady
<1> QED
  BY <1>1, <1>2 DEF Claim, Configure, Complete, Release, ReleaseTo

\* How many retries a message may be charged with, and that these are numbers.
LEMMA DueTyped ==
    ASSUME TypeOK, NEW i \in Item
    PROVE  /\ Due(rows[i]) \in 0..MaxRetries /\ MaxRetries \in Nat /\ crashes \in Nat
           /\ started[i] \in Nat /\ rows[i].retry \in 0..MaxRetries
           /\ rows[i].left \in -1..TTL /\ TTL \in Nat
           /\ rows[i].status \in Status /\ rows[i] \in Row
<1>1. /\ MaxRetries \in Nat /\ MaxCrashes \in Nat /\ TTL \in Nat
      /\ rows[i] \in Row /\ crashes \in 0..MaxCrashes /\ started[i] \in Nat
  BY QueueAssumption DEF QueueAssumption, TypeOK
<1>2. rows[i].retry \in 0..MaxRetries /\ rows[i].left \in -1..TTL /\ rows[i].status \in Status
  BY <1>1 DEF Row
<1> QED
  BY <1>1, <1>2 DEF Due

LEMMA DueTypedNext == TypeOK' => \A i \in Item : Due(rows'[i]) \in 0..MaxRetries
  BY QueueAssumption DEF QueueAssumption, TypeOK, Row, Due



\* A step that is not one of a drain loop that claims, starts, settles or crashes
\* keeps Budget when it writes the row of a message that no drain loop is at, and
\* leaves the turns of that message covered; when it removes the message; or when
\* it leaves a claim that is held unexpired.
At(n, i) == pc[Drain(n)] \in ClaimLabels /\ item[Drain(n)] = i
Rewritten(i) ==
    /\ \A n \in Node : ~At(n, i)
    /\ started'[i] <= Due(rows'[i]) + crashes + 1
    /\ rows'[i].status \in {"none", "pending", "claimed"} => started'[i] <= Due(rows'[i]) + crashes
Dropped(i) == rows'[i].status = "gone" /\ started'[i] = started[i]
Left(i) ==
    /\ rows'[i].status = rows[i].status /\ rows'[i].claim = rows[i].claim
    /\ rows'[i].retry = rows[i].retry /\ started'[i] = started[i]
    /\ (\E n \in Node : At(n, i) /\ Claimed(i, Drain(n))) /\ rows[i].left >= 0
          => rows'[i].left >= 0

LEMMA QuietStep ==
    ASSUME TypeOK, TypeOK', TurnsTimely, Budget, crashes' = crashes,
           \A n \in Node : Steady(n),
           \A i \in Item : Rewritten(i) \/ Dropped(i) \/ Left(i)
    PROVE  Budget'
<1>inv. ClaimKept /\ Alone /\ Covered /\ Settled /\ AheadCovered
  BY DEF Budget
<1>at. ASSUME NEW n \in Node, NEW i, At(n, i)' PROVE At(n, i)
  BY <1>at DEF At, Steady
<1>typed. ASSUME NEW i \in Item
          PROVE  /\ Due(rows[i]) \in 0..MaxRetries /\ crashes \in Nat /\ MaxRetries \in Nat
                 /\ started[i] \in Nat /\ rows[i].status \in Status
                 /\ Due(rows'[i]) \in 0..MaxRetries /\ started'[i] \in Nat
  <2>1. Due(rows[i]) \in 0..MaxRetries /\ crashes \in Nat /\ MaxRetries \in Nat
        /\ started[i] \in Nat /\ rows[i].status \in Status
    BY DueTyped
  <2>2. Due(rows'[i]) \in 0..MaxRetries
    BY <2>1, DueTypedNext
  <2>3. started'[i] \in Nat
    BY DEF TypeOK
  <2> QED
    BY <2>1, <2>2, <2>3
<1>due. ASSUME NEW i \in Item, Dropped(i) \/ Left(i) PROVE Due(rows'[i]) >= Due(rows[i])
  <2>1. CASE Dropped(i)
    <3>1. Due(rows'[i]) = MaxRetries
      BY <2>1 DEF Dropped, Due
    <3> QED
      BY <3>1, <1>typed
  <2>2. CASE Left(i)
    <3>1. Due(rows'[i]) = Due(rows[i])
      BY <2>2 DEF Left, Due
    <3> QED
      BY <3>1, <1>typed
  <2> QED
    BY <1>due, <2>1, <2>2
<1>1. ClaimKept'
  <2> SUFFICES ASSUME NEW n \in Node, pc'[Drain(n)] \in ClaimLabels
               PROVE  /\ item'[Drain(n)] \in Item
                      /\ \/ /\ rows'[item'[Drain(n)]].status = "claimed"
                            /\ rows'[item'[Drain(n)]].claim = Drain(n)
                            /\ rows'[item'[Drain(n)]].left >= 0
                         \/ rows'[item'[Drain(n)]].status = "gone"
    BY DEF ClaimKept, Claimed
  <2> DEFINE i == item[Drain(n)]
  <2>1. item'[Drain(n)] = i /\ At(n, i)
    BY DEF Steady, At
  <2>2. i \in Item /\ (\/ rows[i].status = "claimed" /\ rows[i].claim = Drain(n) /\ rows[i].left >= 0
                       \/ rows[i].status = "gone")
    BY <1>inv, <2>1 DEF ClaimKept, Claimed, At
  <2>3. Dropped(i) \/ Left(i)
    BY <2>1, <2>2 DEF Rewritten
  <2> QED
    BY <2>1, <2>2, <2>3 DEF Dropped, Left, Claimed
<1>2. Alone'
  BY <1>inv DEF Alone, Steady
<1>3. Covered'
  <2> SUFFICES ASSUME NEW i \in Item PROVE started'[i] <= Due(rows'[i]) + crashes' + 1
    BY DEF Covered
  <2>1. CASE Rewritten(i)
    BY <2>1 DEF Rewritten
  <2>2. CASE Dropped(i) \/ Left(i)
    <3>1. started'[i] = started[i] /\ started[i] <= Due(rows[i]) + crashes + 1
      BY <2>2, <1>inv DEF Dropped, Left, Covered
    <3> QED
      BY <3>1, <2>2, <1>due, <1>typed
  <2> QED
    BY <2>1, <2>2
<1>4. Settled'
  <2> SUFFICES ASSUME NEW i \in Item, rows'[i].status \in {"none", "pending", "claimed"},
                      \A n \in Node : item'[Drain(n)] = i => pc'[Drain(n)] \notin Turned
               PROVE  started'[i] <= Due(rows'[i]) + crashes'
    BY DEF Settled
  <2>1. CASE Rewritten(i)
    BY <2>1 DEF Rewritten
  <2>2. CASE Left(i)
    <3>1. \A n \in Node : item[Drain(n)] = i => pc[Drain(n)] \notin Turned
      BY DEF Steady, Turned, ClaimLabels
    <3>2. started'[i] = started[i] /\ started[i] <= Due(rows[i]) + crashes
      BY <2>2, <3>1, <1>inv DEF Left, Settled
    <3> QED
      BY <3>2, <2>2, <1>due, <1>typed
  <2> QED
    BY <2>1, <2>2 DEF Dropped
<1>5. AheadCovered'
  <2> SUFFICES ASSUME NEW n \in Node, pc'[Drain(n)] \in Ahead
               PROVE  started'[item'[Drain(n)]] <= Due(rows'[item'[Drain(n)]]) + crashes'
    BY DEF AheadCovered
  <2> DEFINE i == item[Drain(n)]
  <2>1. item'[Drain(n)] = i /\ At(n, i) /\ pc[Drain(n)] \in Ahead
    BY DEF Steady, At, Ahead, ClaimLabels
  <2>2. i \in Item /\ started[i] <= Due(rows[i]) + crashes
    BY <1>inv, <2>1 DEF ClaimKept, AheadCovered, At
  <2>3. Dropped(i) \/ Left(i)
    BY <2>1, <2>2 DEF Rewritten
  <2>4. started'[i] = started[i] /\ Due(rows'[i]) >= Due(rows[i])
    BY <2>2, <2>3, <1>due DEF Dropped, Left
  <2>5. started'[i] <= Due(rows'[i]) + crashes
    BY <2>2, <2>4, <1>typed
  <2> QED
    BY <2>1, <2>5
<1> QED
  BY <1>1, <1>2, <1>3, <1>4, <1>5 DEF Budget

\* A drain loop that is through with its message: the row is settled, or charged
\* with one more retry, or nobody has it any more and the crash is counted.
LEMMA LeaveStep ==
    ASSUME TypeOK, TypeOK', TurnsTimely, Budget, started' = started,
           crashes' = crashes \/ crashes' = crashes + 1,
           NEW m \in Node, pc'[Drain(m)] \notin ClaimLabels,
           \A n \in Node : n # m => Steady(n),
           \A i \in Item :
               \/ /\ rows'[i] = rows[i]
                  /\ At(m, i) => crashes' = crashes + 1 \/ rows[i].status = "gone"
               \/ At(m, i) /\ rows'[i].status \in {"done", "gone"}
               \/ At(m, i) /\ Due(rows'[i]) = Due(rows[i]) + 1
    PROVE  Budget'
<1>inv. ClaimKept /\ Alone /\ Covered /\ Settled /\ AheadCovered
  BY DEF Budget
<1>stays. ASSUME NEW n \in Node, pc'[Drain(n)] \in ClaimLabels
          PROVE  /\ n # m /\ pc[Drain(n)] \in ClaimLabels /\ item'[Drain(n)] = item[Drain(n)]
                 /\ item[Drain(n)] \in Item /\ ~At(m, item[Drain(n)])
                 /\ rows'[item[Drain(n)]] = rows[item[Drain(n)]]
  <2>1. n # m /\ pc[Drain(n)] \in ClaimLabels /\ item'[Drain(n)] = item[Drain(n)]
    BY <1>stays DEF Steady
  <2>2. item[Drain(n)] \in Item /\ ~At(m, item[Drain(n)])
    BY <2>1, <1>inv DEF ClaimKept, Alone, At
  <2> QED
    BY <2>1, <2>2
<1>typed. ASSUME NEW i \in Item
          PROVE  /\ Due(rows[i]) \in 0..MaxRetries /\ Due(rows'[i]) \in 0..MaxRetries
                 /\ crashes \in Nat /\ crashes' \in Nat /\ MaxRetries \in Nat /\ started[i] \in Nat
  BY DueTyped, DueTypedNext
<1>due. ASSUME NEW i \in Item PROVE Due(rows'[i]) + crashes' >= Due(rows[i]) + crashes
  <2>1. rows'[i].status \in {"done", "gone"} => Due(rows'[i]) = MaxRetries
    BY DEF Due
  <2> QED
    BY <2>1, <1>typed
<1>1. ClaimKept'
  <2> SUFFICES ASSUME NEW n \in Node, pc'[Drain(n)] \in ClaimLabels
               PROVE  /\ item'[Drain(n)] \in Item
                      /\ \/ /\ rows'[item'[Drain(n)]].status = "claimed"
                            /\ rows'[item'[Drain(n)]].claim = Drain(n)
                            /\ rows'[item'[Drain(n)]].left >= 0
                         \/ rows'[item'[Drain(n)]].status = "gone"
    BY DEF ClaimKept, Claimed
  <2> QED
    BY <1>stays, <1>inv DEF ClaimKept, Claimed
<1>2. Alone'
  BY <1>inv, <1>stays DEF Alone
<1>3. Covered'
  <2> SUFFICES ASSUME NEW i \in Item PROVE started'[i] <= Due(rows'[i]) + crashes' + 1
    BY DEF Covered
  <2>1. started[i] <= Due(rows[i]) + crashes + 1
    BY <1>inv DEF Covered
  <2> QED
    BY <2>1, <1>typed, <1>due
<1>4. Settled'
  <2> SUFFICES ASSUME NEW i \in Item, rows'[i].status \in {"none", "pending", "claimed"},
                      \A n \in Node : item'[Drain(n)] = i => pc'[Drain(n)] \notin Turned
               PROVE  started'[i] <= Due(rows'[i]) + crashes'
    BY DEF Settled
  <2>1. started[i] <= Due(rows[i]) + crashes + 1
    BY <1>inv DEF Covered
  <2>2. CASE At(m, i)
    <3>1. Due(rows'[i]) + crashes' >= Due(rows[i]) + crashes + 1
      BY <2>2, <1>typed
    <3> QED
      BY <3>1, <2>1, <1>typed
  <2>3. CASE ~At(m, i)
    <3>1. rows'[i] = rows[i]
      BY <2>3
    <3>2. \A n \in Node : item[Drain(n)] = i => pc[Drain(n)] \notin Turned
      <4>1. ASSUME NEW n \in Node, n # m, item[Drain(n)] = i, pc[Drain(n)] \in Turned PROVE FALSE
        BY <4>1 DEF Steady, Turned, ClaimLabels
      <4> QED
        BY <2>3, <4>1 DEF At, Turned, ClaimLabels
    <3>3. started[i] <= Due(rows[i]) + crashes
      BY <3>1, <3>2, <1>inv DEF Settled
    <3> QED
      BY <3>1, <3>3, <1>due, <1>typed
  <2> QED
    BY <2>2, <2>3
<1>5. AheadCovered'
  <2> SUFFICES ASSUME NEW n \in Node, pc'[Drain(n)] \in Ahead
               PROVE  started'[item'[Drain(n)]] <= Due(rows'[item'[Drain(n)]]) + crashes'
    BY DEF AheadCovered
  <2>1. pc'[Drain(n)] \in ClaimLabels
    BY DEF Ahead, ClaimLabels
  <2>2. PICK i \in Item : i = item[Drain(n)]
    BY <2>1, <1>stays
  <2>3. item'[Drain(n)] = i /\ n # m /\ pc[Drain(n)] \in Ahead
    BY <2>1, <2>2, <1>stays DEF Steady
  <2>4. started[i] <= Due(rows[i]) + crashes
    BY <2>2, <2>3, <1>inv DEF AheadCovered
  <2>5. started'[i] <= Due(rows'[i]) + crashes'
    BY <2>4, <1>due, <1>typed
  <2> QED
    BY <2>3, <2>5
<1> QED
  BY <1>1, <1>2, <1>3, <1>4, <1>5 DEF Budget

\* A message that no drain loop is at is covered without the turn under way.
LEMMA NobodyAt ==
    ASSUME TypeOK, TurnsTimely, Budget, NEW i \in Item,
           rows[i].status \in {"none", "pending", "claimed"}, \A n \in Node : ~At(n, i)
    PROVE  started[i] <= Due(rows[i]) + crashes
<1>1. \A n \in Node : item[Drain(n)] = i => pc[Drain(n)] \notin Turned
  BY DEF At, Turned, ClaimLabels
<1> QED
  BY <1>1 DEF Budget, Settled

\* A drain loop has the message it is at, unless a user has removed it.
LEMMA AtHas ==
    ASSUME TurnsTimely, Budget, NEW i, NEW n \in Node, At(n, i)
    PROVE  /\ i \in Item
           /\ \/ Claimed(i, Drain(n)) /\ rows[i].left >= 0
              \/ rows[i].status = "gone"
  BY DEF Budget, ClaimKept, At

LEMMA ClaimBudget ==
    ASSUME TypeOK, TypeOK', TurnsTimely, Budget, NEW m \in Node, Claim(m)
    PROVE  Budget'
<1> USE Workers
<1>typed. /\ pc \in [Worker -> PC] /\ item \in [Worker -> Item \cup {NoItem}]
          /\ rows \in [Item -> Row]
  BY DEF TypeOK
<1>others. \A n \in Node : n # m => Steady(n)
  BY OnlyOne
<1>same. item' = item /\ started' = started /\ crashes' = crashes
         /\ pc[Drain(m)] = "claim"
  BY DEF Claim, env
<1>1. CASE rows' = rows /\ Goto(Drain(m), "missed_read")
  <2>1. Steady(m)
    BY <1>1, <1>same, <1>typed DEF Goto, Steady, ClaimLabels, Ahead, Turned
  <2>2. \A n \in Node : Steady(n)
    BY <1>others, <2>1
  <2>3. \A i \in Item : Left(i)
    BY <1>1, <1>same DEF Left
  <2> QED
    BY <2>2, <2>3, <1>same, QuietStep
<1>2. CASE /\ IsHead(item[Drain(m)], Pending) /\ Goto(Drain(m), "claimed_read")
           /\ rows' = [rows EXCEPT ![item[Drain(m)]] =
                          [@ EXCEPT !.status = "claimed", !.claim = Drain(m), !.left = TTL]]
  <2>1. PICK i \in Item : i = item[Drain(m)] /\ rows[i].status = "pending"
    BY <1>2 DEF IsHead, Pending
  <2>row. /\ rows'[i].status = "claimed" /\ rows'[i].claim = Drain(m) /\ rows'[i].left >= 0
          /\ rows'[i].retry = rows[i].retry
          /\ \A j \in Item : j # i => rows'[j] = rows[j]
    <3>1. rows[i] \in Row /\ TTL \in Nat
      BY <1>typed, QueueAssumption DEF QueueAssumption
    <3>2. rows'[i] = [rows[i] EXCEPT !.status = "claimed", !.claim = Drain(m), !.left = TTL]
      BY <1>2, <2>1, <1>typed
    <3>3. /\ rows'[i].status = "claimed" /\ rows'[i].claim = Drain(m) /\ rows'[i].left = TTL
          /\ rows'[i].retry = rows[i].retry
      BY <3>1, <3>2 DEF Row
    <3>4. TTL >= 0
      BY <3>1
    <3> QED
      BY <1>2, <2>1, <3>3, <3>4, <1>typed
  <2>due. /\ Due(rows'[i]) = Due(rows[i])
          /\ \A j \in Item : Due(rows'[j]) = Due(rows[j])
    BY <2>1, <2>row DEF Due
  <2>nobody. \A n \in Node : ~At(n, i)
    BY <2>1, AtHas DEF Claimed
  <2>stays. ASSUME NEW n \in Node, n # m, pc'[Drain(n)] \in ClaimLabels
            PROVE  /\ pc[Drain(n)] \in ClaimLabels /\ item[Drain(n)] \in Item /\ item[Drain(n)] # i
    BY <2>stays, <2>nobody, <1>others, AtHas DEF Steady, At
  <2>m. pc'[Drain(m)] = "claimed_read" /\ item'[Drain(m)] = i
    BY <1>2, <2>1, <1>same, <1>typed DEF Goto
  <2>3. ClaimKept'
    <3> SUFFICES ASSUME NEW n \in Node, pc'[Drain(n)] \in ClaimLabels
                 PROVE  /\ item'[Drain(n)] \in Item
                        /\ \/ /\ rows'[item'[Drain(n)]].status = "claimed"
                              /\ rows'[item'[Drain(n)]].claim = Drain(n)
                              /\ rows'[item'[Drain(n)]].left >= 0
                           \/ rows'[item'[Drain(n)]].status = "gone"
      BY DEF ClaimKept, Claimed
    <3>1. CASE n = m
      BY <3>1, <2>row, <2>m
    <3>2. CASE n # m
      BY <3>2, <2>stays, <2>row, <1>same DEF Budget, ClaimKept, Claimed
    <3> QED
      BY <3>1, <3>2
  <2>4. Alone'
    <3> SUFFICES ASSUME NEW k \in Node, NEW n \in Node,
                        pc'[Drain(k)] \in ClaimLabels, pc'[Drain(n)] \in ClaimLabels,
                        item'[Drain(k)] = item'[Drain(n)]
                 PROVE  k = n
      BY DEF Alone
    <3>1. CASE k # m /\ n # m
      BY <3>1, <2>stays, <1>same DEF Budget, Alone
    <3>2. CASE k = m \/ n = m
      BY <3>2, <2>stays, <2>m, <1>same
    <3> QED
      BY <3>1, <3>2
  <2>5. Covered'
    BY <2>due, <1>same DEF Budget, Covered
  <2>6. Settled'
    <3> SUFFICES ASSUME NEW j \in Item, rows'[j].status \in {"none", "pending", "claimed"},
                        \A n \in Node : item'[Drain(n)] = j => pc'[Drain(n)] \notin Turned
                 PROVE  started'[j] <= Due(rows'[j]) + crashes'
      BY DEF Settled
    <3>1. rows[j].status \in {"none", "pending", "claimed"}
      BY <2>1, <2>row
    <3>2. ASSUME NEW n \in Node, item[Drain(n)] = j, pc[Drain(n)] \in Turned PROVE FALSE
      BY <3>2, <1>same, <1>others DEF Steady, Turned
    <3> QED
      BY <3>1, <3>2, <2>due, <1>same DEF Budget, Settled
  <2>7. AheadCovered'
    <3> SUFFICES ASSUME NEW n \in Node, pc'[Drain(n)] \in Ahead
                 PROVE  started'[item'[Drain(n)]] <= Due(rows'[item'[Drain(n)]]) + crashes'
      BY DEF AheadCovered
    <3>1. CASE n = m
      <4>1. started[i] <= Due(rows[i]) + crashes
        BY <2>1, <2>nobody, NobodyAt
      <4> QED
        BY <3>1, <4>1, <2>m, <2>due, <1>same
    <3>2. CASE n # m
      <4>1. pc'[Drain(n)] \in ClaimLabels /\ pc[Drain(n)] \in Ahead
        BY <3>2, <1>others DEF Steady, Ahead, ClaimLabels
      <4> QED
        BY <3>2, <4>1, <2>stays, <2>due, <1>same DEF Budget, AheadCovered
    <3> QED
      BY <3>1, <3>2
  <2> QED
    BY <2>3, <2>4, <2>5, <2>6, <2>7 DEF Budget
<1> QED
  BY <1>1, <1>2 DEF Claim

LEMMA ConfigureBudget ==
    ASSUME TypeOK, TypeOK', TurnsTimely, Budget, NEW m \in Node, Configure(m)
    PROVE  Budget'
<1> USE Workers
<1>typed. /\ pc \in [Worker -> PC] /\ item \in [Worker -> Item \cup {NoItem}]
          /\ started \in [Item -> Nat]
  BY DEF TypeOK
<1>inv. ClaimKept /\ Alone /\ Covered /\ Settled /\ AheadCovered
  BY DEF Budget
<1>others. \A n \in Node : n # m => Steady(n)
  BY OnlyOne
<1>same. item' = item /\ rows' = rows /\ crashes' = crashes /\ pc[Drain(m)] = "claimed"
  BY DEF Configure, env, db
<1>1. PICK i \in Item : i = item[Drain(m)]
  BY <1>same, <1>inv DEF ClaimKept, ClaimLabels
<1>m. pc'[Drain(m)] \in {"run", "abandon", "refund"}
  BY <1>typed DEF Configure, Goto
<1>counted. /\ \A j \in Item : j # i => started'[j] = started[j]
            /\ started'[i] = started[i] \/ (started'[i] = started[i] + 1 /\ pc'[Drain(m)] = "run")
  <2>1. CASE started' = started
    BY <2>1
  <2>2. CASE /\ Goto(Drain(m), "run")
             /\ started' = [started EXCEPT ![i] = IF @ > MaxRetries + 1 + MaxCrashes
                                                  THEN @ ELSE @ + 1]
    BY <2>2, <1>typed DEF Goto
  <2> QED
    BY <1>1, <2>1, <2>2 DEF Configure
<1>labels. \A n \in Node : pc'[Drain(n)] \in ClaimLabels => pc[Drain(n)] \in ClaimLabels
  BY <1>others, <1>same DEF Steady, ClaimLabels
<1>at. started[i] <= Due(rows[i]) + crashes
  BY <1>1, <1>same, <1>inv DEF AheadCovered, Ahead
<1>2. ClaimKept'
  BY <1>labels, <1>same, <1>inv DEF ClaimKept, Claimed
<1>3. Alone'
  BY <1>labels, <1>same, <1>inv DEF Alone
<1>4. Covered'
  <2> SUFFICES ASSUME NEW j \in Item PROVE started'[j] <= Due(rows'[j]) + crashes' + 1
    BY DEF Covered
  <2>1. started[j] <= Due(rows[j]) + crashes + 1
    BY <1>inv DEF Covered
  <2> QED
    BY <2>1, <1>at, <1>counted, <1>same, DueTyped
<1>5. Settled'
  <2> SUFFICES ASSUME NEW j \in Item, rows'[j].status \in {"none", "pending", "claimed"},
                      \A n \in Node : item'[Drain(n)] = j => pc'[Drain(n)] \notin Turned
               PROVE  started'[j] <= Due(rows'[j]) + crashes'
    BY DEF Settled
  <2>1. started'[j] = started[j]
    BY <1>1, <1>counted, <1>same DEF Turned
  <2>2. \A n \in Node : item[Drain(n)] = j => pc[Drain(n)] \notin Turned
    BY <1>others, <1>same DEF Steady, Turned
  <2> QED
    BY <2>1, <2>2, <1>same, <1>inv DEF Settled
<1>6. AheadCovered'
  <2> SUFFICES ASSUME NEW n \in Node, pc'[Drain(n)] \in Ahead
               PROVE  started'[item'[Drain(n)]] <= Due(rows'[item'[Drain(n)]]) + crashes'
    BY DEF AheadCovered
  <2>1. n # m /\ pc[Drain(n)] \in Ahead
    BY <1>m, <1>others DEF Steady, Ahead
  <2>2. item[Drain(n)] \in Item /\ item[Drain(n)] # i
    BY <2>1, <1>1, <1>same, <1>inv DEF ClaimKept, Alone, Ahead, ClaimLabels
  <2> QED
    BY <2>1, <2>2, <1>counted, <1>same, <1>inv DEF AheadCovered
<1> QED
  BY <1>2, <1>3, <1>4, <1>5, <1>6 DEF Budget

LEMMA CompleteBudget ==
    ASSUME TypeOK, TypeOK', TurnsTimely, Budget, NEW m \in Node, Complete(m)
    PROVE  Budget'
<1> USE Workers
<1>1. started' = started /\ crashes' = crashes /\ \A n \in Node : n # m => Steady(n)
  BY OnlyOne DEF Complete, env
<1>2. pc'[Drain(m)] \notin ClaimLabels /\ pc[Drain(m)] \in ClaimLabels
  BY DEF Complete, Goto, TypeOK, ClaimLabels
<1>3. ASSUME NEW i \in Item
      PROVE  \/ /\ rows'[i] = rows[i]
                /\ At(m, i) => crashes' = crashes + 1 \/ rows[i].status = "gone"
             \/ At(m, i) /\ rows'[i].status \in {"done", "gone"}
  <2>1. CASE i # item[Drain(m)]
    BY <2>1 DEF Complete, TypeOK, At
  <2>2. CASE i = item[Drain(m)] /\ Claimed(i, Drain(m))
    <3>1. rows'[i] = Gone("done")
      BY <2>2 DEF Complete, TypeOK
    <3> QED
      BY <3>1, <2>2, <1>2 DEF Gone, Unclaimed, At
  <2>3. CASE i = item[Drain(m)] /\ ~Claimed(i, Drain(m))
    BY <2>3, AtHas DEF Complete
  <2> QED
    BY <2>1, <2>2, <2>3
<1> QED
  BY <1>1, <1>2, <1>3, LeaveStep

LEMMA ReleaseBudget ==
    ASSUME TypeOK, TypeOK', TurnsTimely, Budget, NEW m \in Node, Release(m)
    PROVE  Budget'
<1> USE Workers
<1>1. started' = started /\ crashes' = crashes /\ \A n \in Node : n # m => Steady(n)
  BY OnlyOne DEF Release, ReleaseTo, env
<1>2. pc'[Drain(m)] \notin ClaimLabels /\ pc[Drain(m)] \in ClaimLabels
  BY DEF Release, ReleaseTo, Goto, TypeOK, ClaimLabels
<1>3. ASSUME NEW i \in Item
      PROVE  \/ /\ rows'[i] = rows[i]
                /\ At(m, i) => crashes' = crashes + 1 \/ rows[i].status = "gone"
             \/ At(m, i) /\ rows'[i].status \in {"done", "gone"}
             \/ At(m, i) /\ Due(rows'[i]) = Due(rows[i]) + 1
  <2>1. CASE i # item[Drain(m)]
    BY <2>1 DEF Release, ReleaseTo, TypeOK, At
  <2>2. CASE i = item[Drain(m)] /\ Claimed(i, Drain(m))
    <3>1. rows'[i] = Gone("gone") \/ rows'[i] = Unclaimed("pending", rows[i].retry + 1)
      BY <2>2 DEF Release, ReleaseTo, TypeOK
    <3>2. Due(rows[i]) = rows[i].retry
      BY <2>2 DEF Due, Claimed
    <3> QED
      BY <3>1, <3>2, <2>2, <1>2 DEF Gone, Unclaimed, At, Due
  <2>3. CASE i = item[Drain(m)] /\ ~Claimed(i, Drain(m))
    BY <2>3, AtHas DEF Release, ReleaseTo
  <2> QED
    BY <2>1, <2>2, <2>3
<1> QED
  BY <1>1, <1>2, <1>3, LeaveStep

LEMMA CrashBudget ==
    ASSUME TypeOK, TypeOK', TurnsTimely, Budget, NEW m \in Node, Crash(m)
    PROVE  Budget'
<1> USE Workers
<1>1. started' = started /\ crashes' = crashes + 1 /\ rows' = rows
      /\ \A n \in Node : n # m => Steady(n)
  BY OnlyOne DEF Crash, db
<1>2. pc'[Drain(m)] \notin ClaimLabels
  BY DEF Crash, Of, ClaimLabels
<1> QED
  BY <1>1, <1>2, LeaveStep

LEMMA BudgetStep == TypeOK /\ OwnRequest /\ Budget /\ [Next]_vars => Budget'
<1> SUFFICES ASSUME TypeOK, OwnRequest, Budget, [Next]_vars, TurnsTimely PROVE Budget'
  BY DEF Budget
<1> USE Workers
<1>next. TypeOK'
  BY TypeStep
<1>typed. /\ rows \in [Item -> Row] /\ pc \in [Worker -> PC]
          /\ item \in [Worker -> Item \cup {NoItem}] /\ started \in [Item -> Nat]
  BY DEF TypeOK
<1>drain. CASE \E m \in Node : Claim(m) \/ Configure(m) \/ Complete(m) \/ Release(m) \/ Crash(m)
  BY <1>drain, <1>next, ClaimBudget, ConfigureBudget, CompleteBudget, ReleaseBudget, CrashBudget
<1>quiet. CASE ~\E m \in Node : Claim(m) \/ Configure(m) \/ Complete(m) \/ Release(m) \/ Crash(m)
  <2>steady. \A n \in Node : Steady(n)
    BY <1>quiet, DrainSteady
  <2>step. ASSUME crashes' = crashes, \A i \in Item : Rewritten(i) \/ Dropped(i) \/ Left(i)
           PROVE  Budget'
    BY <2>step, <2>steady, <1>next, QuietStep
  <2>same. ASSUME NEW i \in Item, rows'[i] = rows[i], started'[i] = started[i] PROVE Left(i)
    BY <2>same DEF Left
  <2>asked. ASSUME NEW n \in Node, pc[User(n)] \in Asking
            PROVE  \E i \in Item : /\ i = item[User(n)] /\ rows[i].status = "none"
                                   /\ \A k \in Node : ~At(k, i)
                                   /\ started[i] <= crashes /\ crashes \in Nat
    <3>1. PICK i \in Item : i = item[User(n)] /\ rows[i].status = "none"
      BY <2>asked DEF OwnRequest
    <3>2. \A k \in Node : ~At(k, i)
      BY <3>1, AtHas DEF Claimed
    <3>3. started[i] <= Due(rows[i]) + crashes
      BY <3>1, <3>2, NobodyAt
    <3>4. Due(rows[i]) = 0
      BY <3>1 DEF Due
    <3>5. started[i] <= crashes /\ crashes \in Nat
      BY <3>3, <3>4, DueTyped
    <3> QED
      BY <3>1, <3>2, <3>5
  <2>1. ASSUME UNCHANGED <<rows, started, crashes>> PROVE Budget'
    BY <2>1, <2>step, <2>same
  <2>2. ASSUME NEW w \in Worker, InsertLease(w) \/ TakeoverLease(w) PROVE Budget'
    <3>0. crashes' = crashes
      BY <2>2 DEF InsertLease, TakeoverLease, env
    <3>1. CASE rows' = rows /\ started' = started
      BY <3>0, <3>1, <2>1
    <3>2. CASE /\ w[2] = "user" /\ rows' = [rows EXCEPT ![item[w]] = Gone("gone")]
               /\ started' = [started EXCEPT ![item[w]] = 1]
      <4>1. PICK n \in Node : w = User(n)
        BY <3>2 DEF Worker
      <4>2. PICK i \in Item : i = item[w] /\ \A k \in Node : ~At(k, i)
        BY <4>1, <2>2, <2>asked DEF InsertLease, TakeoverLease, Asking
      <4>3. rows'[i].status = "gone" /\ started'[i] = 1
        BY <3>2, <4>2, <1>typed DEF Gone, Unclaimed
      <4>4. Due(rows'[i]) = MaxRetries /\ MaxRetries \in Nat /\ crashes \in Nat
        BY <4>3, DueTyped DEF Due
      <4>5. Rewritten(i)
        BY <4>2, <4>3, <4>4 DEF Rewritten
      <4>6. \A j \in Item : j # i => Left(j)
        BY <3>2, <4>2, <2>same
      <4> QED
        BY <3>0, <4>5, <4>6, <2>step
    <3> QED
      BY <2>2, <3>1, <3>2 DEF InsertLease, TakeoverLease, Acquired, db
  <2>3. ASSUME NEW n \in Node, Enqueue(User(n)) PROVE Budget'
    <3>0. crashes' = crashes /\ started' = started
      BY <2>3 DEF Enqueue, env
    <3>1. CASE rows' = rows
      BY <3>0, <3>1, <2>1
    <3>2. CASE rows' = [rows EXCEPT ![item[User(n)]] = Unclaimed("pending", 0)]
      <4>1. PICK i \in Item : /\ i = item[User(n)] /\ \A k \in Node : ~At(k, i)
                              /\ started[i] <= crashes /\ crashes \in Nat
        BY <2>3, <2>asked DEF Enqueue, Asking
      <4>2. Due(rows'[i]) = 0
        BY <3>2, <4>1, <1>typed DEF Unclaimed, Due
      <4>3. Rewritten(i)
        BY <3>0, <4>1, <4>2, DueTyped DEF Rewritten
      <4>4. \A j \in Item : j # i => Left(j)
        BY <3>0, <3>2, <4>1, <2>same, <1>typed
      <4> QED
        BY <3>0, <4>3, <4>4, <2>step
    <3> QED
      BY <2>3, <3>1, <3>2 DEF Enqueue
  <2>4. ASSUME NEW n \in Node, Lookup(User(n)) PROVE Budget'
    <3>0. crashes' = crashes /\ started' = started
      BY <2>4 DEF Lookup, env
    <3>1. \A i \in Item : rows'[i] = rows[i] \/ rows'[i] = Gone("gone")
      BY <2>4, <1>typed DEF Lookup
    <3>2. \A i \in Item : Left(i) \/ Dropped(i)
      BY <3>0, <3>1, <2>same DEF Dropped, Gone, Unclaimed
    <3> QED
      BY <3>0, <3>2, <2>step
  <2>5. ASSUME NEW n \in Node, SweepClaims(n) PROVE Budget'
    <3>0. crashes' = crashes /\ started' = started
      BY <2>5 DEF SweepClaims, SweepTo, env
    <3>1. ASSUME NEW i \in Item, i \notin Expired PROVE Left(i)
      BY <2>5, <3>0, <3>1, <2>same DEF SweepClaims, SweepTo
    <3>2. ASSUME NEW i \in Item, i \in Expired PROVE Rewritten(i)
      <4>1. rows[i].status = "claimed" /\ rows[i].left < 0
        BY <3>2 DEF Expired
      <4>2. ASSUME NEW k \in Node, At(k, i) PROVE FALSE
        <5>1. rows[i].left >= 0
          BY <4>1, <4>2, AtHas
        <5>2. rows[i].left \in -1..TTL
          BY DueTyped
        <5> QED
          BY <4>1, <5>1, <5>2
      <4>3. started[i] <= Due(rows[i]) + crashes
        BY <4>1, <4>2, NobodyAt
      <4>4. rows'[i] = Unclaimed("pending", rows[i].retry + 0)
        BY <2>5, <3>2 DEF SweepClaims, SweepTo
      <4>5. Due(rows'[i]) = rows[i].retry + 0 /\ Due(rows[i]) = rows[i].retry
        BY <4>1, <4>4 DEF Unclaimed, Due
      <4>6. started[i] <= Due(rows'[i]) + crashes
        BY <4>3, <4>5, DueTyped
      <4>7. started[i] <= Due(rows'[i]) + crashes + 1
        BY <4>5, <4>6, DueTyped
      <4> QED
        BY <3>0, <4>2, <4>6, <4>7 DEF Rewritten
    <3> QED
      BY <3>0, <3>1, <3>2, <2>step
  <2>6. ASSUME NEW n \in Node, NEW j \in Item, Remove(n, j) PROVE Budget'
    <3>0. crashes' = crashes /\ started' = started
      BY <2>6 DEF Remove, env
    <3>1. \A i \in Item : rows'[i] = rows[i] \/ rows'[i] = Gone("gone")
      BY <2>6, <1>typed DEF Remove
    <3>2. \A i \in Item : Left(i) \/ Dropped(i)
      BY <3>0, <3>1, <2>same DEF Dropped, Gone, Unclaimed
    <3> QED
      BY <3>0, <3>2, <2>step
  <2>7. ASSUME Tick PROVE Budget'
    <3>0. crashes' = crashes /\ started' = started
      BY <2>7 DEF Tick, env
    <3>1. ASSUME NEW i \in Item PROVE Left(i)
      <4>1. rows'[i] = [rows[i] EXCEPT !.left = Older(@)]
        BY <2>7 DEF Tick
      <4>2. /\ rows'[i].status = rows[i].status /\ rows'[i].claim = rows[i].claim
            /\ rows'[i].retry = rows[i].retry /\ rows'[i].left = Older(rows[i].left)
        BY <4>1, <1>typed DEF Row
      <4>3. ASSUME NEW n \in Node, At(n, i), Claimed(i, Drain(n)) PROVE rows'[i].left >= 0
        <5>1. Owns(Drain(n), i)
          BY <4>3 DEF Owns, Claiming, At, ClaimLabels
        <5>2. rows[i].left > 0
          BY <5>1, <2>7 DEF Tick
        <5> QED
          BY <5>2, <4>2, DueTyped DEF Older
      <4> QED
        BY <3>0, <4>2, <4>3 DEF Left
    <3> QED
      BY <3>0, <3>1, <2>step
  <2> QED
    BY <1>quiet, BudgetWriters, <2>1, <2>2, <2>3, <2>4, <2>5, <2>6, <2>7
<1> QED
  BY <1>drain, <1>quiet

LEMMA BudgetInit == Init => Budget /\ OwnRequest
<1>1. Init => OwnRequest
  BY Workers DEF Init, OwnRequest, Asking
<1>2. ASSUME Init PROVE Budget
  <2>1. \A i \in Item : started[i] = 0 /\ rows[i].status = "none" /\ crashes = 0
    BY <1>2 DEF Init, Gone, Unclaimed
  <2>2. \A i \in Item : Due(rows[i]) = 0
    BY <2>1 DEF Due
  <2>3. \A n \in Node : pc[Drain(n)] = "idle"
    BY <1>2, Workers DEF Init
  <2> QED
    BY <2>1, <2>2, <2>3
    DEF Budget, ClaimKept, Alone, Covered, Settled, AheadCovered, ClaimLabels, Ahead
<1> QED
  BY <1>1, <1>2

\* However often its claimers fail, crash or are slow to be swept, a message starts
\* one turn more than its retry budget at most, and one more for each crash, as
\* long as no turn outlives the claim timeout; for any number of nodes, messages
\* and crashes.
THEOREM TurnsLimited == Spec => []TurnsBounded
<1>1. TypeOK /\ Budget => TurnsBounded
  <2> SUFFICES ASSUME TypeOK, Budget, TurnsTimely, NEW i \in Item
               PROVE  started[i] <= MaxRetries + 1 + crashes
    BY DEF TurnsBounded
  <2>1. started[i] <= Due(rows[i]) + crashes + 1
    BY DEF Budget, Covered
  <2> QED
    BY <2>1, DueTyped
<1> QED
  BY <1>1, BudgetInit, TypeInit, TypeStep, RequestStep, BudgetStep, PTL DEF Spec
-----------------------------------------------------------------------------
(***************************************************************************)
(* The refinement of SessionQueue.                                         *)
(***************************************************************************)
\* A message that was never queued has no retries.
Untried == \A i \in Item : rows[i].status = "none" => rows[i].retry = 0

\* A handler of user requests that runs a turn sends a message which is not queued,
\* and only it and the drain loops run turns.
Senders ==
    \A w \in Worker : pc[w] \in ClaimLabels =>
        \/ w[2] = "drain"
        \/ w[2] = "user" /\ item[w] \in Item /\ rows[item[w]].status = "gone"

\* What a step does to a worker that neither begins, advances nor ends its turn.
Calm(w) ==
    /\ pc'[w] \in ClaimLabels <=> pc[w] \in ClaimLabels
    /\ pc[w] \in ClaimLabels => item'[w] = item[w] /\ PhaseOf[pc'[w]] = PhaseOf[pc[w]]

TurnOf(w) == [item |-> item[w], phase |-> PhaseOf[pc[w]]]

LEMMA TurnLabels ==
    /\ DOMAIN PhaseOf = ClaimLabels
    /\ ClaimLabels \subseteq Preparing \cup Running \cup Failing \cup Ending
  BY DEF PhaseOf, ClaimLabels, Preparing, Running, Failing, Ending

\* The steps that a session can notice of a worker's turn.
LEMMA CalmWorkers ==
    ASSUME TypeOK, [Next]_vars
    PROVE  \/ \A w \in Worker : Calm(w)
           \/ \E w \in Worker :
               InsertLease(w) \/ TakeoverLease(w) \/ TurnSucceeds(w) \/ TurnThrows(w)
           \/ \E n \in Node : Claim(n) \/ Configure(n) \/ Complete(n) \/ Release(n) \/ Crash(n)
<1> USE Workers
<1>typed. pc \in [Worker -> PC] /\ item \in [Worker -> Item \cup {NoItem}]
  BY DEF TypeOK
<1>same. ASSUME pc' = pc, item' = item PROVE \A v \in Worker : Calm(v)
  BY <1>same DEF Calm
<1>moves. ASSUME NEW w \in Worker, NEW l, Goto(w, l),
                 pc[w] \notin ClaimLabels, l \notin ClaimLabels,
                 \A v \in Worker \ {w} : item'[v] = item[v]
          PROVE  \A v \in Worker : Calm(v)
  <2>1. pc'[w] = l /\ \A v \in Worker \ {w} : pc'[v] = pc[v]
    BY <1>moves, <1>typed DEF Goto
  <2> QED
    BY <2>1, <1>moves DEF Calm
<1>returns. ASSUME NEW m \in Node, DrainReturns(m), pc[Drain(m)] \notin ClaimLabels
            PROVE  \A v \in Worker : Calm(v)
  <2>1. /\ pc'[Drain(m)] \in {"head", "idle"}
        /\ \A v \in Worker \ {Drain(m)} : pc'[v] = pc[v] /\ item'[v] = item[v]
    BY <1>returns, <1>typed DEF DrainReturns
  <2> QED
    BY <2>1, <1>returns DEF Calm, ClaimLabels
<1>schedules. ASSUME NEW m \in Node, NEW q \in [Worker -> PC], Scheduling(q, m) \/ pc' = q,
                     \A v \in Worker : \/ q[v] = pc[v] /\ item'[v] = item[v]
                                       \/ q[v] \notin ClaimLabels /\ pc[v] \notin ClaimLabels
              PROVE  \A v \in Worker : Calm(v)
  <2>1. \A v \in Worker : pc'[v] = q[v] \/ (pc'[v] = "head" /\ q[v] = "idle")
    BY <1>schedules DEF Scheduling
  <2> QED
    BY <2>1, <1>schedules DEF Calm, ClaimLabels
<1>1. ASSUME NEW w \in Worker, Select(w) PROVE \A v \in Worker : Calm(v)
  <2>1. Goto(w, AfterRead[pc[w]]) /\ pc[w] \in Reading /\ item' = item
    BY <1>1 DEF Select
  <2>2. \/ pc[w] = "claimed_read" /\ AfterRead[pc[w]] = "claimed"
        \/ pc[w] \notin ClaimLabels /\ AfterRead[pc[w]] \notin ClaimLabels
    BY <2>1 DEF AfterRead, Reading, ClaimLabels
  <2>3. CASE pc[w] = "claimed_read" /\ AfterRead[pc[w]] = "claimed"
    <3>1. ASSUME NEW v \in Worker, v # w PROVE Calm(v)
      BY <2>1, <3>1, <1>typed DEF Goto, Calm
    <3>2. pc'[w] = "claimed"
      BY <2>1, <2>3, <1>typed DEF Goto
    <3>3. Calm(w)
      BY <2>1, <2>3, <3>2 DEF Calm, ClaimLabels, PhaseOf
    <3> QED
      BY <3>1, <3>3
  <2>4. CASE pc[w] \notin ClaimLabels /\ AfterRead[pc[w]] \notin ClaimLabels
    BY <2>1, <2>4, <1>moves
  <2> QED
    BY <2>2, <2>3, <2>4
<1>2. ASSUME NEW m \in Node, Enqueue(User(m)) PROVE \A v \in Worker : Calm(v)
  <2>1. /\ pc[User(m)] \notin ClaimLabels
        /\ \E l \in {"queued_read", "lookup"} : Goto(User(m), l)
        /\ \A v \in Worker \ {User(m)} : item'[v] = item[v]
    BY <1>2, <1>typed DEF Enqueue, ClaimLabels
  <2> QED
    BY <2>1, <1>moves DEF ClaimLabels
<1>3. ASSUME NEW m \in Node, Lookup(User(m)) PROVE \A v \in Worker : Calm(v)
  <2>1. /\ pc[User(m)] \notin ClaimLabels
        /\ \E l \in {"queued_read", "relookup_read", "idle"} : Goto(User(m), l)
        /\ \A v \in Worker \ {User(m)} : item'[v] = item[v]
    BY <1>3, <1>typed DEF Lookup, ClaimLabels
  <2> QED
    BY <2>1, <1>moves DEF ClaimLabels
<1>4. ASSUME NEW m \in Node, LookAgain(User(m)) PROVE \A v \in Worker : Calm(v)
  <2>1. /\ pc[User(m)] \notin ClaimLabels
        /\ \E l \in {"lookup_again"} : Goto(User(m), l)
        /\ \A v \in Worker \ {User(m)} : item'[v] = item[v]
    BY <1>4, <1>typed DEF LookAgain, ClaimLabels
  <2> QED
    BY <2>1, <1>moves DEF ClaimLabels
<1>5. ASSUME NEW w \in Worker, Renew(w) PROVE \A v \in Worker : Calm(v)
  BY <1>5, <1>same DEF Renew
<1>6. ASSUME NEW m \in Node, Queued(m) PROVE \A v \in Worker : Calm(v)
  <2> DEFINE q == [pc EXCEPT ![User(m)] = "idle"]
  <2>1. q \in [Worker -> PC] /\ (Scheduling(q, m) \/ pc' = q)
    BY <1>6, <1>typed, Labels DEF Queued
  <2>2. \A v \in Worker : \/ q[v] = pc[v] /\ item'[v] = item[v]
                          \/ q[v] \notin ClaimLabels /\ pc[v] \notin ClaimLabels
    BY <1>6, <1>typed DEF Queued, ClaimLabels
  <2> QED
    BY <2>1, <2>2, <1>schedules
<1>7. ASSUME NEW m \in Node, Removed(m) PROVE \A v \in Worker : Calm(v)
  <2>1. /\ pc[User(m)] \notin ClaimLabels
        /\ \E l \in {"idle"} : Goto(User(m), l)
        /\ \A v \in Worker \ {User(m)} : item'[v] = item[v]
    BY <1>7, <1>typed DEF Removed, ClaimLabels
  <2> QED
    BY <2>1, <1>moves DEF ClaimLabels
<1>8. ASSUME NEW m \in Node, ReadHead(m) PROVE \A v \in Worker : Calm(v)
  <2>1. /\ pc[Drain(m)] \notin ClaimLabels
        /\ \E l \in {"insert"} : Goto(Drain(m), l)
        /\ \A v \in Worker \ {Drain(m)} : item'[v] = item[v]
    BY <1>8, <1>typed DEF ReadHead, ClaimLabels
  <2> QED
    BY <2>1, <1>moves DEF ClaimLabels
<1>9. ASSUME NEW m \in Node, GiveUp(m) PROVE \A v \in Worker : Calm(v)
  BY <1>9, <1>returns DEF GiveUp, ClaimLabels
<1>10. ASSUME NEW m \in Node, Check(m) PROVE \A v \in Worker : Calm(v)
  <2>1. /\ pc[Drain(m)] \notin ClaimLabels
        /\ \E l \in {"claim", "unlock_stop"} : Goto(Drain(m), l)
        /\ \A v \in Worker \ {Drain(m)} : item'[v] = item[v]
    BY <1>10, <1>typed DEF Check, ClaimLabels
  <2> QED
    BY <2>1, <1>moves DEF ClaimLabels
<1>11. ASSUME NEW m \in Node, Missed(m) PROVE \A v \in Worker : Calm(v)
  <2>1. /\ pc[Drain(m)] \notin ClaimLabels
        /\ \E l \in {"unlock_loop"} : Goto(Drain(m), l)
        /\ \A v \in Worker \ {Drain(m)} : item'[v] = item[v]
    BY <1>11, <1>typed DEF Missed, ClaimLabels
  <2> QED
    BY <2>1, <1>moves DEF ClaimLabels
<1>12. ASSUME NEW m \in Node, Settle(m) PROVE \A v \in Worker : Calm(v)
  <2>1. /\ pc[Drain(m)] \notin ClaimLabels
        /\ \E l \in {"unlock_done", "unlock_stop"} : Goto(Drain(m), l)
        /\ \A v \in Worker \ {Drain(m)} : item'[v] = item[v]
    BY <1>12, <1>typed DEF Settle, ClaimLabels
  <2> QED
    BY <2>1, <1>moves DEF ClaimLabels
<1>13. ASSUME NEW m \in Node, UnlockDrain(m) PROVE \A v \in Worker : Calm(v)
  <2>1. pc[Drain(m)] \notin ClaimLabels
    BY <1>13 DEF UnlockDrain, ClaimLabels
  <2>2. CASE DrainReturns(m)
    BY <2>1, <2>2, <1>returns
  <2>3. CASE Goto(Drain(m), "head") /\ item' = [item EXCEPT ![Drain(m)] = NoItem]
    <3>1. \A v \in Worker \ {Drain(m)} : item'[v] = item[v]
      BY <2>3, <1>typed
    <3> QED
      BY <2>1, <2>3, <3>1, <1>moves DEF ClaimLabels
  <2> QED
    BY <1>13, <2>2, <2>3 DEF UnlockDrain
<1>14. ASSUME NEW m \in Node, UnlockUser(m) PROVE \A v \in Worker : Calm(v)
  <2> DEFINE q == [pc EXCEPT ![User(m)] = "idle"]
  <2>1. q \in [Worker -> PC] /\ (Scheduling(q, m) \/ pc' = q)
    BY <1>14, <1>typed, Labels DEF UnlockUser
  <2>2. \A v \in Worker : \/ q[v] = pc[v] /\ item'[v] = item[v]
                          \/ q[v] \notin ClaimLabels /\ pc[v] \notin ClaimLabels
    BY <1>14, <1>typed DEF UnlockUser, ClaimLabels
  <2> QED
    BY <2>1, <2>2, <1>schedules
<1>15. ASSUME NEW m \in Node, SlotExpires(m) PROVE \A v \in Worker : Calm(v)
  BY <1>15, <1>same DEF SlotExpires
<1>16. ASSUME NEW m \in Node, SweepClaims(m) PROVE \A v \in Worker : Calm(v)
  <2>1. /\ pc[Sweep(m)] \notin ClaimLabels
        /\ \E l \in {"leases"} : Goto(Sweep(m), l)
        /\ \A v \in Worker \ {Sweep(m)} : item'[v] = item[v]
    BY <1>16, <1>typed DEF SweepClaims, SweepTo, ClaimLabels
  <2> QED
    BY <2>1, <1>moves DEF ClaimLabels
<1>17. ASSUME NEW m \in Node, SweepLeases(m) PROVE \A v \in Worker : Calm(v)
  <2>1. /\ pc[Sweep(m)] \notin ClaimLabels
        /\ \E l \in {"swept_read"} : Goto(Sweep(m), l)
        /\ \A v \in Worker \ {Sweep(m)} : item'[v] = item[v]
    BY <1>17, <1>typed DEF SweepLeases, ClaimLabels
  <2> QED
    BY <2>1, <1>moves DEF ClaimLabels
<1>18. ASSUME NEW m \in Node, Swept(m) PROVE \A v \in Worker : Calm(v)
  <2> DEFINE q == [pc EXCEPT ![Sweep(m)] = "idle"]
  <2>1. q \in [Worker -> PC] /\ (Scheduling(q, m) \/ pc' = q)
    BY <1>18, <1>typed, Labels DEF Swept
  <2>2. \A v \in Worker : \/ q[v] = pc[v] /\ item'[v] = item[v]
                          \/ q[v] \notin ClaimLabels /\ pc[v] \notin ClaimLabels
    BY <1>18, <1>typed DEF Swept, ClaimLabels
  <2> QED
    BY <2>1, <2>2, <1>schedules
<1>19. ASSUME NEW m \in Node, SyncRead(m) PROVE \A v \in Worker : Calm(v)
  <2>1. /\ pc[Sync(m)] \notin ClaimLabels
        /\ \E l \in {"synced"} : Goto(Sync(m), l)
        /\ \A v \in Worker \ {Sync(m)} : item'[v] = item[v]
    BY <1>19, <1>typed DEF SyncRead, ClaimLabels
  <2> QED
    BY <2>1, <1>moves DEF ClaimLabels
<1>20. ASSUME NEW m \in Node, Synced(m) PROVE \A v \in Worker : Calm(v)
  <2>1. /\ pc[Sync(m)] \notin ClaimLabels
        /\ \E l \in {"idle"} : Goto(Sync(m), l)
        /\ \A v \in Worker \ {Sync(m)} : item'[v] = item[v]
    BY <1>20, <1>typed DEF Synced, ClaimLabels
  <2> QED
    BY <2>1, <1>moves DEF ClaimLabels
<1>21. ASSUME NEW m \in Node, ClientOpens(m) PROVE \A v \in Worker : Calm(v)
  <2> DEFINE q == pc
  <2>1. q \in [Worker -> PC] /\ (Scheduling(q, m) \/ pc' = q)
    BY <1>21, <1>typed, Labels DEF ClientOpens
  <2>2. \A v \in Worker : \/ q[v] = pc[v] /\ item'[v] = item[v]
                          \/ q[v] \notin ClaimLabels /\ pc[v] \notin ClaimLabels
    BY <1>21, <1>typed DEF ClientOpens, ClaimLabels
  <2> QED
    BY <2>1, <2>2, <1>schedules
<1>22. ASSUME NEW m \in Node, ExecutorConnects(m) PROVE \A v \in Worker : Calm(v)
  <2> DEFINE q == pc
  <2>1. q \in [Worker -> PC] /\ (Scheduling(q, m) \/ pc' = q)
    BY <1>22, <1>typed, Labels DEF ExecutorConnects
  <2>2. \A v \in Worker : \/ q[v] = pc[v] /\ item'[v] = item[v]
                          \/ q[v] \notin ClaimLabels /\ pc[v] \notin ClaimLabels
    BY <1>22, <1>typed DEF ExecutorConnects, ClaimLabels
  <2> QED
    BY <2>1, <2>2, <1>schedules
<1>23. ASSUME NEW m \in Node, Restart(m) PROVE \A v \in Worker : Calm(v)
  BY <1>23, <1>same DEF Restart
<1>24. ASSUME NEW m \in Node, NEW i \in Item, SendMessage(m, i) PROVE \A v \in Worker : Calm(v)
  <2>1. /\ pc[User(m)] \notin ClaimLabels
        /\ \E l \in {"insert", "enqueue"} : Goto(User(m), l)
        /\ \A v \in Worker \ {User(m)} : item'[v] = item[v]
    BY <1>24, <1>typed DEF SendMessage, ClaimLabels
  <2> QED
    BY <2>1, <1>moves DEF ClaimLabels
<1>25. ASSUME NEW m \in Node, NEW i \in Item, Remove(m, i) PROVE \A v \in Worker : Calm(v)
  <2>1. /\ pc[User(m)] \notin ClaimLabels
        /\ \E l \in {"removed_read"} : Goto(User(m), l)
        /\ \A v \in Worker \ {User(m)} : item'[v] = item[v]
    BY <1>25, <1>typed DEF Remove, ClaimLabels
  <2> QED
    BY <2>1, <1>moves DEF ClaimLabels
<1>26. ASSUME ExecutorLeaves PROVE \A v \in Worker : Calm(v)
  BY <1>26, <1>same DEF ExecutorLeaves
<1>27. ASSUME Tick PROVE \A v \in Worker : Calm(v)
  BY <1>27, <1>same DEF Tick
<1>28. ASSUME UNCHANGED vars PROVE \A v \in Worker : Calm(v)
  BY <1>28, <1>same DEF vars
<1> QED
  BY Workers, <1>1, <1>2, <1>3, <1>4, <1>5, <1>6, <1>7, <1>8, <1>9, <1>10, <1>11,
     <1>12, <1>13, <1>14, <1>15, <1>16, <1>17, <1>18, <1>19, <1>20, <1>21, <1>22,
     <1>23, <1>24, <1>25, <1>26, <1>27, <1>28
  DEF Next, Step, DrainStep, UserStep, SweepStep, TurnStep, Request, Timer, Listen, Fault

\* The turns of the session when no worker, or one, is in its turn, before and
\* after a step.
LEMMA NoTurn ==
    /\ (\A w \in Worker : pc[w] \notin ClaimLabels) => Turns = {}
    /\ (\A w \in Worker : pc'[w] \notin ClaimLabels) => Turns' = {}
  BY TurnLabels DEF Turns, InTurn

LEMMA TheTurn ==
    ASSUME NEW w \in Worker
    PROVE  /\ (/\ pc[w] \in ClaimLabels
               /\ \A v \in Worker \ {w} : pc[v] \notin ClaimLabels) => Turns = {TurnOf(w)}
           /\ (/\ pc'[w] \in ClaimLabels
               /\ \A v \in Worker \ {w} : pc'[v] \notin ClaimLabels) => Turns' = {TurnOf(w)'}
  BY TurnLabels DEF Turns, InTurn, TurnOf

LEMMA CalmTurns ==
    ASSUME \A w \in Worker : Calm(w)
    PROVE  Turns' = Turns
<1>1. ASSUME NEW w \in Worker
      PROVE  /\ InTurn(w)' <=> InTurn(w)
             /\ InTurn(w) => item'[w] = item[w] /\ PhaseOf[pc'[w]] = PhaseOf[pc[w]]
  BY TurnLabels DEF Calm, InTurn
<1> QED
  BY <1>1 DEF Turns

\* While renewals are timely the holder of the lease is the only one in a turn.
LEMMA AloneInTurn ==
    ASSUME LeaseHeld, RenewalsTimely, NEW w \in Worker, Holding(w)
    PROVE  \A v \in Worker \ {w} : pc[v] \notin ClaimLabels
  BY TurnLabels DEF LeaseHeld, Holding

LEMMA NobodyInTurn ==
    ASSUME TypeOK, LeaseHeld, RenewalsTimely, lease.id = NoWorker \/ lease.left < 0
    PROVE  \A v \in Worker : pc[v] \notin ClaimLabels
<1>1. lease.left \in -1..TTL /\ TTL \in Nat
  BY QueueAssumption DEF QueueAssumption, TypeOK
<1> QED
  BY <1>1, TurnLabels, Workers DEF LeaseHeld, Holding

\* What a session notices of the rows.
LEMMA SameRows ==
    ASSUME \A i \in Item : rows'[i].status = rows[i].status /\ rows'[i].retry = rows[i].retry
    PROVE  Stages' = Stages /\ Tries' = Tries
  BY DEF Stages, Tries

LEMMA OneRow ==
    ASSUME NEW i \in Item,
           \A j \in Item \ {i} : rows'[j] = rows[j]
    PROVE  /\ Stages' = [Stages EXCEPT ![i] = StageOf[rows'[i].status]]
           /\ Tries' = [Tries EXCEPT ![i] = rows'[i].retry]
  BY DEF Stages, Tries

LEMMA StageNames ==
    ASSUME TypeOK, NEW i \in Item
    PROVE  /\ Stages[i] = StageOf[rows[i].status] /\ Tries[i] = rows[i].retry
           /\ Stages[i] = "new" <=> rows[i].status = "none"
           /\ Stages[i] = "waiting" <=> rows[i].status = "pending"
           /\ Stages[i] = "taken" <=> rows[i].status = "claimed"
           /\ Stages[i] = "done" <=> rows[i].status = "done"
<1>1. rows[i].status \in Status
  BY DueTyped
<1> QED
  BY <1>1 DEF Stages, Tries, StageOf, Status

LEMMA Stutters ==
    ASSUME Stages' = Stages, Tries' = Tries, Turns' = Turns
    PROVE  [Session!Next]_(Session!vars)
  BY DEF Session!vars

LEMMA Stopped ==
    ASSUME Stages' = Stages, Tries' = Tries, Turns' = {}
    PROVE  Session!Next
  BY DEF Session!Next, Session!Stop

\* A step that starts a direct send, or fails to get the lease.
LEMMA AcquireServes ==
    ASSUME TypeOK, OwnRequest, LeaseHeld, Untried, RenewalsTimely, NEW w \in Worker,
           InsertLease(w) \/ TakeoverLease(w)
    PROVE  [Session!Next]_(Session!vars)
<1> USE Workers
<1>typed. /\ pc \in [Worker -> PC] /\ item \in [Worker -> Item \cup {NoItem}]
          /\ rows \in [Item -> Row] /\ pc[w] \in {"insert", "takeover"}
  BY DEF TypeOK, InsertLease, TakeoverLease
<1>1. CASE rows' = rows /\ pc'[w] \notin ClaimLabels
           /\ \A v \in Worker \ {w} : pc'[v] = pc[v] /\ item'[v] = item[v]
  <2>1. \A v \in Worker : Calm(v)
    BY <1>1, <1>typed DEF Calm, ClaimLabels
  <2> QED
    BY <1>1, <2>1, CalmTurns, SameRows, Stutters
<1>2. CASE /\ lease.id = NoWorker \/ lease.left < 0
           /\ w[2] = "user" /\ Goto(w, "run") /\ item' = item
           /\ rows' = [rows EXCEPT ![item[w]] = Gone("gone")]
  <2>1. PICK n \in Node : w = User(n)
    BY <1>2 DEF Worker
  <2>2. PICK i \in Item : i = item[w] /\ rows[i].status = "none"
    BY <1>typed, <2>1 DEF OwnRequest, Asking
  <2>3. \A v \in Worker : pc[v] \notin ClaimLabels
    BY <1>2, NobodyInTurn
  <2>4. Turns = {}
    BY <2>3, NoTurn
  <2>5. pc'[w] = "run" /\ \A v \in Worker \ {w} : pc'[v] \notin ClaimLabels
    BY <1>2, <1>typed, <2>3 DEF Goto
  <2>6. Turns' = {Session!At(i, "running")}
    <3>1. TurnOf(w)' = Session!At(i, "running")
      BY <1>2, <2>2, <2>5 DEF TurnOf, PhaseOf, Session!At
    <3> QED
      BY <2>5, <3>1, TheTurn DEF ClaimLabels
  <2>7. rows'[i] = Gone("gone") /\ \A j \in Item \ {i} : rows'[j] = rows[j]
    BY <1>2, <1>typed, <2>2
  <2>8. Stages' = [Stages EXCEPT ![i] = "left"] /\ Tries' = Tries
    <3>1. /\ Stages' = [Stages EXCEPT ![i] = StageOf["gone"]]
          /\ Tries' = [Tries EXCEPT ![i] = 0]
      BY <2>7, OneRow DEF Gone, Unclaimed
    <3>2. StageOf["gone"] = "left"
      BY DEF StageOf
    <3>3. Tries[i] = 0
      BY <2>2 DEF Untried, Tries
    <3>4. Tries' = Tries
      BY <3>1, <3>3 DEF Tries
    <3> QED
      BY <3>1, <3>2, <3>4
  <2>9. Stages[i] = "new"
    BY <2>2, StageNames
  <2>10. Session!SendAtOnce(i)
    BY <2>4, <2>6, <2>8, <2>9 DEF Session!SendAtOnce
  <2> QED
    BY <2>10 DEF Session!Next
<1>3. CASE DrainReturns(w[1]) /\ w = Drain(w[1]) /\ rows' = rows
  <2>1. /\ pc'[w] \in {"head", "idle"}
        /\ \A v \in Worker \ {w} : pc'[v] = pc[v] /\ item'[v] = item[v]
    BY <1>3, <1>typed DEF DrainReturns
  <2> QED
    BY <1>1, <1>3, <2>1 DEF ClaimLabels
<1>4. CASE (\E l \in {"takeover", "enqueue", "check"} : Goto(w, l)) /\ item' = item /\ rows' = rows
  BY <1>1, <1>4, <1>typed DEF Goto, ClaimLabels
<1> QED
  BY <1>2, <1>3, <1>4 DEF InsertLease, TakeoverLease, Acquired, db, Worker

\* A drain loop that claims takes the oldest message while nobody is in a turn.
LEMMA ClaimServes ==
    ASSUME TypeOK, LeaseHeld, RenewalsTimely, NEW n \in Node, Claim(n)
    PROVE  [Session!Next]_(Session!vars)
<1> DEFINE w == Drain(n)
<1> USE Workers
<1>typed. /\ pc \in [Worker -> PC] /\ rows \in [Item -> Row]
          /\ pc[w] = "claim" /\ item' = item
  BY DEF TypeOK, Claim
<1>alone. \A v \in Worker : pc[v] \notin ClaimLabels
  <2>1. Holding(w) /\ pc[w] \notin ClaimLabels
    BY <1>typed, HoldingLabels DEF Holding, ClaimLabels
  <2> QED
    BY <2>1, AloneInTurn
<1>1. CASE rows' = rows /\ Goto(w, "missed_read")
  <2>1. \A v \in Worker : pc'[v] \notin ClaimLabels
    BY <1>1, <1>typed, <1>alone DEF Goto, ClaimLabels
  <2> QED
    BY <1>1, <1>alone, <2>1, NoTurn, SameRows, Stutters
<1>2. CASE /\ IsHead(item[w], Pending) /\ Goto(w, "claimed_read")
           /\ rows' = [rows EXCEPT ![item[w]] =
                          [@ EXCEPT !.status = "claimed", !.claim = w, !.left = TTL]]
  <2>1. PICK i \in Item : /\ i = item[w] /\ rows[i].status = "pending"
                          /\ \A j \in Item : rows[j].status = "pending" => i <= j
    BY <1>2 DEF IsHead, Pending
  <2>2. /\ rows'[i].status = "claimed" /\ rows'[i].retry = rows[i].retry
        /\ \A j \in Item \ {i} : rows'[j] = rows[j]
    <3>1. rows'[i] = [rows[i] EXCEPT !.status = "claimed", !.claim = w, !.left = TTL]
          /\ \A j \in Item \ {i} : rows'[j] = rows[j]
      BY <1>2, <1>typed, <2>1
    <3>2. rows[i] \in Row
      BY <1>typed
    <3> QED
      BY <3>1, <3>2 DEF Row
  <2>3. Turns = {}
    BY <1>alone, NoTurn
  <2>4. Turns' = {Session!At(i, "taken")}
    <3>1. pc'[w] = "claimed_read" /\ \A v \in Worker \ {w} : pc'[v] \notin ClaimLabels
      BY <1>2, <1>typed, <1>alone DEF Goto
    <3>2. TurnOf(w)' = Session!At(i, "taken")
      BY <1>typed, <2>1, <3>1 DEF TurnOf, PhaseOf, Session!At
    <3> QED
      BY <3>1, <3>2, TheTurn DEF ClaimLabels
  <2>5. Stages' = [Stages EXCEPT ![i] = "taken"] /\ Tries' = Tries
    <3>1. /\ Stages' = [Stages EXCEPT ![i] = StageOf["claimed"]]
          /\ Tries' = [Tries EXCEPT ![i] = rows[i].retry]
      BY <2>2, OneRow
    <3> QED
      BY <3>1 DEF StageOf, Tries
  <2>6. /\ Stages[i] = "waiting"
        /\ \A j \in Item : Stages[j] = "waiting" => i <= j
    BY <2>1, StageNames
  <2>7. Session!Take(i)
    BY <2>3, <2>4, <2>5, <2>6 DEF Session!Take
  <2> QED
    BY <2>7 DEF Session!Next
<1> QED
  BY <1>1, <1>2 DEF Claim

\* The worker in its turn goes on to another phase of it.
LEMMA Advances ==
    ASSUME TypeOK, LeaseHeld, RenewalsTimely, NEW w \in Worker, NEW l, Goto(w, l),
           item' = item, rows' = rows, item[w] \in Item,
           \/ pc[w] = "claimed" /\ l \in {"run", "refund"}
           \/ pc[w] = "claimed" /\ l = "abandon" /\ item[w] \in WithTaskRun
           \/ pc[w] = "run" /\ l \in {"complete", "release"}
    PROVE  Session!Next
<1> DEFINE i == item[w]
<1>typed. pc \in [Worker -> PC]
  BY DEF TypeOK
<1>1. pc[w] \in ClaimLabels /\ pc'[w] = l /\ l \in ClaimLabels
  BY <1>typed DEF Goto, ClaimLabels
<1>2. \A v \in Worker \ {w} : pc[v] \notin ClaimLabels /\ pc'[v] \notin ClaimLabels
  BY <1>1, <1>typed, AloneInTurn, TurnLabels DEF Goto, Holding
<1>3. Turns = {Session!At(i, PhaseOf[pc[w]])}
  <2>1. TurnOf(w) = Session!At(i, PhaseOf[pc[w]])
    BY DEF TurnOf, Session!At
  <2> QED
    BY <1>1, <1>2, <2>1, TheTurn
<1>4. Turns' = {Session!At(i, PhaseOf[l])}
  <2>1. TurnOf(w)' = Session!At(i, PhaseOf[l])
    BY <1>1 DEF TurnOf, Session!At
  <2> QED
    BY <1>1, <1>2, <2>1, TheTurn
<1>5. Stages' = Stages /\ Tries' = Tries
  BY SameRows
<1>6. /\ PhaseOf["claimed"] = "taken" /\ PhaseOf["run"] = "running"
      /\ PhaseOf["refund"] = "failed" /\ PhaseOf["abandon"] = "abandoned"
      /\ PhaseOf["complete"] = "succeeded" /\ PhaseOf["release"] = "failed"
  BY DEF PhaseOf
<1>7. Session!Advance(i)
  <2>1. CASE pc[w] = "claimed" /\ l \in {"run", "refund"}
    BY <1>3, <1>4, <1>5, <1>6, <2>1 DEF Session!Advance
  <2>2. CASE pc[w] = "claimed" /\ l = "abandon" /\ i \in WithTaskRun
    BY <1>3, <1>4, <1>5, <1>6, <2>2 DEF Session!Advance
  <2>3. CASE pc[w] = "run" /\ l \in {"complete", "release"}
    BY <1>3, <1>4, <1>5, <1>6, <2>3 DEF Session!Advance
  <2> QED
    BY <2>1, <2>2, <2>3
<1> QED
  BY <1>7 DEF Session!Next

\* The worker in its turn leaves it, and nobody else is in one.
LEMMA LeavesTurn ==
    ASSUME TypeOK, LeaseHeld, RenewalsTimely, NEW w \in Worker, NEW l, Goto(w, l),
           pc[w] \in ClaimLabels, l \notin ClaimLabels
    PROVE  /\ Turns = {Session!At(item[w], PhaseOf[pc[w]])}
           /\ Turns' = {}
<1>typed. pc \in [Worker -> PC]
  BY DEF TypeOK
<1>1. \A v \in Worker \ {w} : pc[v] \notin ClaimLabels
  BY AloneInTurn, TurnLabels DEF Holding
<1>2. \A v \in Worker : pc'[v] \notin ClaimLabels
  BY <1>1, <1>typed DEF Goto
<1> QED
  BY <1>1, <1>2, NoTurn, TheTurn DEF TurnOf, Session!At

LEMMA TurnServes ==
    ASSUME TypeOK, LeaseHeld, Budget, RenewalsTimely, TurnsTimely, NEW w \in Worker,
           TurnSucceeds(w) \/ TurnThrows(w)
    PROVE  Session!Next
<1> USE Workers
<1>1. pc[w] = "run" /\ item' = item /\ rows' = rows
  BY DEF TurnSucceeds, TurnThrows, db
<1>2. CASE w[2] = "drain" /\ \E l \in {"complete", "release"} : Goto(w, l)
  <2>1. PICK n \in Node : w = Drain(n)
    BY <1>2 DEF Worker
  <2>2. item[w] \in Item
    BY <1>1, <2>1, AtHas DEF At, ClaimLabels
  <2> QED
    BY <1>1, <1>2, <2>2, Advances
<1>3. CASE Goto(w, "unlock_done")
  <2>1. Turns' = {}
    BY <1>1, <1>3, LeavesTurn DEF ClaimLabels
  <2>2. Stages' = Stages /\ Tries' = Tries
    BY <1>1, SameRows
  <2> QED
    BY <2>1, <2>2, Stopped
<1> QED
  BY <1>2, <1>3 DEF TurnSucceeds, TurnThrows

LEMMA ConfigureServes ==
    ASSUME TypeOK, LeaseHeld, Budget, RenewalsTimely, TurnsTimely, NEW n \in Node, Configure(n)
    PROVE  Session!Next
<1> USE Workers
<1>1. /\ pc[Drain(n)] = "claimed" /\ item' = item /\ rows' = rows
      /\ \E l \in {"run", "abandon", "refund"} :
            Goto(Drain(n), l) /\ (l = "abandon" => item[Drain(n)] \in WithTaskRun)
  BY DEF Configure, db
<1>2. item[Drain(n)] \in Item
  BY <1>1, AtHas DEF At, ClaimLabels
<1> QED
  BY <1>1, <1>2, Advances

\* A drain loop that settles its claim, or finds that a user has removed it.
LEMMA SettleServes ==
    ASSUME TypeOK, LeaseHeld, Budget, RenewalsTimely, TurnsTimely, NEW n \in Node,
           Complete(n) \/ Release(n)
    PROVE  Session!Next
<1> DEFINE w == Drain(n)
<1> USE Workers
<1>typed. pc \in [Worker -> PC] /\ rows \in [Item -> Row]
  BY DEF TypeOK
<1>labels. /\ pc[w] \in ClaimLabels
           /\ \E l : Goto(w, l) /\ l \notin ClaimLabels
  <2>1. ASSUME Complete(n)
        PROVE  pc[w] \in ClaimLabels /\ \E l \in {"completed_read", "abandoned_read"} : Goto(w, l)
    BY <2>1 DEF Complete, ClaimLabels
  <2>2. ASSUME Release(n)
        PROVE  pc[w] \in ClaimLabels /\ \E l \in {"unlock_failed", "unlock_stop"} : Goto(w, l)
    BY <2>2 DEF Release, ReleaseTo, ClaimLabels
  <2> QED
    BY <2>1, <2>2 DEF ClaimLabels
<1>turns. Turns = {Session!At(item[w], PhaseOf[pc[w]])} /\ Turns' = {}
  BY <1>labels, LeavesTurn
<1>has. PICK i \in Item : i = item[w]
  BY <1>labels, AtHas DEF At
<1>1. CASE ~Claimed(i, w)
  <2>1. rows' = rows
    BY <1>1, <1>has DEF Complete, Release, ReleaseTo
  <2> QED
    BY <1>turns, <2>1, SameRows, Stopped
<1>2. CASE Claimed(i, w)
  <2>taken. Stages[i] = "taken" /\ Tries[i] = rows[i].retry /\ rows[i].retry \in 0..MaxRetries
            /\ MaxRetries \in Nat
    BY <1>2, StageNames, DueTyped DEF Claimed
  <2>names. StageOf["done"] = "done" /\ StageOf["gone"] = "left" /\ StageOf["pending"] = "waiting"
    BY DEF StageOf
  <2>1. ASSUME Complete(n)
        PROVE  \E p \in {"succeeded", "abandoned"} : Session!Settle(i, p)
    <3>1. rows'[i] = Gone("done") /\ \A j \in Item \ {i} : rows'[j] = rows[j]
      BY <1>typed, <1>has, <1>2, <2>1 DEF Complete
    <3>2. Stages' = [Stages EXCEPT ![i] = "done"] /\ Tries' = [Tries EXCEPT ![i] = 0]
      BY <3>1, <2>names, OneRow DEF Gone, Unclaimed
    <3>3. PhaseOf[pc[w]] \in {"succeeded", "abandoned"}
      BY <2>1 DEF Complete, PhaseOf
    <3> QED
      BY <1>turns, <1>has, <2>taken, <3>2, <3>3 DEF Session!Settle
  <2>2. ASSUME Release(n)
        PROVE  Session!Settle(i, "failed")
    <3>1. PhaseOf[pc[w]] = "failed"
      BY <2>2 DEF Release, ReleaseTo, PhaseOf
    <3>2. /\ rows'[i] = IF rows[i].retry + 1 > MaxRetries THEN Gone("gone")
                        ELSE Unclaimed("pending", rows[i].retry + 1)
          /\ \A j \in Item \ {i} : rows'[j] = rows[j]
      BY <1>typed, <1>has, <1>2, <2>2 DEF Release, ReleaseTo
    <3>3. CASE rows[i].retry + 1 > MaxRetries
      <4>1. Stages' = [Stages EXCEPT ![i] = "left"] /\ Tries' = [Tries EXCEPT ![i] = 0]
        BY <3>2, <3>3, <2>names, OneRow DEF Gone, Unclaimed
      <4>2. Tries[i] = MaxRetries
        BY <3>3, <2>taken
      <4> QED
        BY <1>turns, <1>has, <2>taken, <3>1, <4>1, <4>2 DEF Session!Settle
    <3>4. CASE ~(rows[i].retry + 1 > MaxRetries)
      <4>1. /\ Stages' = [Stages EXCEPT ![i] = "waiting"]
            /\ Tries' = [Tries EXCEPT ![i] = rows[i].retry + 1]
        BY <3>2, <3>4, <2>names, OneRow DEF Unclaimed
      <4>2. Tries[i] < MaxRetries
        BY <3>4, <2>taken
      <4>3. Tries' = [Tries EXCEPT ![i] = Tries[i] + 1]
        BY <4>1, <2>taken
      <4> QED
        BY <1>turns, <1>has, <2>taken, <3>1, <4>1, <4>2, <4>3 DEF Session!Settle
    <3> QED
      BY <3>3, <3>4
  <2> QED
    BY <2>1, <2>2 DEF Session!Next
<1> QED
  BY <1>1, <1>2

LEMMA CrashServes ==
    ASSUME TypeOK, LeaseHeld, RenewalsTimely, NEW n \in Node, Crash(n)
    PROVE  [Session!Next]_(Session!vars)
<1> USE Workers
<1>1. Stages' = Stages /\ Tries' = Tries
  BY SameRows DEF Crash, db
<1>2. \A v \in Worker : \/ pc'[v] \notin ClaimLabels
                        \/ pc'[v] = pc[v] /\ item'[v] = item[v]
  BY DEF Crash, ClaimLabels
<1>3. CASE \A v \in Worker : pc'[v] \notin ClaimLabels
  BY <1>1, <1>3, NoTurn, Stopped
<1>4. CASE \E w \in Worker : pc'[w] \in ClaimLabels
  <2>1. PICK w \in Worker : pc'[w] \in ClaimLabels
    BY <1>4
  <2>2. pc[w] \in ClaimLabels /\ pc'[w] = pc[w] /\ item'[w] = item[w]
    BY <1>2, <2>1
  <2>3. \A v \in Worker \ {w} : pc[v] \notin ClaimLabels /\ pc'[v] \notin ClaimLabels
    BY <1>2, <2>2, AloneInTurn, TurnLabels DEF Holding
  <2>4. Turns' = Turns
    BY <2>1, <2>2, <2>3, TheTurn DEF TurnOf
  <2> QED
    BY <1>1, <2>4, Stutters
<1> QED
  BY <1>3, <1>4

LEMMA EnqueueServes ==
    ASSUME TypeOK, OwnRequest, Untried, NEW n \in Node, Enqueue(User(n)),
           \A w \in Worker : Calm(w)
    PROVE  [Session!Next]_(Session!vars)
<1> USE Workers
<1>1. CASE rows' = rows
  BY <1>1, CalmTurns, SameRows, Stutters
<1>2. CASE rows' = [rows EXCEPT ![item[User(n)]] = Unclaimed("pending", 0)]
  <2>1. PICK i \in Item : i = item[User(n)] /\ rows[i].status = "none"
    BY DEF OwnRequest, Asking, Enqueue
  <2>2. rows'[i] = Unclaimed("pending", 0) /\ \A j \in Item \ {i} : rows'[j] = rows[j]
    BY <1>2, <2>1 DEF TypeOK
  <2>3. Stages' = [Stages EXCEPT ![i] = "waiting"] /\ Tries' = [Tries EXCEPT ![i] = 0]
    BY <2>2, OneRow DEF Unclaimed, StageOf
  <2>4. Tries' = Tries
    BY <2>1, <2>3 DEF Tries, Untried
  <2>5. Session!Enter(i)
    BY <2>1, <2>3, <2>4, StageNames, CalmTurns DEF Session!Enter
  <2> QED
    BY <2>5 DEF Session!Next
<1> QED
  BY <1>1, <1>2 DEF Enqueue

\* A duplicate is refused, or a user removes a message: its row is gone.
LEMMA LeaveServes ==
    ASSUME TypeOK, NEW i \in Item, rows[i].status # "done",
           rows' = [rows EXCEPT ![i] = Gone("gone")], \A w \in Worker : Calm(w)
    PROVE  Session!Next
<1>1. rows'[i] = Gone("gone") /\ \A j \in Item \ {i} : rows'[j] = rows[j]
  BY DEF TypeOK
<1>2. Stages' = [Stages EXCEPT ![i] = "left"] /\ Tries' = [Tries EXCEPT ![i] = 0]
  BY <1>1, OneRow DEF Gone, Unclaimed, StageOf
<1>3. Session!Leave(i)
  BY <1>2, StageNames, CalmTurns DEF Session!Leave
<1> QED
  BY <1>3 DEF Session!Next

\* The sweep puts back claims that nobody is in a turn for.
LEMMA SweepServes ==
    ASSUME TypeOK, Budget, Senders, TurnsTimely, NEW n \in Node, SweepClaims(n),
           \A w \in Worker : Calm(w)
    PROVE  Session!Next
<1> USE Workers
<1>1. Turns' = Turns
  BY CalmTurns
<1>2. ASSUME NEW i \in Expired, NEW w \in Worker, pc[w] \in ClaimLabels, item[w] = i PROVE FALSE
  <2>1. i \in Item /\ rows[i].status = "claimed" /\ rows[i].left < 0
    BY <1>2 DEF Expired
  <2>2. w[2] = "drain"
    BY <1>2, <2>1 DEF Senders
  <2>3. PICK m \in Node : w = Drain(m)
    BY <2>2 DEF Worker
  <2>4. rows[i].left >= 0
    BY <1>2, <2>1, <2>3, AtHas DEF At
  <2> QED
    BY <2>1, <2>4, DueTyped
<1>3. \A i \in Expired : Stages[i] = "taken" /\ \A s \in Turns : s.item # i
  <2>1. ASSUME NEW i \in Expired PROVE Stages[i] = "taken"
    BY StageNames DEF Expired
  <2>2. ASSUME NEW i \in Expired, NEW s \in Turns PROVE s.item # i
    <3>1. PICK w \in Worker : pc[w] \in ClaimLabels /\ s = TurnOf(w)
      BY TurnLabels DEF Turns, InTurn, TurnOf
    <3>2. s.item = item[w]
      BY <3>1 DEF TurnOf
    <3> QED
      BY <1>2, <3>1, <3>2
  <2> QED
    BY <2>1, <2>2
<1>4. /\ Stages' = [i \in Item |-> IF i \in Expired THEN "waiting" ELSE Stages[i]]
      /\ Tries' = Tries
  <2>1. \A i \in Item : rows'[i] = IF i \in Expired THEN Unclaimed("pending", rows[i].retry + 0)
                                   ELSE rows[i]
    BY DEF SweepClaims, SweepTo
  <2>2. \A i \in Item : rows[i].retry + 0 = rows[i].retry
    BY DueTyped
  <2>3. ASSUME NEW i \in Expired
        PROVE  rows'[i].status = "pending" /\ rows'[i].retry = rows[i].retry
    <3>1. i \in Item
      BY DEF Expired
    <3>2. rows'[i] = Unclaimed("pending", rows[i].retry)
      BY <2>1, <2>2, <3>1
    <3> QED
      BY <3>2 DEF Unclaimed
  <2>4. StageOf["pending"] = "waiting"
    BY DEF StageOf
  <2>5. Stages' = [i \in Item |-> IF i \in Expired THEN "waiting" ELSE Stages[i]]
    BY <2>1, <2>3, <2>4 DEF Stages
  <2>6. Tries' = Tries
    BY <2>1, <2>3 DEF Tries
  <2> QED
    BY <2>5, <2>6
<1>5. Expired \in SUBSET Item
  BY DEF Expired
<1>6. Session!PutBack(Expired)
  BY <1>1, <1>3, <1>4 DEF Session!PutBack
<1> QED
  BY <1>5, <1>6 DEF Session!Next

LEMMA TickServes ==
    ASSUME TypeOK, Tick
    PROVE  [Session!Next]_(Session!vars)
<1>1. \A i \in Item : rows'[i].status = rows[i].status /\ rows'[i].retry = rows[i].retry
  <2> SUFFICES ASSUME NEW i \in Item
               PROVE  rows'[i].status = rows[i].status /\ rows'[i].retry = rows[i].retry
    OBVIOUS
  <2>1. rows'[i] = [rows[i] EXCEPT !.left = Older(@)] /\ rows[i] \in Row
    BY DEF Tick, TypeOK
  <2> QED
    BY <2>1 DEF Row
<1>2. Turns' = Turns
  BY DEF Tick, Turns, InTurn
<1> QED
  BY <1>1, <1>2, SameRows, Stutters

\* Every step is a step of the session or changes nothing that it shows.
LEMMA ServesStep ==
    ASSUME TypeOK, OwnRequest, LeaseHeld, Budget, Untried, Senders,
           RenewalsTimely, TurnsTimely, [Next]_vars
    PROVE  [Session!Next]_(Session!vars)
<1> USE Workers
<1>acquire. ASSUME NEW w \in Worker, InsertLease(w) \/ TakeoverLease(w)
            PROVE  [Session!Next]_(Session!vars)
  BY <1>acquire, AcquireServes
<1>claim. ASSUME NEW n \in Node, Claim(n) PROVE [Session!Next]_(Session!vars)
  BY <1>claim, ClaimServes
<1>settle. ASSUME NEW n \in Node, Complete(n) \/ Release(n) PROVE [Session!Next]_(Session!vars)
  BY <1>settle, SettleServes
<1>turn. CASE \/ \E w \in Worker : TurnSucceeds(w) \/ TurnThrows(w)
              \/ \E n \in Node : Configure(n) \/ Crash(n)
  BY <1>turn, TurnServes, ConfigureServes, CrashServes
<1>calm. CASE \A w \in Worker : Calm(w)
  <2>1. CASE rows' = rows
    BY <1>calm, <2>1, CalmTurns, SameRows, Stutters
  <2>2. ASSUME NEW n \in Node, Enqueue(User(n)) PROVE [Session!Next]_(Session!vars)
    BY <1>calm, <2>2, EnqueueServes
  <2>3. ASSUME NEW n \in Node, Lookup(User(n)), rows' # rows PROVE [Session!Next]_(Session!vars)
    <3>1. PICK i \in Item : i = item[User(n)] /\ rows[i].status = "none"
      BY <2>3 DEF OwnRequest, Asking, Lookup
    <3>2. rows' = [rows EXCEPT ![i] = Gone("gone")]
      BY <2>3, <3>1 DEF Lookup
    <3> QED
      BY <1>calm, <3>1, <3>2, LeaveServes
  <2>4. ASSUME NEW n \in Node, NEW i \in Item, Remove(n, i) PROVE [Session!Next]_(Session!vars)
    <3>1. rows[i].status # "done" /\ rows' = [rows EXCEPT ![i] = Gone("gone")]
      BY <2>4 DEF Remove, Live
    <3> QED
      BY <1>calm, <3>1, LeaveServes
  <2>5. ASSUME NEW n \in Node, SweepClaims(n) PROVE [Session!Next]_(Session!vars)
    BY <1>calm, <2>5, SweepServes
  <2> QED
    BY RowWriters, TickServes, <1>acquire, <1>claim, <1>settle, <2>1, <2>2, <2>3, <2>4, <2>5
<1> QED
  BY CalmWorkers, <1>acquire, <1>claim, <1>settle, <1>turn, <1>calm

\* What becomes of a row: one that a message left the queue with stays, and no step
\* makes a row that was never inserted but the initial one.
LEMMA RowsAge ==
    ASSUME TypeOK, OwnRequest, [Next]_vars, NEW i \in Item
    PROVE  /\ rows[i].status = "gone" => rows'[i].status = "gone"
           /\ rows'[i].status = "none" => rows[i].status = "none" /\ rows'[i].retry = rows[i].retry
<1> DEFINE Aged == /\ rows[i].status = "gone" => rows'[i].status = "gone"
                   /\ rows'[i].status = "none" =>
                        rows[i].status = "none" /\ rows'[i].retry = rows[i].retry
<1> USE Workers
<1>typed. rows \in [Item -> Row] /\ rows[i] \in Row
  BY DEF TypeOK
<1>gone. ASSUME rows'[i] = Gone("gone") PROVE Aged
  BY <1>gone DEF Gone, Unclaimed
<1>same. ASSUME rows'[i] = rows[i] PROVE Aged
  BY <1>same
<1>wrote. ASSUME rows[i].status # "gone", rows'[i].status # "none" PROVE Aged
  BY <1>wrote
<1>1. ASSUME NEW w \in Worker, InsertLease(w) \/ TakeoverLease(w) PROVE Aged
  BY <1>1, <1>typed, <1>gone, <1>same DEF InsertLease, TakeoverLease, Acquired, db
<1>2. ASSUME NEW n \in Node, Enqueue(User(n)) PROVE Aged
  <2>1. item[User(n)] = i => rows[i].status = "none"
    BY <1>2 DEF Enqueue, OwnRequest, Asking
  <2>2. rows'[i] = rows[i] \/ (item[User(n)] = i /\ rows'[i] = Unclaimed("pending", 0))
    BY <1>2, <1>typed DEF Enqueue
  <2> QED
    BY <2>1, <2>2, <1>same, <1>wrote DEF Unclaimed
<1>3. ASSUME NEW n \in Node, Lookup(User(n)) PROVE Aged
  BY <1>3, <1>typed, <1>gone, <1>same DEF Lookup
<1>4. ASSUME NEW n \in Node, Claim(n) PROVE Aged
  <2>1. \/ rows'[i] = rows[i]
        \/ /\ rows[i].status = "pending"
           /\ rows'[i] = [rows[i] EXCEPT !.status = "claimed", !.claim = Drain(n), !.left = TTL]
    BY <1>4, <1>typed DEF Claim, IsHead, Pending
  <2>2. [rows[i] EXCEPT !.status = "claimed", !.claim = Drain(n), !.left = TTL].status = "claimed"
    BY <1>typed DEF Row
  <2> QED
    BY <2>1, <2>2, <1>same, <1>wrote
<1>5. ASSUME NEW n \in Node, Complete(n) PROVE Aged
  <2>1. rows'[i] = rows[i] \/ (rows[i].status = "claimed" /\ rows'[i] = Gone("done"))
    BY <1>5, <1>typed DEF Complete, Claimed
  <2> QED
    BY <2>1, <1>same, <1>wrote DEF Gone, Unclaimed
<1>6. ASSUME NEW n \in Node, Release(n) PROVE Aged
  <2>1. \/ rows'[i] = rows[i]
        \/ rows[i].status = "claimed" /\ rows'[i] = Gone("gone")
        \/ rows[i].status = "claimed" /\ rows'[i] = Unclaimed("pending", rows[i].retry + 1)
    BY <1>6, <1>typed DEF Release, ReleaseTo, Claimed
  <2> QED
    BY <2>1, <1>same, <1>wrote DEF Gone, Unclaimed
<1>7. ASSUME NEW n \in Node, SweepClaims(n) PROVE Aged
  <2>1. \/ rows'[i] = rows[i]
        \/ rows[i].status = "claimed" /\ rows'[i] = Unclaimed("pending", rows[i].retry + 0)
    BY <1>7 DEF SweepClaims, SweepTo, Expired
  <2> QED
    BY <2>1, <1>same, <1>wrote DEF Unclaimed
<1>8. ASSUME NEW n \in Node, NEW j \in Item, Remove(n, j) PROVE Aged
  BY <1>8, <1>typed, <1>gone, <1>same DEF Remove
<1>9. ASSUME Tick PROVE Aged
  <2>1. rows'[i] = [rows[i] EXCEPT !.left = Older(@)]
    BY <1>9 DEF Tick
  <2> QED
    BY <2>1, <1>typed DEF Row
<1>10. ASSUME rows' = rows PROVE Aged
  BY <1>10
<1> QED
  BY RowWriters, <1>1, <1>2, <1>3, <1>4, <1>5, <1>6, <1>7, <1>8, <1>9, <1>10

LEMMA SendersStep ==
    TypeOK /\ OwnRequest /\ Senders /\ [Next]_vars => Senders'
<1> SUFFICES ASSUME TypeOK, OwnRequest, Senders, [Next]_vars,
                    NEW w \in Worker, pc'[w] \in ClaimLabels
             PROVE  \/ w[2] = "drain"
                    \/ w[2] = "user" /\ item'[w] \in Item /\ rows'[item'[w]].status = "gone"
  BY DEF Senders
<1> USE Workers
<1>typed. pc \in [Worker -> PC] /\ rows \in [Item -> Row]
  BY DEF TypeOK
<1>kept. ASSUME pc[w] \in ClaimLabels, item'[w] = item[w]
         PROVE  \/ w[2] = "drain"
                \/ w[2] = "user" /\ item'[w] \in Item /\ rows'[item'[w]].status = "gone"
  BY <1>kept, RowsAge DEF Senders
<1>1. CASE \A v \in Worker : Calm(v)
  BY <1>1, <1>kept DEF Calm
<1>2. ASSUME NEW v \in Worker, v # w, NEW l, Goto(v, l), item' = item
      PROVE  \/ w[2] = "drain"
             \/ w[2] = "user" /\ item'[w] \in Item /\ rows'[item'[w]].status = "gone"
  BY <1>2, <1>kept, <1>typed DEF Goto
<1>3. ASSUME NEW v \in Worker, InsertLease(v) \/ TakeoverLease(v)
      PROVE  \/ w[2] = "drain"
             \/ w[2] = "user" /\ item'[w] \in Item /\ rows'[item'[w]].status = "gone"
  <2>1. CASE DrainReturns(v[1]) /\ v = Drain(v[1])
    <3>1. v # w => pc'[w] = pc[w] /\ item'[w] = item[w]
      BY <2>1, <1>typed DEF DrainReturns, TypeOK
    <3> QED
      BY <2>1, <3>1, <1>kept
  <2>2. CASE (\E l : Goto(v, l)) /\ item' = item
    <3>1. CASE v # w
      BY <2>2, <3>1, <1>2
    <3>2. CASE v = w
      <4>1. pc[w] \in {"insert", "takeover"}
        BY <1>3, <3>2 DEF InsertLease, TakeoverLease
      <4>2. \/ w[2] = "drain"
            \/ w[2] = "user" /\ rows' = [rows EXCEPT ![item[w]] = Gone("gone")]
        BY <1>3, <2>2, <3>2, <1>typed
        DEF InsertLease, TakeoverLease, Acquired, Goto, ClaimLabels, Worker
      <4>3. ASSUME w[2] = "user" PROVE item[w] \in Item
        <5>1. PICK n \in Node : w = User(n)
          BY <4>3 DEF Worker
        <5> QED
          BY <4>1, <5>1 DEF OwnRequest, Asking
      <4> QED
        BY <2>2, <4>2, <4>3, <1>typed DEF Gone, Unclaimed
    <3> QED
      BY <3>1, <3>2
  <2> QED
    BY <1>3, <2>1, <2>2 DEF InsertLease, TakeoverLease, Acquired, Worker
<1>4. ASSUME NEW v \in Worker, TurnSucceeds(v) \/ TurnThrows(v)
      PROVE  \/ w[2] = "drain"
             \/ w[2] = "user" /\ item'[w] \in Item /\ rows'[item'[w]].status = "gone"
  BY <1>4, <1>kept, <1>typed DEF TurnSucceeds, TurnThrows, Goto, ClaimLabels
<1>5. ASSUME NEW n \in Node, Claim(n) \/ Configure(n) \/ Complete(n) \/ Release(n)
      PROVE  \/ w[2] = "drain"
             \/ w[2] = "user" /\ item'[w] \in Item /\ rows'[item'[w]].status = "gone"
  <2>1. (\E l : Goto(Drain(n), l)) /\ item' = item
    BY <1>5 DEF Claim, Configure, Complete, Release, ReleaseTo
  <2>2. CASE w # Drain(n)
    BY <2>1, <2>2, <1>2
  <2> QED
    BY <2>2
<1>6. ASSUME NEW n \in Node, Crash(n)
      PROVE  \/ w[2] = "drain"
             \/ w[2] = "user" /\ item'[w] \in Item /\ rows'[item'[w]].status = "gone"
  BY <1>6, <1>kept DEF Crash, ClaimLabels
<1> QED
  BY CalmWorkers, <1>1, <1>3, <1>4, <1>5, <1>6

\* While leases are renewed and turns end in time, the rows, claims, leases, mirrors
\* and drain loops of all nodes implement SessionQueue, for any nodes, messages, users'
\* requests and crashes: one message at a time is worked on, the oldest one first; it
\* is settled by the one that works on it, put back only when nobody does, and what has
\* left the queue stays out of it.
THEOREM Implements ==
    ASSUME RenewalsTimely, TurnsTimely
    PROVE  Spec => ServesSession
<1>1. Init => Session!Init
  <2> SUFFICES ASSUME Init PROVE Session!Init
    OBVIOUS
  <2>1. /\ \A i \in Item : rows[i].status = "none" /\ rows[i].retry = 0
        /\ \A w \in Worker : pc[w] \notin ClaimLabels
    BY DEF Init, Gone, Unclaimed, ClaimLabels
  <2>2. Stages = [i \in Item |-> "new"] /\ Tries = [i \in Item |-> 0]
    BY <2>1 DEF Stages, Tries, StageOf
  <2> QED
    BY <2>1, <2>2, NoTurn DEF Session!Init
<1>2. Init => LeaseHeld
  BY HoldingLabels DEF Init, LeaseHeld, Holding
<1>3. Init => Untried /\ Senders
  BY DEF Init, Untried, Senders, Gone, Unclaimed, ClaimLabels
<1>4. TypeOK /\ OwnRequest /\ Untried /\ [Next]_vars => Untried'
  BY RowsAge DEF Untried
<1>5. /\ TypeOK /\ OwnRequest /\ LeaseHeld /\ Budget /\ Untried /\ Senders
      /\ [Next]_vars
      => [Session!Next]_(Session!vars)
  BY ServesStep
<1> QED
  BY <1>1, <1>2, <1>3, <1>4, <1>5, TypeInit, BudgetInit, TypeStep, RequestStep, HeldStep,
     BudgetStep, SendersStep, PTL
  DEF Spec, ServesSession, Session!Spec
=============================================================================
