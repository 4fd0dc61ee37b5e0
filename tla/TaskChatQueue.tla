---------------------------- MODULE TaskChatQueue ----------------------------
(***************************************************************************)
(* The multi-node task chat queue of one chat session: the Postgres rows   *)
(* of task_chat_queue_items and task_chat_session_leases, the per-node     *)
(* read mirror, the drain loop of every control-plane node, the handlers   *)
(* that send or remove a message, the renewal timer of a running turn, the *)
(* sweep of expired claims and the mirror refresh that storage-change      *)
(* events cause.                                                           *)
(*                                                                         *)
(* Every statement the code sends to Postgres is one step, and so is every *)
(* run of JavaScript between two awaits.  Sessions share no row, slot or   *)
(* drain loop, so one session is modelled.                                 *)
(*                                                                         *)
(* Time is the number of ticks a deadline still has: it is negative once   *)
(* the deadline lies in the past, which is what lease_expires_at < now     *)
(* tests.  All nodes are taken to agree on the time.                       *)
(***************************************************************************)
EXTENDS Integers

CONSTANTS
    Node,            \* control-plane nodes sharing the database
    NoNode,          \* where the executor is connected when it is offline
    Item,            \* messages, numbered by (created_at, id)
    NoItem,          \* the message of a worker that has none
    NoWorker,        \* the claim of a row that nobody holds
    Key,             \* [Item -> dedupe keys]; a message without one has NoKey
    NoKey,
    WithTaskRun,     \* the messages that carry a taskRunId
    MaxRetries,      \* TASK_CHAT_QUEUE_MAX_RETRIES
    TTL,             \* ticks of TASK_CHAT_QUEUE_CLAIM_TIMEOUT_MS and ..._LEASE_TTL_MS
    RenewalsTimely,  \* no session lease of a live worker runs out (timer: 60 s of 300 s)
    TurnsTimely,     \* no turn outlives the claim timeout
    May,             \* "obstacle": the session may be busy, a set-up fail;
                     \* "leave": the executor may go offline; "reopen": clients
                     \* may open the chat again; "remove": users may remove
                     \* messages; "expire": slots without a controller expire
    Users,           \* the nodes that users are connected to
    Homes,           \* the nodes that the executor connects to
    Sweepers,        \* the nodes whose sweep timer is modelled
    Listeners,       \* the nodes whose storage-change listener is modelled
    MaxCrashes,      \* bound: crashes of nodes
    MaxMoves         \* bound: connections the executor opens

ASSUME QueueAssumption ==
    /\ Item \subseteq Nat /\ NoItem \notin Item /\ NoNode \notin Node
    /\ WithTaskRun \subseteq Item
    /\ \A s \in {Users, Homes, Sweepers, Listeners} : s \subseteq Node
    /\ {MaxRetries, TTL, MaxCrashes, MaxMoves} \subseteq Nat
    /\ {RenewalsTimely, TurnsTimely} \subseteq BOOLEAN
    /\ May \subseteq {"obstacle", "leave", "reopen", "remove", "expire"}
    /\ NoWorker \notin Node \X {"drain", "user", "sweep", "sync"}

VARIABLES
    rows,      \* task_chat_queue_items, and what became of a deleted row
    lease,     \* the row of task_chat_session_leases
    pc,        \* where each worker stands
    item,      \* the message it works on
    snap,      \* rows it has SELECTed for the mirror and not yet assigned
    slot,      \* activeTaskChatExecutionSessions of each node
    again,     \* pendingTaskChatDrainSessions of each node
    mirror,    \* pendingQueueMirror of each node
    home,      \* the node that has the executor's socket
    moves,     \* connections so far
    up,        \* the nodes that run
    crashes,   \* crashes so far
    started    \* history: turns of a message that were started

db    == <<rows, lease>>
local == <<slot, again, mirror>>
env   == <<home, moves, up, crashes>>
vars  == <<rows, lease, pc, item, snap, slot, again, mirror, home, moves, up,
           crashes, started>>
-----------------------------------------------------------------------------
(***************************************************************************)
(* The workers of a node: its drain loop, a handler of user requests, its  *)
(* sweep timer and the listener of storage changes.                        *)
(***************************************************************************)
Drain(n) == <<n, "drain">>
User(n)  == <<n, "user">>
Sweep(n) == <<n, "sweep">>
Sync(n)  == <<n, "sync">>
Worker   == Node \X {"drain", "user", "sweep", "sync"}
Of(n)    == {Drain(n), User(n), Sweep(n), Sync(n)}

\* A claim or lease id is a fresh UUID.  The worker's own name stands for it:
\* a worker has at most one at a time, and no id of its past is left behind,
\* except by a crash or an expiry: a row that still names the old id cannot be
\* taken by the same worker before that name is cleared.
\* "done" is a row deleted by a completion; "gone" is one deleted otherwise, and
\* a message that never got a row of its own.
Status == {"none", "pending", "claimed", "done", "gone"}
Row == [status : Status, retry : 0..MaxRetries, claim : Worker \cup {NoWorker},
        left : -1..TTL]
Unclaimed(status, retry) ==
    [status |-> status, retry |-> retry, claim |-> NoWorker, left |-> -1]
Gone(status) == Unclaimed(status, 0)
NoLease == [id |-> NoWorker, left |-> -1]

\* A worker at a label of Reading has SENT the SELECT of
\* refreshTaskChatQueueMirror, at the next label the answer has come.
AfterRead == [ claimed_read |-> "claimed", missed_read |-> "missed",
               completed_read |-> "completed", abandoned_read |-> "abandoned",
               queued_read |-> "queued", removed_read |-> "removed",
               relookup_read |-> "relookup", swept_read |-> "swept" ]
Reading   == DOMAIN AfterRead
Preparing == {"check", "claim", "missed_read", "claimed_read", "claimed", "missed"}
Running   == {"run", "complete", "completed_read", "completed", "release"}
Failing   == {"abandon", "abandoned_read", "abandoned", "refund"}
Ending    == {"unlock_loop", "unlock_stop", "unlock_done", "unlock_failed"}
PC == {"idle", "head", "insert", "takeover", "enqueue", "lookup", "relookup",
       "lookup_again", "queued", "removed", "leases", "swept", "synced"}
        \cup Reading \cup Preparing \cup Running \cup Failing \cup Ending

\* Workers that were granted the session lease and have not released it, and
\* drain loops that were granted a claim and have not settled it.
Holding(w)  == pc[w] \in Preparing \cup Running \cup Failing \cup Ending
Claiming(w) == w[2] = "drain" /\ pc[w] \in {"claimed_read", "claimed", "run",
                                            "complete", "release", "abandon", "refund"}
Claimed(i, w) == rows[i].status = "claimed" /\ rows[i].claim = w
Owns(w, i) == Claiming(w) /\ item[w] = i /\ Claimed(i, w)

Pending == {i \in Item : rows[i].status = "pending"}
Live    == {i \in Item : rows[i].status \in {"pending", "claimed"}}
IsHead(i, S) == i \in S /\ \A j \in S : i <= j
Expired == {i \in Item : rows[i].status = "claimed" /\ rows[i].left < 0}
Fresh(i) == rows[i].status = "none" /\ \A w \in Worker : item[w] # i
Conflict(i) == Key[i] # NoKey /\ \E j \in Live : Key[j] = Key[i]

\* The session is found busy or blocked, the set-up of a turn fails.
Obstacle == "obstacle" \in May

Goto(w, label) == pc' = [pc EXCEPT ![w] = label]

\* Set p to pc after a step that also calls scheduleTaskChatQueueDrain(n):
\* start the node's drain loop, or make the one that runs go round once more.
Scheduling(p, n) ==
    /\ pc' = IF p[Drain(n)] = "idle" THEN [p EXCEPT ![Drain(n)] = "head"] ELSE p
    /\ again' = IF p[Drain(n)] = "idle" THEN again ELSE [again EXCEPT ![n] = TRUE]

\* Mutant: the request to go round once more is not taken back.
DrainReturnsUnreset(n) ==
    /\ pc' = [pc EXCEPT ![Drain(n)] = IF again[n] THEN "head" ELSE "idle"]
    /\ item' = [item EXCEPT ![Drain(n)] = NoItem] /\ UNCHANGED again

\* runTaskChatQueueDrain has returned to the loop around it.
DrainReturns(n) ==
    /\ pc' = [pc EXCEPT ![Drain(n)] = IF again[n] THEN "head" ELSE "idle"]
    /\ again' = [again EXCEPT ![n] = FALSE]
    /\ item' = [item EXCEPT ![Drain(n)] = NoItem]

Assign(w)  == mirror' = [mirror EXCEPT ![w[1]] = snap[w]] /\ snap' = [snap EXCEPT ![w] = {}]
FreeSlot(n) == slot' = [slot EXCEPT ![n] = FALSE]
-----------------------------------------------------------------------------
Init ==
    /\ rows = [i \in Item |-> Gone("none")] /\ lease = NoLease
    /\ pc = [w \in Worker |-> "idle"] /\ item = [w \in Worker |-> NoItem]
    /\ snap = [w \in Worker |-> {}] /\ slot = [n \in Node |-> FALSE]
    /\ again = [n \in Node |-> FALSE] /\ mirror = [n \in Node |-> {}]
    /\ home = NoNode /\ moves = 0 /\ up = Node /\ crashes = 0
    /\ started = [i \in Item |-> 0]
-----------------------------------------------------------------------------
(***************************************************************************)
(* refreshTaskChatQueueMirror: the SELECT.                                 *)
(***************************************************************************)
Select(w) ==
    /\ pc[w] \in Reading
    /\ snap' = [snap EXCEPT ![w] = Pending]
    /\ Goto(w, AfterRead[pc[w]])
    /\ UNCHANGED <<db, item, local, env, started>>

(***************************************************************************)
(* acquireTaskChatSessionLeaseDb, called by tryAcquireTaskChatExecutionLease*)
(***************************************************************************)
Acquired(w) ==
    /\ lease' = [id |-> w, left |-> TTL]
    /\ slot' = [slot EXCEPT ![w[1]] = TRUE]
    /\ rows' = IF w[2] = "user" THEN [rows EXCEPT ![item[w]] = Gone("gone")] ELSE rows
    /\ started' = IF w[2] = "user" THEN [started EXCEPT ![item[w]] = 1] ELSE started
    /\ Goto(w, IF w[2] = "user" THEN "run" ELSE "check")
    /\ UNCHANGED <<item, again>>

\* Mutant: an upsert in place of ON CONFLICT DO NOTHING.
UpsertLease(w) == pc[w] = "insert" /\ Acquired(w) /\ UNCHANGED <<snap, mirror, env>>

InsertLease(w) ==
    /\ pc[w] = "insert"
    /\ \/ lease.id = NoWorker /\ Acquired(w)
       \/ lease.id # NoWorker /\ Goto(w, "takeover")
          /\ UNCHANGED <<db, slot, started, item, again>>
    /\ UNCHANGED <<snap, mirror, env>>

\* Mutant: the UPDATE takes a lease that has not expired.
TakeoverLive(w) ==
    /\ pc[w] = "takeover"
    /\ lease.id # NoWorker /\ Acquired(w)
    /\ UNCHANGED <<snap, mirror, env>>

TakeoverLease(w) ==
    /\ pc[w] = "takeover"
    /\ \/ lease.id # NoWorker /\ lease.left < 0 /\ Acquired(w)
       \/ /\ lease.id = NoWorker \/ lease.left >= 0
          /\ \/ w[2] = "user" /\ Goto(w, "enqueue") /\ UNCHANGED <<item, again>>
             \/ w[2] = "drain" /\ DrainReturns(w[1])
          /\ UNCHANGED <<db, slot, started>>
    /\ UNCHANGED <<snap, mirror, env>>

(***************************************************************************)
(* handleSend of the task chat socket: try to run the message at once, or  *)
(* put it in the queue.                                                    *)
(***************************************************************************)
SendMessage(n, i) ==
    /\ n \in up \cap Users /\ pc[User(n)] = "idle" /\ Fresh(i)
    /\ item' = [item EXCEPT ![User(n)] = i]
    /\ \/ home = n /\ ~slot[n] /\ Goto(User(n), "insert")
       \/ /\ home # n \/ slot[n] \/ Obstacle
          /\ Goto(User(n), "enqueue")
    /\ UNCHANGED <<db, snap, local, env, started>>

\* enqueueTaskChatQueueItemDb: INSERT ... ON CONFLICT DO NOTHING, and what
\* follows a conflict.
Enqueue(w) ==
    /\ pc[w] = "enqueue"
    /\ \/ ~Conflict(item[w]) /\ Goto(w, "queued_read")
          /\ rows' = [rows EXCEPT ![item[w]] = Unclaimed("pending", 0)]
       \/ Conflict(item[w]) /\ Goto(w, "lookup") /\ UNCHANGED rows
    /\ UNCHANGED <<lease, item, snap, local, env, started>>

Lookup(w) ==
    LET found == Conflict(item[w]) IN
    /\ pc[w] \in {"lookup", "lookup_again"}
    /\ \/ found /\ Goto(w, "queued_read")
          /\ rows' = [rows EXCEPT ![item[w]] = Gone("gone")] /\ UNCHANGED item
       \/ ~found /\ pc[w] = "lookup" /\ Goto(w, "relookup_read") /\ UNCHANGED <<rows, item>>
       \/ ~found /\ pc[w] = "lookup_again" /\ Goto(w, "idle")
          /\ rows' = [rows EXCEPT ![item[w]] = Gone("gone")]
          /\ item' = [item EXCEPT ![w] = NoItem]
    /\ UNCHANGED <<lease, snap, local, env, started>>

LookAgain(w) ==
    /\ pc[w] = "relookup"
    /\ Assign(w) /\ Goto(w, "lookup_again")
    /\ UNCHANGED <<db, item, slot, again, env, started>>

\* The handler answers "queued" and schedules a drain.
Queued(n) ==
    /\ pc[User(n)] = "queued"
    /\ Assign(User(n)) /\ item' = [item EXCEPT ![User(n)] = NoItem]
    /\ Scheduling([pc EXCEPT ![User(n)] = "idle"], n)
    /\ UNCHANGED <<db, slot, env, started>>

\* removeTaskChatQueueItemDb, whatever the status of the row.
Remove(n, i) ==
    /\ "remove" \in May /\ n \in up \cap Users /\ pc[User(n)] = "idle" /\ i \in Live
    /\ rows' = [rows EXCEPT ![i] = Gone("gone")]
    /\ Goto(User(n), "removed_read")
    /\ UNCHANGED <<lease, item, snap, local, env, started>>

Removed(n) ==
    /\ pc[User(n)] = "removed"
    /\ Assign(User(n)) /\ Goto(User(n), "idle")
    /\ UNCHANGED <<db, item, slot, again, env, started>>
-----------------------------------------------------------------------------
(***************************************************************************)
(* runTaskChatQueueDrain.                                                  *)
(***************************************************************************)
ReadHead(n) ==
    /\ pc[Drain(n)] = "head" /\ ~slot[n]
    /\ \E i \in mirror[n] :
        IsHead(i, mirror[n]) /\ item' = [item EXCEPT ![Drain(n)] = i]
    /\ Goto(Drain(n), "insert")
    /\ UNCHANGED <<db, snap, local, env, started>>

GiveUp(n) ==
    /\ pc[Drain(n)] = "head"
    /\ mirror[n] = {} \/ slot[n] \/ Obstacle
    /\ DrainReturns(n)
    /\ UNCHANGED <<db, snap, slot, mirror, env, started>>

\* Mutant: the finally block is skipped when the executor is not ready.
CheckKeepsSlot(n) ==
    /\ pc[Drain(n)] = "check"
    /\ Goto(Drain(n), IF home = n THEN "claim" ELSE "unlock_stop")
    /\ UNCHANGED <<db, item, snap, local, env, started>>

\* resolveWorkspaceChatDispatchAvailabilityAsync.
Check(n) ==
    /\ pc[Drain(n)] = "check"
    /\ \/ home = n /\ Goto(Drain(n), "claim") /\ UNCHANGED slot
       \/ /\ home # n \/ Obstacle
          /\ FreeSlot(n) /\ Goto(Drain(n), "unlock_stop")
    /\ UNCHANGED <<db, item, snap, again, mirror, env, started>>

\* Mutant: the UPDATE does not ask for the oldest pending row.
ClaimAny(n) ==
    LET w == Drain(n) IN
    /\ pc[w] = "claim"
    /\ \/ /\ item[w] \in Pending
          /\ rows' = [rows EXCEPT ![item[w]] = [@ EXCEPT !.status = "claimed",
                                                           !.claim = w, !.left = TTL]]
          /\ Goto(w, "claimed_read")
       \/ item[w] \notin Pending /\ Goto(w, "missed_read") /\ UNCHANGED rows
    /\ UNCHANGED <<lease, item, snap, local, env, started>>

\* claimTaskChatQueueItemDb: one conditional UPDATE.
Claim(n) ==
    LET w == Drain(n) IN
    /\ pc[w] = "claim"
    /\ \/ /\ IsHead(item[w], Pending)
          /\ rows' = [rows EXCEPT ![item[w]] = [@ EXCEPT !.status = "claimed",
                                                           !.claim = w, !.left = TTL]]
          /\ Goto(w, "claimed_read")
       \/ ~IsHead(item[w], Pending) /\ Goto(w, "missed_read") /\ UNCHANGED rows
    /\ UNCHANGED <<lease, item, snap, local, env, started>>

\* Another node had the head: refresh the mirror, release the lease, go on.
Missed(n) ==
    /\ pc[Drain(n)] = "missed"
    /\ Assign(Drain(n)) /\ FreeSlot(n) /\ Goto(Drain(n), "unlock_loop")
    /\ UNCHANGED <<db, item, again, env, started>>

\* Mutant: a message without a task run is completed, too, when its set-up fails.
ConfigureGivesUp(n) ==
    /\ pc[Drain(n)] = "claimed"
    /\ Assign(Drain(n)) /\ Goto(Drain(n), IF Obstacle THEN "abandon" ELSE "run")
    /\ UNCHANGED <<db, item, slot, again, env, started>>

\* applyTaskChatMessageRuntimeConfig, and the hand-off to executeTaskChatTurn.
Configure(n) ==
    LET i == item[Drain(n)] IN
    /\ pc[Drain(n)] = "claimed"
    /\ Assign(Drain(n))
    /\ \/ /\ Goto(Drain(n), "run")
          /\ started' = [started EXCEPT ![i] = IF @ > MaxRetries + 1 + MaxCrashes
                                               THEN @ ELSE @ + 1]
       \/ Obstacle /\ Goto(Drain(n), IF i \in WithTaskRun THEN "abandon" ELSE "refund")
          /\ UNCHANGED started
    /\ UNCHANGED <<db, item, slot, again, env>>
-----------------------------------------------------------------------------
(***************************************************************************)
(* executeTaskChatTurn and what follows it.                                *)
(***************************************************************************)
TurnSucceeds(w) ==
    /\ pc[w] = "run"
    /\ \/ w[2] = "drain" /\ Goto(w, "complete") /\ UNCHANGED slot
       \/ w[2] = "user" /\ FreeSlot(w[1]) /\ Goto(w, "unlock_done")
    /\ UNCHANGED <<db, item, snap, again, mirror, env, started>>

TurnThrows(w) ==
    /\ pc[w] = "run"
    /\ \/ w[2] = "drain" /\ Goto(w, "release") /\ UNCHANGED slot
       \/ w[2] = "user" /\ FreeSlot(w[1]) /\ Goto(w, "unlock_done")
    /\ UNCHANGED <<db, item, snap, again, mirror, env, started>>

\* Mutant: the DELETE does not compare claim_id.
CompleteAny(n) ==
    LET w == Drain(n) IN
    /\ pc[w] \in {"complete", "abandon"}
    /\ rows' = IF rows[item[w]].status = "claimed" THEN [rows EXCEPT ![item[w]] = Gone("done")] ELSE rows
    /\ Goto(w, IF pc[w] = "complete" THEN "completed_read" ELSE "abandoned_read")
    /\ UNCHANGED <<lease, item, snap, local, env, started>>

\* completeTaskChatQueueItemDb: DELETE of the row that this claim still holds.
Complete(n) ==
    LET w == Drain(n) IN
    /\ pc[w] \in {"complete", "abandon"}
    /\ rows' = IF Claimed(item[w], w) THEN [rows EXCEPT ![item[w]] = Gone("done")] ELSE rows
    /\ Goto(w, IF pc[w] = "complete" THEN "completed_read" ELSE "abandoned_read")
    /\ UNCHANGED <<lease, item, snap, local, env, started>>

Settle(n) ==
    LET w == Drain(n) IN
    /\ pc[w] \in {"completed", "abandoned"}
    /\ Assign(w) /\ FreeSlot(n)
    /\ Goto(w, IF pc[w] = "completed" THEN "unlock_done" ELSE "unlock_stop")
    /\ UNCHANGED <<db, item, again, env, started>>

\* The transaction of releaseTaskChatQueueItemDb; the mirror is not refreshed.
ReleaseTo(n, exhausted, charge) ==
    LET w == Drain(n)
        i == item[w] IN
    /\ pc[w] \in {"release", "refund"}
    /\ rows' = IF ~Claimed(i, w) THEN rows
               ELSE [rows EXCEPT ![i] = IF exhausted THEN Gone("gone")
                                        ELSE Unclaimed("pending", @.retry + charge)]
    /\ FreeSlot(n)
    /\ Goto(w, IF pc[w] = "release" THEN "unlock_failed" ELSE "unlock_stop")
    /\ UNCHANGED <<lease, item, snap, again, mirror, env, started>>

\* Mutants: the limit is off by one; the retry is not counted.
ReleaseOnceMore(n) == ReleaseTo(n, rows[item[Drain(n)]].retry > MaxRetries, 1)
ReleaseUncounted(n) == ReleaseTo(n, FALSE, 0)

\* releaseTaskChatQueueItemDb counts the retry and gives the message up when
\* there are too many.
Release(n) == ReleaseTo(n, rows[item[Drain(n)]].retry + 1 > MaxRetries, 1)

\* releaseTaskChatSessionLeaseDb, and what its caller does next: a turn
\* schedules a drain, and the drain loop goes on or returns.
DeleteAnyLease(w) == lease' = NoLease  \* mutant: the DELETE does not compare lease_id
DeleteLease(w) == lease' = IF lease.id = w THEN NoLease ELSE lease

UnlockDrain(n) ==
    LET w == Drain(n) IN
    /\ DeleteLease(w)
    /\ \/ pc[w] = "unlock_stop" /\ DrainReturns(n)
       \/ /\ pc[w] \in {"unlock_loop", "unlock_done", "unlock_failed"}
          /\ again' = [again EXCEPT ![n] = pc[w] = "unlock_done" \/ (pc[w] = "unlock_loop" /\ @)]
          /\ Goto(w, "head") /\ item' = [item EXCEPT ![w] = NoItem]
    /\ UNCHANGED <<rows, snap, slot, mirror, env, started>>

UnlockUser(n) ==
    LET w == User(n) IN
    /\ pc[w] = "unlock_done"
    /\ DeleteLease(w) /\ item' = [item EXCEPT ![w] = NoItem]
    /\ Scheduling([pc EXCEPT ![w] = "idle"], n)
    /\ UNCHANGED <<rows, snap, slot, mirror, env, started>>

\* The renewal timer of a running turn.  A renewal that finds the lease gone
\* is only logged.
Renew(w) ==
    /\ pc[w] \in Running /\ lease.id = w /\ lease.left < TTL
    /\ lease' = [lease EXCEPT !.left = TTL]
    /\ UNCHANGED <<rows, pc, item, snap, local, env, started>>

\* expireStaleTaskChatExecutionSlots, before an abort controller is bound.
SlotExpires(n) ==
    /\ "expire" \in May /\ slot[n] /\ FreeSlot(n)
    /\ UNCHANGED <<db, pc, item, snap, again, mirror, env, started>>
-----------------------------------------------------------------------------
(***************************************************************************)
(* sweepExpiredTaskChatQueueClaimsDb; a sweep that finds nothing expired   *)
(* only refreshes the mirror, as SyncRead does.                            *)
(***************************************************************************)
SweepTo(n, swept, charge) ==
    LET w == Sweep(n) IN
    /\ n \in up \cap Sweepers /\ pc[w] = "idle"
    /\ Expired # {} \/ (lease.id # NoWorker /\ lease.left < 0)
    /\ rows' = [i \in Item |-> IF i \in swept THEN Unclaimed("pending", rows[i].retry + charge)
                                              ELSE rows[i]]
    /\ item' = [item EXCEPT ![w] = IF swept = {} THEN NoItem ELSE CHOOSE i \in swept : TRUE]
    /\ Goto(w, "leases")
    /\ UNCHANGED <<lease, snap, local, env, started>>

\* Mutants: a sweep takes claims that have not expired; it charges the budget;
\* it spares claims that have no retry left.
SweepAllClaims(n) == SweepTo(n, {i \in Item : rows[i].status = "claimed"}, 0)
SweepCharges(n) == SweepTo(n, {i \in Expired : rows[i].retry < MaxRetries}, 1)
SweepRetriable(n) == SweepTo(n, {i \in Expired : rows[i].retry < MaxRetries}, 0)

SweepClaims(n) == SweepTo(n, Expired, 0)

\* Mutants: the DELETE does not compare lease_expires_at; it is missing.
SweepAllLeases(n) ==
    /\ pc[Sweep(n)] = "leases" /\ lease' = NoLease /\ Goto(Sweep(n), "swept_read")
    /\ UNCHANGED <<rows, item, snap, local, env, started>>
SweepNoLeases(n) ==
    /\ pc[Sweep(n)] = "leases" /\ Goto(Sweep(n), "swept_read")
    /\ UNCHANGED <<db, item, snap, local, env, started>>

SweepLeases(n) ==
    /\ pc[Sweep(n)] = "leases"
    /\ lease' = IF lease.left < 0 THEN NoLease ELSE lease
    /\ Goto(Sweep(n), "swept_read")
    /\ UNCHANGED <<rows, item, snap, local, env, started>>

\* A drain is scheduled, on the sweeping node, when a claim was given back.
Swept(n) ==
    LET w == Sweep(n)
        p == [pc EXCEPT ![w] = "idle"] IN
    /\ pc[w] = "swept"
    /\ Assign(w) /\ item' = [item EXCEPT ![w] = NoItem]
    /\ IF item[w] # NoItem THEN Scheduling(p, n) ELSE pc' = p /\ again' = again
    /\ UNCHANGED <<db, slot, env, started>>

\* refreshChangedState, on a storage change of the queue table.
SyncRead(n) ==
    /\ n \in up \cap Listeners /\ pc[Sync(n)] = "idle"
    /\ snap' = [snap EXCEPT ![Sync(n)] = Pending]
    /\ Goto(Sync(n), "synced")
    /\ UNCHANGED <<db, item, local, env, started>>

\* Mutant: the answer is discarded.
SyncedUnused(n) ==
    /\ pc[Sync(n)] = "synced" /\ Goto(Sync(n), "idle") /\ snap' = [snap EXCEPT ![Sync(n)] = {}]
    /\ UNCHANGED <<db, item, local, env, started>>

Synced(n) ==
    /\ pc[Sync(n)] = "synced"
    /\ Assign(Sync(n)) /\ Goto(Sync(n), "idle")
    /\ UNCHANGED <<db, item, slot, again, env, started>>
-----------------------------------------------------------------------------
(***************************************************************************)
(* The environment: clients, the executor, crashes and time.               *)
(***************************************************************************)
\* Opening the chat or reading its snapshot schedules a drain when the mirror
\* shows a queued message and the queue is not blocked.
ClientOpens(n) ==
    /\ "reopen" \in May /\ n \in up \cap Users
    /\ mirror[n] # {} /\ ~slot[n] /\ home = n
    /\ Scheduling(pc, n)
    /\ UNCHANGED <<db, item, snap, slot, mirror, env, started>>

\* registerSocket.  The listener runs on this node only, and only when the
\* executor was not known as online.
ExecutorConnects(n) ==
    /\ n \in up \cap Homes /\ home # n /\ moves < MaxMoves
    /\ home' = n /\ moves' = moves + 1
    /\ IF home = NoNode /\ mirror[n] # {} THEN Scheduling(pc, n) ELSE UNCHANGED <<pc, again>>
    /\ UNCHANGED <<db, item, snap, slot, mirror, up, crashes, started>>

ExecutorLeaves ==
    /\ "leave" \in May /\ home # NoNode /\ moves < MaxMoves
    /\ home' = NoNode
    /\ UNCHANGED <<db, pc, item, snap, local, moves, up, crashes, started>>

Crash(n) ==
    /\ n \in up /\ crashes < MaxCrashes
    /\ up' = up \ {n} /\ crashes' = crashes + 1
    /\ pc' = [w \in Worker |-> IF w \in Of(n) THEN "idle" ELSE pc[w]]
    /\ item' = [w \in Worker |-> IF w \in Of(n) THEN NoItem ELSE item[w]]
    /\ snap' = [w \in Worker |-> IF w \in Of(n) THEN {} ELSE snap[w]]
    /\ FreeSlot(n)
    /\ again' = [again EXCEPT ![n] = FALSE] /\ mirror' = [mirror EXCEPT ![n] = {}]
    /\ home' = IF home = n THEN NoNode ELSE home
    /\ UNCHANGED <<db, moves, started>>

\* initTaskChatQueueStore.
Restart(n) ==
    /\ n \notin up
    /\ up' = up \cup {n} /\ mirror' = [mirror EXCEPT ![n] = Pending]
    /\ UNCHANGED <<db, pc, item, snap, slot, again, home, moves, crashes, started>>

Older(d) == IF d < 0 THEN d ELSE d - 1

\* RenewalsTimely and TurnsTimely are assumptions on time: a tick does not come
\* before the renewal, or the end of the turn, that they promise.
Tick ==
    /\ RenewalsTimely => \A w \in Worker : Holding(w) /\ lease.id = w => lease.left > 0
    /\ TurnsTimely => \A w \in Worker, i \in Item : Owns(w, i) => rows[i].left > 0
    /\ rows' = [i \in Item |-> [rows[i] EXCEPT !.left = Older(@)]]
    /\ lease' = [lease EXCEPT !.left = Older(@)]
    /\ db' # db
    /\ UNCHANGED <<pc, item, snap, local, env, started>>
-----------------------------------------------------------------------------
\* What the workers of a node do of their own once they have begun.
DrainStep(n) ==
    \/ ReadHead(n) \/ GiveUp(n) \/ Check(n) \/ Claim(n) \/ Missed(n) \/ Configure(n)
    \/ Complete(n) \/ Settle(n) \/ Release(n) \/ UnlockDrain(n)
UserStep(n) ==
    \/ Enqueue(User(n)) \/ Lookup(User(n)) \/ LookAgain(User(n))
    \/ Queued(n) \/ Removed(n) \/ UnlockUser(n)
SweepStep(n) == SweepLeases(n) \/ Swept(n)
TurnStep(w)  == Select(w) \/ InsertLease(w) \/ TakeoverLease(w) \/ TurnSucceeds(w) \/ TurnThrows(w)
Step(n) == DrainStep(n) \/ UserStep(n) \/ SweepStep(n) \/ \E w \in Of(n) : TurnStep(w)

Request(n) == (\E i \in Item : SendMessage(n, i) \/ Remove(n, i)) \/ ClientOpens(n)
Timer(n)   == SweepClaims(n) \/ SlotExpires(n) \/ \E w \in Of(n) : Renew(w)
Listen(n)  == SyncRead(n) \/ Synced(n)
Fault(n)   == Crash(n) \/ Restart(n) \/ ExecutorConnects(n)

Next == (\E n \in Node : Step(n) \/ Request(n) \/ Timer(n) \/ Listen(n) \/ Fault(n))
            \/ ExecutorLeaves \/ Tick

Spec == Init /\ [][Next]_vars

\* Fairness.  Queries under way are answered and turns end; leases are renewed,
\* expired ones are swept; a change of the table reaches every listener; a node
\* is started again and an offline executor connects again.  Users and clients
\* owe nothing.
Fairness ==
    /\ WF_vars(Tick)
    /\ WF_vars(\E w \in Worker : Renew(w))
    /\ WF_vars(\E n \in Node : SweepClaims(n))
    /\ WF_vars(\E n \in Node : Restart(n))
    /\ WF_vars(home = NoNode /\ \E n \in Node : ExecutorConnects(n))
    /\ \A n \in Node : WF_vars(Step(n))
    /\ \A n \in Listeners : WF_vars(mirror[n] # Pending /\ SyncRead(n)) /\ WF_vars(Synced(n))
FairSpec == Spec /\ Fairness
-----------------------------------------------------------------------------
(***************************************************************************)
(* Properties.                                                             *)
(***************************************************************************)
TypeOK ==
    /\ rows \in [Item -> Row]
    /\ lease \in [id : Worker \cup {NoWorker}, left : -1..TTL]
    /\ pc \in [Worker -> PC] /\ item \in [Worker -> Item \cup {NoItem}]
    /\ snap \in [Worker -> SUBSET Item] /\ mirror \in [Node -> SUBSET Item]
    /\ slot \in [Node -> BOOLEAN] /\ again \in [Node -> BOOLEAN]
    /\ home \in Node \cup {NoNode} /\ moves \in 0..MaxMoves
    /\ up \subseteq Node /\ crashes \in 0..MaxCrashes
    /\ started \in [Item -> Nat]

\* At most one worker of all nodes is anywhere between obtaining the session
\* lease and releasing it, as long as live workers renew it in time: whatever
\* the local slots, the takeovers and the sweep do, a session has one turn.
MutualExclusion ==
    RenewalsTimely => \A v, w \in Worker : Holding(v) /\ Holding(w) => v = w

\* A message does not start more turns than its retry budget and the crashes
\* allow, although a sweep gives a claim back without charging the budget.
TurnsBounded ==
    TurnsTimely => \A i \in Item : started[i] <= MaxRetries + 1 + crashes

\* A message leaves the queue as done only after a turn for it has started or,
\* when its set-up failed, if a task run carries the failure.
DoneWasStarted ==
    \A i \in Item : rows[i].status = "done" => started[i] > 0 \/ i \in WithTaskRun

\* The local slot of a node is taken only while a worker of that node is
\* working under a lease: no path of the drain loop or of a turn leaks it.
SlotHasOwner ==
    \A n \in Node : slot[n] => \E w \in Of(n) : pc[w] \in Preparing \cup Running \cup Failing

\* An unexpired claim is given up by the worker it names, or by a user who
\* removes the message, and by nobody else: late completions and releases of
\* former claimers do not touch it.
ClaimFencing ==
    [][\A i \in Item, w \in Worker :
        Claimed(i, w) /\ rows[i].left >= 0 /\ ~Claimed(i, w)'
            => \/ pc[w]' # pc[w]
               \/ \E n \in Node : pc[User(n)] = "idle" /\ pc[User(n)]' = "removed_read"]_vars

\* An unexpired session lease changes hands only through a step of its owner.
LeaseFencing ==
    [][\A w \in Worker : lease.id = w /\ lease.left >= 0 /\ lease.id' # w
            => pc[w]' # pc[w]]_vars

\* A message that is not charged to a claimer that failed keeps its budget,
\* and no step but a failing claimer's own charges it.
OnlyClaimerCharges ==
    [][\A i \in Item : rows[i].retry' > rows[i].retry
        => \E n \in Node : Claimed(i, Drain(n)) /\ pc[Drain(n)] \in {"release", "refund"}
                             /\ pc[Drain(n)]' # pc[Drain(n)]]_vars

\* Rows, claims, the session lease and the drain loops of all nodes implement what
\* SessionQueue promises: messages of a session are worked on one at a time and in
\* their order, a taken one is settled by its worker or, once that is gone, put
\* back, and what has left the queue stays out of it (turn-execution.ts).
StageOf == [ none |-> "new", pending |-> "waiting", claimed |-> "taken", done |-> "done",
             gone |-> "left" ]
PhaseOf == [ claimed_read |-> "taken", claimed |-> "taken", run |-> "running",
             complete |-> "succeeded", abandon |-> "abandoned", release |-> "failed",
             refund |-> "failed" ]
InTurn(w) == pc[w] \in DOMAIN PhaseOf
Stages == [i \in Item |-> StageOf[rows[i].status]]
Tries  == [i \in Item |-> rows[i].retry]
Turns  == {[item |-> item[w], phase |-> PhaseOf[pc[w]]] : w \in {v \in Worker : InTurn(v)}}
Session == INSTANCE SessionQueue WITH stage <- Stages, tries <- Tries, session <- Turns
ServesSession == Session!Spec

\* Every claim is settled or given back, also when its node has crashed.
ClaimsRecover ==
    \A i \in Item : rows[i].status = "claimed" ~> rows[i].status # "claimed"

\* Every session lease ends, also when its node has crashed.
LeasesRecover == \A w \in Worker : lease.id = w ~> lease.id # w

\* A drain loop returns: neither a turn that asks for one more round nor a head
\* that another node has taken, and the mirror still shows, keeps it spinning.
DrainsReturn == \A n \in Node : []<>(pc[Drain(n)] = "idle")

\* The mirror of a running node that hears of storage changes comes to show what the table holds.
MirrorConverges == \A n \in Listeners : []<>(n \in up => mirror[n] = Pending)

\* A queued message is sent, or given up after its retries, without a further
\* request of a user: OFFLINE_TASK_CHAT_QUEUE_WAIT_MESSAGE says that it is kept
\* and sent automatically once the executor is back.
QueuedEventuallySent ==
    \A i \in Item : rows[i].status = "pending" ~> rows[i].status \notin {"pending", "claimed"}

\* The sweep gives back only claims whose claimer is gone: the comment of
\* initTaskChatQueueStore says it recovers the claims of crashed nodes.
SweepTakesOrphans ==
    [][\A i \in Item, n \in Node :
        Owns(Drain(n), i) /\ (\E m \in Node : pc[Sweep(m)]' # pc[Sweep(m)])
            => Claimed(i, Drain(n))']_vars
=============================================================================
