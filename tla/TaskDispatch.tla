---------------------------- MODULE TaskDispatch ----------------------------
(***************************************************************************)
(* How the control plane has a distributed task executed by one of its     *)
(* executors.  The row of the task is claimed, sent to the executor over   *)
(* its websocket, queued and run by the worker there, and moved by what    *)
(* the worker reports: acknowledgements, numbered events, a result, and    *)
(* heartbeats that name the tasks it holds.  Connections break without a   *)
(* notice, workers restart, leases run out, and users cancel the task or   *)
(* give it to another executor meanwhile.                                  *)
(*                                                                         *)
(* One task and one control-plane node.  A run of the task is named by its *)
(* idempotencyKey.  The row stands for the database row and its cached     *)
(* copy; an operation that writes it through task-sync is in `tail' from   *)
(* its call until its writes are over.                                     *)
(***************************************************************************)
EXTENDS Integers, Sequences, FiniteSets

CONSTANTS
    Executor,
    Outcome,     \* how an execution may end by itself
    SyncCap,     \* bound: operations of the serializer
    MaxRequests, \* bound: assign, retry, takeover and cancel requests
    MaxStarts,   \* bound: executions
    First,       \* the executor the task was created for
    Fragile,     \* executors whose connections break and whose workers restart
    MaxFaults,   \* bound: connections that break and workers that restart
    MaxTrouble,  \* bound: requests and faults together
    Prompt       \* whether the server's own steps take less than its timeouts

ASSUME DispatchAssumption ==
    /\ Outcome \subseteq {"completed", "failed"}
    /\ First \in Executor /\ Fragile \subseteq Executor /\ Prompt \in BOOLEAN
    /\ {SyncCap, MaxRequests, MaxStarts, MaxFaults, MaxTrouble} \subseteq Nat

VARIABLES
    row,      \* the task in distributed_tasks
    tail,     \* taskSyncTails of the task: operations in the order of their calls
    pass,     \* reconcileControlPlaneTaskQueue, between its read and its claim
    sends,    \* task.assign messages being prepared
    sock,     \* executors with an open socket in the registry, which are online
    stale,    \* staleWorkNotifications
    link,     \* executors whose connection still carries messages
    conn,     \* the connection as the worker sees it
    down,     \* messages under way to a worker
    held,     \* assignedTasks of the worker
    local,    \* the task in queuedTaskIds or runningTaskIds of the worker
    live,     \* executions, activeExecutions and their closures
    outbox,   \* reliableOutboundQueue
    requests, starts, faults,  \* bounded counts
    ended,    \* history: the outcomes of the executions that ended
    damage    \* history: an executor came back without the task, or an ended
              \* task was opened again

network == <<link, conn, down, outbox>>
worker  == <<held, local, live>>
server  == <<row, tail, pass, sends, sock, stale>>
counts  == <<requests, starts, faults>>
vars == <<row, tail, pass, sends, sock, stale, link, conn, down, held, local,
          live, outbox, requests, starts, faults, ended, damage>>
-----------------------------------------------------------------------------
Key   == Nat \ {0}                     \* idempotencyKey
Step  == 2                             \* events of an execution
Seqno == Nat                           \* workerEventSequence, 0 when undefined
Final == {"completed", "failed", "cancelled"}
Status == Final \cup {"queued", "assigned", "preparing", "executing", "lost"}

Row  == [status : Status, exec : Executor, key : Key, seq : Seqno, lease : BOOLEAN]
Task == [key : Key, base : Seqno]      \* what a worker keeps of an assigned task
NoTask == [key |-> 0, base |-> 0]
NoRow == [key |-> 0]                   \* of an operation that has not begun

(***************************************************************************)
(* createTaskSyncSerializer: operations of a task run one after another.   *)
(* The first one has read the row, row is what it is going to write, and   *)
(* the next one begins when it is over.  over: the row was written since   *)
(* the operation was called.                                               *)
(***************************************************************************)
Op(kind, status, seq, r) ==
    [kind |-> kind, status |-> status, seq |-> seq, row |-> r, over |-> FALSE]

\* isNewerWorkerTaskEvent
Newer(r, seq) == seq = 0 \/ seq > r.seq

\* Mutant: a result must follow the last event without a gap.
AcceptableInOrder(r, seq) ==
    IF r.status = "lost" THEN seq = r.seq + 1
    ELSE r.status \notin Final /\ (seq = 0 \/ seq = r.seq + 1)

\* canAcceptWorkerTaskResult
Acceptable(r, seq) ==
    IF r.status = "lost" THEN seq > r.seq
    ELSE r.status \notin Final /\ Newer(r, seq)

\* syncDistributedTaskEventNow and syncDistributedTaskResultNow up to their
\* write.  What is out of date is not written.
Begun(op, r) ==
    [op EXCEPT !.row =
        IF op.kind = "result"
        THEN IF ~Acceptable(r, op.seq) THEN NoRow
             ELSE [op.row EXCEPT !.seq = IF op.seq # 0 THEN op.seq
                                         ELSE IF op.row.seq # 0 THEN op.row.seq ELSE r.seq]
        ELSE IF ~Newer(r, op.seq) THEN NoRow
             ELSE [r EXCEPT !.status = op.status, !.seq = IF op.seq # 0 THEN op.seq ELSE r.seq]]

Enqueue(t, r, op) == Append(t, IF t = <<>> THEN Begun(op, r) ELSE op)

\* Any other write of the row is later than the calls of these operations.
Overtaken(t) == [i \in 1..Len(t) |-> [t[i] EXCEPT !.over = TRUE]]

\* Mutant: only status and event number are written, not the whole row.
WrittenStatus(op) == [row EXCEPT !.status = op.row.status, !.seq = op.row.seq]
Written(op) == op.row

NoteReopened == damage' = (damage \/ (row.status \in Final /\ row'.status \notin Final))

\* saveDistributedTaskAndWait.  The database refuses what was overtaken, the
\* cache what has a lower event number, or the same one and was overtaken;
\* either may be read later.  Events and heartbeats carry the worker's time:
\* they may be older than the last write, or repeat what was said within 1.5
\* seconds.
SyncWrite ==
    /\ tail # <<>>
    /\ LET op == Head(tail)
           stamped == op.kind = "report" \/ (op.kind = "event" /\ op.seq # 0)
       IN \/ op.row # NoRow /\ (op.over => op.row.seq > row.seq) /\ row' = Written(op)
          \/ op.row = NoRow /\ row' = row
          \/ (op.over \/ stamped \/ (op.row # NoRow /\ op.row.seq < row.seq)) /\ row' = row
    /\ tail' = IF Len(tail) = 1 THEN <<>>
               ELSE <<Begun(tail[2], row')>> \o Tail(Tail(tail))
    /\ NoteReopened
    /\ UNCHANGED <<pass, sends, sock, stale, network, worker, counts, ended>>

Room == Len(tail) < SyncCap
Expires == Prompt => tail = <<>> /\ pass = {} /\ sends = {}

\* updateDistributedTask, and the event that is reported with it
Write(r) == row' = r /\ tail' = Overtaken(tail)
WriteAndReport(r, status) ==
    row' = r /\ tail' = Enqueue(Overtaken(tail), r, Op("event", status, 0, NoRow))
Report(kind, status, seq) ==
    row' = row /\ tail' = Enqueue(tail, row, Op(kind, status, seq, NoRow))
-----------------------------------------------------------------------------
(***************************************************************************)
(* reconcileControlPlaneTaskQueue, which heartbeats, connections, results  *)
(* and requests start: take back expired leases, read the queue, claim,    *)
(* prepare the message, send it.                                           *)
(***************************************************************************)
\* Mutant: only tasks whose assignment was not answered are taken back.
ReclaimAssigned ==
    /\ row.status = "assigned" /\ row.lease /\ Room /\ Expires
    /\ WriteAndReport([row EXCEPT !.status = "queued", !.lease = FALSE], "queued")
    /\ UNCHANGED <<pass, sends, sock, stale, network, worker, counts, ended, damage>>

Reclaim ==
    /\ row.status \in {"assigned", "preparing"} /\ row.lease /\ Room /\ Expires
    /\ WriteAndReport([row EXCEPT !.status = "queued", !.lease = FALSE], "queued")
    /\ UNCHANGED <<pass, sends, sock, stale, network, worker, counts, ended, damage>>

Pick ==
    /\ pass = {} /\ row.status = "queued" /\ row.exec \in sock
    /\ pass' = {row.exec}
    /\ UNCHANGED <<row, tail, sends, sock, stale, network, worker, counts, ended, damage>>

Sending(e, r, open) == [to |-> e, key |-> r.key, seq |-> r.seq, open |-> open]

\* claimDistributedTaskForDispatch
Claim ==
    /\ pass # {} /\ sends = {}
    /\ \E e \in pass :
         IF row.status = "queued"
         THEN LET claimed == [row EXCEPT !.exec = e, !.status = "assigned", !.lease = TRUE]
              IN /\ Write(claimed)
                 /\ sends' = {Sending(e, row, FALSE)}
         ELSE UNCHANGED <<row, tail, sends>>
    /\ pass' = {}
    /\ UNCHANGED <<sock, stale, network, worker, counts, ended, damage>>

Deliver(e, m) == down' = IF e \in link THEN [down EXCEPT ![e] = Append(@, m)] ELSE down
Assignment(s) == [type |-> "assign", key |-> s.key, base |-> s.seq]

\* The end of dispatchTaskToExecutor and of the loop in onOpen, after their
\* awaits.  Only the first one looks whether there is a socket to send on and
\* writes the row it has claimed back if there is none.
Send(s) ==
    /\ s \in sends /\ Room /\ down[s.to] = <<>>
    /\ sends' = sends \ {s}
    /\ IF s.to \in sock
       THEN /\ Deliver(s.to, Assignment(s))
            /\ IF s.open THEN UNCHANGED <<row, tail>> ELSE Report("event", "assigned", 0)
       ELSE /\ down' = down
            /\ IF s.open THEN UNCHANGED <<row, tail>>
               ELSE Write([status |-> "queued", exec |-> s.to, key |-> s.key, seq |-> s.seq,
                           lease |-> FALSE])
    /\ NoteReopened
    /\ UNCHANGED <<pass, sock, stale, link, conn, outbox, worker, counts, ended>>
-----------------------------------------------------------------------------
(***************************************************************************)
(* handleExecutorMessage: what a message m of the worker e does.  Messages *)
(* of one connection arrive in order and a worker reads nothing of the     *)
(* server but what `down' brings, so that a message that arrives may be    *)
(* handled in the step that sends it.                                      *)
(***************************************************************************)
Mine(e, key) == row.exec = e /\ row.key = key

HandleAck(e, m) ==
    IF Mine(e, m.key) THEN Write(row) ELSE UNCHANGED <<row, tail>>

HandleEvent(e, m) ==
    IF Mine(e, m.key) /\ Newer(row, m.seq) /\ row.status \notin Final \cup {"lost"}
    THEN Report("event", m.status, m.seq)
    ELSE UNCHANGED <<row, tail>>

\* The result carries the task as the worker has it: its key and executor.
HandleResult(e, m) ==
    IF Mine(e, m.key) /\ Acceptable(row, m.seq)
    THEN /\ row' = row
         /\ tail' = Enqueue(tail, row, Op("result", m.status, m.seq,
                       [status |-> m.status, exec |-> e, key |-> m.key,
                        seq |-> m.base, lease |-> TRUE]))
    ELSE UNCHANGED <<row, tail>>

\* reconcileExecutorReportedTasks, for executor.register and executor.heartbeat
HandleHeartbeat(e, m) ==
    IF row.exec = e /\ row.status \notin Final /\ \A i \in 1..Len(tail) : tail[i].kind # "report"
    THEN IF m.local = "running" /\ row.status # "executing"
         THEN Report("report", "executing", 0)
         ELSE IF m.local = "queued" /\ row.status \in {"queued", "lost"}
              THEN Report("report", "assigned", 0)
              ELSE UNCHANGED <<row, tail>>
    ELSE UNCHANGED <<row, tail>>

Handle(e, m) ==
    /\ Room
    /\ CASE m.type = "ack"       -> HandleAck(e, m)
         [] m.type = "event"     -> HandleEvent(e, m)
         [] m.type = "result"    -> HandleResult(e, m)
         [] m.type = "heartbeat" -> HandleHeartbeat(e, m)
-----------------------------------------------------------------------------
(***************************************************************************)
(* Requests of users, cluster-routes.ts.                                   *)
(***************************************************************************)
Request == /\ requests < MaxRequests /\ requests + faults < MaxTrouble /\ Room
           /\ requests' = requests + 1
FreshKey == requests + 2
Reset(r, e, lease) ==
    [r EXCEPT !.status = "queued", !.exec = e, !.key = FreshKey, !.seq = 0, !.lease = lease]

\* The new row is written through saveDistributedTaskAndWait, which keeps the
\* cached row when that one has the higher event number; the event that
\* follows then writes the cached row over the new one, which the database may
\* have shown meanwhile.
Assign(e) ==
    /\ Request
    /\ IF row.seq = 0 THEN WriteAndReport(Reset(row, e, FALSE), "queued")
       ELSE \/ Report("event", "queued", 0)
            \/ /\ tail = <<>> /\ row' = Reset(row, e, FALSE)
               /\ tail' = Enqueue(tail, row, Op("event", "queued", 0, NoRow))
    /\ UNCHANGED <<pass, sends, sock, stale, network, worker, starts, faults, ended, damage>>

Retry ==
    /\ Request /\ row.status \in Final \cup {"lost"}
    /\ WriteAndReport(Reset(row, row.exec, TRUE), "queued")
    /\ UNCHANGED <<pass, sends, sock, stale, network, worker, starts, faults, ended, damage>>

Takeover(e) ==
    /\ Request /\ row.status # "executing"
    /\ WriteAndReport(Reset(row, e, TRUE), "queued")
    /\ UNCHANGED <<pass, sends, sock, stale, network, worker, starts, faults, ended, damage>>

Cancel ==
    /\ Request /\ row.status \notin Final \cup {"lost"}
    /\ IF row.status = "executing"
       THEN /\ row.exec \in sock
            /\ Deliver(row.exec, [type |-> "cancel"])
            /\ Report("event", row.status, 0)
       ELSE /\ down' = down
            /\ row' = row
            /\ tail' = Enqueue(tail, row, Op("result", "cancelled", 0,
                           [row EXCEPT !.status = "cancelled", !.lease = FALSE]))
    /\ UNCHANGED <<pass, sends, sock, stale, link, conn, outbox, worker, starts,
                   faults, ended, damage>>
-----------------------------------------------------------------------------
(***************************************************************************)
(* The worker.  Its other tasks may fill its slots, so that an assigned    *)
(* task waits in its queue.                                                *)
(***************************************************************************)
\* sendToControlPlane.  The outbound queue takes what the socket refuses; what
\* a socket takes that no longer carries anything is lost.
Transmit(e, m) ==
    IF conn[e] = "down"
    THEN outbox' = [outbox EXCEPT ![e] = Append(@, m)] /\ UNCHANGED <<row, tail>>
    ELSE /\ conn[e] = "ready" => outbox[e] = <<>>   \* after what is being flushed
         /\ outbox' = outbox
         /\ IF e \in link THEN Handle(e, m) ELSE UNCHANGED <<row, tail>>

\* Mutant: the task is looked up again when the execution reports.
KeyHeld(x) == held[x.at].key

\* An execution reports under the key it began with.
KeyOf(x) == x.key

Ack(key) == [type |-> "ack", key |-> key]
Event(x) == [type |-> "event", key |-> KeyOf(x), seq |-> x.seq + 1,
             status |-> <<"preparing", "executing">>[x.step + 1]]
Result(key, seq, status, base) ==
    [type |-> "result", key |-> key, seq |-> seq, status |-> status, base |-> base]

\* Mutant: the first event takes the number the task came with.
ExecutionFromLast(e, task) == [at |-> e, key |-> task.key, seq |-> task.base - 1, step |-> 0]
Execution(e, task) == [at |-> e, key |-> task.key, seq |-> task.base, step |-> 0]
Begin(e, task) ==
    /\ starts < MaxStarts /\ starts' = starts + 1
    /\ local' = [local EXCEPT ![e] = "running"]
    /\ live' = live \cup {Execution(e, task)}

\* Mutant: runningTaskIds and assignedTasks are not looked at.
KnownQueued(e) == local[e] = "queued"

\* The worker has the task already, under whatever key.
Known(e) == held[e] # NoTask \/ local[e] # "none"

\* handleTaskMessage for task.assign, with the drain of the queue after it
ReceiveAssign(e) ==
    /\ conn[e] # "down" /\ down[e] # <<>> /\ Head(down[e]).type = "assign"
    /\ down' = [down EXCEPT ![e] = Tail(@)]
    /\ LET task == [key |-> Head(down[e]).key, base |-> Head(down[e]).base]
       IN /\ held' = [held EXCEPT ![e] = task]
          /\ IF Known(e)
             THEN UNCHANGED <<local, live, starts, row, tail, outbox>>
             ELSE /\ Transmit(e, Ack(task.key))
                  /\ \/ Begin(e, task)
                     \/ /\ local' = [local EXCEPT ![e] = "queued"]
                        /\ UNCHANGED <<live, starts>>
    /\ UNCHANGED <<pass, sends, sock, stale, link, conn, requests, faults, ended, damage>>

\* ... and for task.cancel
ReceiveCancel(e) ==
    /\ conn[e] # "down" /\ down[e] # <<>> /\ Head(down[e]).type = "cancel"
    /\ down' = [down EXCEPT ![e] = Tail(@)]
    /\ live' = {x \in live : x.at # e}
    /\ held' = [held EXCEPT ![e] = NoTask]
    /\ local' = [local EXCEPT ![e] = "none"]
    /\ IF held[e] = NoTask THEN UNCHANGED <<row, tail, outbox>>
       ELSE Transmit(e, Result(held[e].key, 0, "cancelled", held[e].base))
    /\ UNCHANGED <<pass, sends, sock, stale, link, conn, counts, ended, damage>>

\* drainAssignedQueue, when another task has left its slot
Start(e) ==
    /\ local[e] = "queued"
    /\ Begin(e, held[e])
    /\ UNCHANGED <<server, network, held, requests, faults, ended, damage>>

\* emit of startTaskLifecycle
Emit(x) ==
    /\ x \in live /\ x.step < Step
    /\ live' = (live \ {x}) \cup {[x EXCEPT !.seq = @ + 1, !.step = @ + 1]}
    /\ Transmit(x.at, Event(x))
    /\ UNCHANGED <<pass, sends, sock, stale, link, conn, down, held, local, counts, ended, damage>>

\* The end of executeAssignedTask: onFinish, then the result.
Finish(x) ==
    /\ x \in live /\ x.step = Step
    /\ live' = live \ {x}
    /\ held' = [held EXCEPT ![x.at] = NoTask]
    /\ local' = [local EXCEPT ![x.at] = "none"]
    /\ \E status \in Outcome :
         /\ ended' = ended \cup {[at |-> x.at, key |-> x.key, status |-> status]}
         /\ Transmit(x.at, Result(KeyOf(x), x.seq + 1, status, 0))
    /\ UNCHANGED <<pass, sends, sock, stale, link, conn, down, counts, damage>>

Presence(e) == [type |-> "heartbeat", local |-> local[e]]
Heartbeat(e) ==
    /\ conn[e] # "down" /\ e \in link
    /\ Transmit(e, Presence(e))
    /\ UNCHANGED <<pass, sends, sock, stale, link, conn, down, worker, counts, ended, damage>>
-----------------------------------------------------------------------------
(***************************************************************************)
(* Connections.                                                            *)
(***************************************************************************)
Strike(e) == /\ e \in Fragile /\ faults < MaxFaults /\ requests + faults < MaxTrouble
             /\ faults' = faults + 1

\* A connection stops to carry messages; neither end has noticed yet.
Break(e) ==
    /\ e \in link /\ Strike(e)
    /\ link' = link \ {e}
    /\ down' = [down EXCEPT ![e] = <<>>]
    /\ UNCHANGED <<server, conn, outbox, worker, requests, starts, ended, damage>>

\* onClose of the worker's websocket
WorkerNotices(e) ==
    /\ e \notin link /\ conn[e] # "down"
    /\ conn[e] = "ready" => outbox[e] = <<>>
    /\ conn' = [conn EXCEPT ![e] = "down"]
    /\ UNCHANGED <<server, link, down, outbox, worker, counts, ended, damage>>

\* onClose of executorWsService: the executor is offline, its tasks stay.
ServerNotices(e) ==
    /\ e \notin link /\ e \in sock
    /\ sock' = sock \ {e}
    /\ UNCHANGED <<row, tail, pass, sends, stale, network, worker, counts, ended, damage>>

\* syncExecutorLiveness and markExecutorStaleWorkLost after 45 s of silence:
\* only in the first case are tasks that were not started queued again.
HeartbeatTimeout(e) ==
    /\ e \notin link /\ e \notin stale /\ Room /\ Expires
    /\ stale' = stale \cup {e} /\ sock' = sock \ {e}
    /\ IF row.exec = e /\ row.status \in {"assigned", "preparing"} /\ e \in sock
       THEN WriteAndReport([row EXCEPT !.status = "queued", !.lease = FALSE], "queued")
       ELSE IF row.exec = e /\ row.status = "executing" THEN Report("event", "lost", 0)
       ELSE UNCHANGED <<row, tail>>
    /\ UNCHANGED <<pass, sends, network, worker, counts, ended, damage>>

\* The executor comes back without the task, and no lease runs on it.
Forgotten(e) ==
    /\ row.exec = e /\ local[e] = "none"
    /\ \A i \in 1..Len(outbox[e]) : outbox[e][i].type # "result"
    /\ \/ row.status = "executing"
       \/ row.status \in {"assigned", "preparing"} /\ ~row.lease
       \/ tail # <<>> \/ outbox[e] # <<>>

\* onOpen of both ends
Connect(e) ==
    /\ conn[e] = "down" /\ e \notin link
    /\ link' = link \cup {e} /\ conn' = [conn EXCEPT ![e] = "open"]
    /\ sock' = sock \cup {e} /\ stale' = stale \ {e}
    /\ sends' = IF row.exec = e /\ row.status = "assigned"
                THEN sends \cup {Sending(e, row, TRUE)} ELSE sends
    /\ damage' = (damage \/ Forgotten(e))
    /\ UNCHANGED <<row, tail, pass, down, outbox, worker, counts, ended>>

\* After refreshPreviewIngressState: executor.register, then the outbound
\* queue, which Flush hands to the server message by message.
Register(e) ==
    /\ conn[e] = "open"
    /\ conn' = [conn EXCEPT ![e] = "ready"]
    /\ IF e \in link THEN Room /\ HandleHeartbeat(e, Presence(e)) ELSE UNCHANGED <<row, tail>>
    /\ UNCHANGED <<pass, sends, sock, stale, link, down, outbox, worker, counts, ended, damage>>

Flush(e) ==
    /\ conn[e] = "ready" /\ outbox[e] # <<>>
    /\ LET m == Head(outbox[e])
       IN IF e \in link THEN Handle(e, m) ELSE UNCHANGED <<row, tail>>
    /\ outbox' = [outbox EXCEPT ![e] = Tail(@)]
    /\ UNCHANGED <<pass, sends, sock, stale, link, conn, down, worker, counts, ended, damage>>

\* The worker process ends and starts again; nothing of its queue is stored.
Crash(e) ==
    /\ Strike(e)
    /\ held' = [held EXCEPT ![e] = NoTask] /\ local' = [local EXCEPT ![e] = "none"]
    /\ live' = {x \in live : x.at # e}
    /\ outbox' = [outbox EXCEPT ![e] = <<>>] /\ conn' = [conn EXCEPT ![e] = "down"]
    /\ link' = link \ {e}
    /\ down' = [down EXCEPT ![e] = <<>>]
    /\ UNCHANGED <<server, requests, starts, ended, damage>>
-----------------------------------------------------------------------------
Init ==
    /\ row = [status |-> "queued", exec |-> First, key |-> 1, seq |-> 0, lease |-> FALSE]
    /\ tail = <<>> /\ pass = {} /\ sends = {}
    /\ sock = Executor /\ stale = {} /\ link = Executor
    /\ conn = [e \in Executor |-> "ready"]
    /\ down = [e \in Executor |-> <<>>] /\ outbox = [e \in Executor |-> <<>>]
    /\ held = [e \in Executor |-> NoTask] /\ local = [e \in Executor |-> "none"]
    /\ live = {} /\ ended = {} /\ damage = FALSE
    /\ requests = 0 /\ starts = 0 /\ faults = 0

ServerStep == SyncWrite \/ Reclaim \/ Pick \/ Claim
User == (\E e \in Executor : Assign(e) \/ Takeover(e)) \/ Retry \/ Cancel
Worker(e) == ReceiveAssign(e) \/ ReceiveCancel(e) \/ Heartbeat(e) \/ Start(e)
Connection(e) == \/ Break(e) \/ WorkerNotices(e) \/ ServerNotices(e)
                 \/ HeartbeatTimeout(e) \/ Connect(e) \/ Register(e)
                 \/ Flush(e) \/ Crash(e)

Next ==
    \/ ServerStep \/ User
    \/ \E s \in sends : Send(s)
    \/ \E x \in live : Emit(x) \/ Finish(x)
    \/ \E e \in Executor : Worker(e) \/ Connection(e)

Spec == Init /\ [][Next]_vars

Fairness ==
    /\ WF_vars(SyncWrite) /\ WF_vars(Reclaim \/ Pick \/ Claim)
    /\ WF_vars(\E s \in sends : Send(s))
    /\ WF_vars(\E e \in Executor : ReceiveAssign(e))
    /\ WF_vars(\E e \in Executor : Start(e))
    /\ SF_vars(\E x \in live : Emit(x) \/ Finish(x))
    /\ WF_vars(\E e \in Executor : WorkerNotices(e) \/ Connect(e))
    /\ SF_vars(\E e \in Executor : Register(e) \/ Flush(e))
FairSpec == Spec /\ Fairness
-----------------------------------------------------------------------------
(***************************************************************************)
(* Properties.                                                             *)
(***************************************************************************)
Ops  == [kind : {"event", "report", "result"}, status : Status, seq : Seqno,
         row : Row \cup {NoRow}, over : BOOLEAN]
Runs == [at : Executor, key : Key, seq : Seqno, step : 0..Step]
Ends == [at : Executor, key : Key, status : Outcome]
FromServer == [type : {"assign"}, key : Key, base : Seqno] \cup [type : {"cancel"}]
FromWorker ==
    [type : {"ack"}, key : Key]
    \cup [type : {"event"}, key : Key, seq : Seqno, status : {"preparing", "executing"}]
    \cup [type : {"result"}, key : Key, seq : Seqno, base : Seqno,
          status : Outcome \cup {"cancelled"}]

\* The variables stay in their types.
TypeOK ==
    /\ row \in Row /\ tail \in Seq(Ops)
    /\ pass \subseteq Executor
    /\ sends \subseteq [to : Executor, key : Key, seq : Seqno, open : BOOLEAN]
    /\ sock \subseteq Executor /\ stale \subseteq Executor /\ link \subseteq Executor
    /\ conn \in [Executor -> {"down", "open", "ready"}]
    /\ down \in [Executor -> Seq(FromServer)]
    /\ outbox \in [Executor -> Seq(FromWorker)]
    /\ held \in [Executor -> Task \cup {NoTask}]
    /\ local \in [Executor -> {"none", "queued", "running"}]
    /\ live \subseteq Runs /\ ended \subseteq Ends /\ damage \in BOOLEAN
    /\ requests \in Nat /\ starts \in Nat /\ faults \in Nat

\* A worker executes the task once at a time, however often it is assigned to
\* it: by the claim, again when the connection opens, after an expired lease,
\* and with another key after a retry or a takeover (task.ts:27-43).
OneExecution == \A x, y \in live : x.at = y.at => x = y

\* A completed or failed row says how an execution by its own executor and under
\* its own key ended: no result of an earlier run, of another executor or of a
\* cancelled attempt is mistaken for one of this run, whatever happens to the
\* row between the check of the result and its write (task-sync.ts:268-290).
ResultFromRun == row.status \in {"completed", "failed"} =>
    [at |-> row.exec, key |-> row.key, status |-> row.status] \in ended

Answers(m) ==
    m.type = "result" /\ m.key = row.key /\ (m.seq > row.seq \/ m.seq = 0)

\* What will move the row: the server, a lease, a reconnection, or the worker.
Moves ==
    LET e == row.exec
    IN \/ tail # <<>> \/ sends # {} \/ pass # {}
       \/ row.status = "queued"
       \/ row.status \in {"assigned", "preparing"} /\ row.lease
       \/ e \notin link
       \/ \E x \in live : /\ x.at = e /\ x.key = row.key
                          /\ x.seq + (Step - x.step) + 1 > row.seq
       \/ local[e] = "queued" /\ held[e].key = row.key
       \/ \E i \in 1..Len(outbox[e]) : Answers(outbox[e][i])
       \/ down[e] # <<>> /\ Head(down[e]).type = "assign"

\* A task that has not ended and is not lost is always in somebody's hands, if
\* users leave it alone, unless its executor came back without it before 45 s
\* were over: nothing in reconcileExecutorReportedTasks looks for tasks that the
\* worker does not report (executor-ws-message-handler.ts:303-337).
Attended == requests = 0 =>
    row.status \in Final \cup {"lost"} \/ damage \/ Moves

\* Such a task comes to its end, or is lost.
Settles ==
    <>[](\/ requests > 0 \/ damage \/ row.status \in Final \cup {"lost"}
         \/ starts = MaxStarts /\ \E e \in Executor : local[e] = "queued")

\* Rows, messages, leases and connections implement what TaskRuns promises: the
\* executions of a worker follow one another, each keeps its key to its end, and
\* the row records an end that happened (task.ts:27-43, task-sync.ts:268-424).
RunningKeys == [e \in Executor |-> {x.key : x \in {y \in live : y.at = e}}]
Recorded ==
    IF row.status \in {"completed", "failed"}
    THEN {[at |-> row.exec, key |-> row.key, status |-> row.status]} ELSE {}
Promise == INSTANCE TaskRuns WITH running <- RunningKeys, outcome <- Recorded
KeepsPromise == Promise!Spec

\* What the reply of the assign request says: the executor has been changed
\* (cluster-routes.ts:781-783).
AssignTakesEffect == [][\A e \in Executor : Assign(e) => row'.exec = e]_vars
=============================================================================
