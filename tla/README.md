# wemux in TLA+

wemux is a control plane for coding agents. A user opens a chat for a task; the
control plane (`src/apps/server`, Hono on Node with Postgres) hands each message
to an executor (`src/apps/worker`, a daemon on some machine), one turn at a time
per session. Several control-plane nodes may share one database, while an
executor has its websocket on one of them. This directory models the parts of
that where processes meet: the queue of chat messages, the session lease, the
node-local mirrors and how they are kept up to date, the turns of a chat and how
they are stopped, and the tasks that are executed by workers under leases and
unreliable connections. Source paths below are
relative to `src/apps/server/src` unless they begin with `src/`.

## 1. Inventory

| component | state | operations | what is hard |
|---|---|---|---|
| task chat queue store, `storage/postgres/task-chat-queue-store.ts` | rows of `task_chat_queue_items` (pending, claimed by a `claim_id` until `lease_expires_at`, retry count), one row per session in `task_chat_session_leases`, the read mirror of the node | enqueue with dedupe, claim, complete, release, remove, sweep every 30 s, acquire / renew / release the lease, refresh the mirror | statements of several nodes in any order, expiry under a live holder, crashes, retry accounting |
| drain and turns, `services/task-chat-dispatch/turn-execution.ts`, `routes/task-chat-ws-route.ts`, `routes/task-interaction-routes.ts` | the drain loop of each session and node, its "go round again" flag | direct send, drain, turn, scheduling of drains by sends, turns, sweeps, reopened chats and executors that come online | every `await` is a place where another node may act; early exits; lost wakeups |
| runtime state, `services/task-chat-dispatch/runtime-state.ts` | execution slots, abort controllers, pending stop reasons of a node | take, release and expire a slot; stop a turn on the node that runs it | slots and leases must agree; stop messages race the beginning and the end of a turn |
| turn on an executor, `services/task-chat-dispatch/workspace-executor.ts`, `workspace-prompt-recovery.ts`, `services/task-chat-runtime-recovery.ts`, `control-plane/executor-ws-requests.ts` | the session's row with its runtime sequence, pending prompts, persisted prompts | send a prompt, wait, retry, abort, recover a response nobody waits for, mark sessions lost after a boot | the row has many writers; connections break without a notice; responses come after a restart |
| storage-change listener and refresh, `storage/postgres/storage-change-listener.ts`, `services/storage-change-sync-service.ts` | position in the event log, drain loop, pending tables, refresh in flight | LISTEN, notification, poll, batch reading, reconnect, debounced refresh | order of ids against order of commits, broken connections, requests that meet a running loop, failing refreshes |
| executor registry and sockets, `control-plane/executor-registry.ts`, `control-plane/executor-ws-service.ts` | sockets of this node, online status | register, unregister, heartbeat, requests | availability is known per node; the online event fires on one node |
| distributed task dispatch, `control-plane/task-dispatch.ts`, `cluster/task-sync.ts`, `storage/postgres/distributed-task-store.ts` | rows of `distributed_tasks` with their cached copy, task leases of 30 s, event numbers, one chain of operations per task | claim, send, reclaim, assign, retry, take over, cancel, apply events and results, reconcile with what workers report, give up silent executors | an operation between its read and its write, repeated assignments, reclaim while a worker runs, lost, repeated and overtaken events |
| worker prompt queue, `src/apps/worker/src/runtime/message-handler/prompt-queue.ts` | queued prompts, abort controllers, places under the concurrency | queue, start, cancel, abort all on a disconnection | a cancelled agent lives on until its process ends |
| worker, `src/apps/worker/src/runtime` | assigned, queued and running tasks, executions and their event numbers, prompt queue, bounded outbound queue | receive, start, cancel, report, finish, reconnect and flush | two executions of one task, replay after a reconnection, loss on a dead socket and at the bound |
| the rest: authentication, conversations and inbox, automations, previews, integrations, scheduling brain, billing, web, desktop and mobile clients, meeting runtime | rows and views | CRUD, adapters, rendering | little coordination beyond what the components above give |

How they interact: a chat message arrives at the node of the client's websocket.
`handleSend` tries to take the local slot and the session lease and to run the
message at once; otherwise it inserts a row and schedules the node's drain loop.
A drain loop takes slot and lease, claims the head of the queue, runs the turn
over the executor's socket, deletes or gives back the row, and releases. A task that is
not a chat is claimed by the node, sent to the executor, and moved by what that
worker reports until it has a result. Every write leaves a row in `storage_change_events` and a notification, by which other
nodes refresh their mirrors. Timers sweep what crashed nodes left behind.

What makes each component correct:

* queue and lease: one turn at a time per session over all nodes; claims and
  leases are changed by their holder or after they expire, by nobody else; a
  message is not run more often than its budget, not dropped unsent, and comes
  back after a crash; slots are not leaked;
* drains: they return, they do not act on a stale mirror, and a queued message is
  sent in the end;
* listener: every event is handled once and in order, the poll is only a safety
  net, and the caches of a node catch up;
* turns: a stop reaches the turn it was meant for and its agent, no agent works for
  nobody, answers stay with their turn, and every turn ends;
* dispatch: a worker executes a task once at a time, however often it is assigned;
  a recorded result is the result of an execution of this run by this executor;
  a task that has not ended is in somebody's hands, and comes to its end.

`PROJECT.json` lists the components with what is left out of each, and 40 hazards
at their lines with the properties that watch them.

## 2. Modules

| module | about |
|---|---|
| `TaskChatQueue` | the queue, the lease, drains, direct sends, sweeps, mirrors, crashes |
| `SessionQueue` | what `TaskChatQueue` promises to the users of a session, without nodes, rows and leases |
| `MCTaskChatQueue` | the dedupe keys its TLC runs use |
| `TaskChatQueue_proofs` | theorems about `TaskChatQueue`, the refinement of `SessionQueue` among them |
| `StorageChangeSync` | the event log, the listener of one node and the refresh of its caches |
| `MCStorageChangeSync` | the symmetry set of the tables |
| `StorageChangeSync_proofs` | theorems about `StorageChangeSync` |
| `TaskChatStop` | a turn with its prompt, the stop of it, the worker's prompt queue, late responses, restarts |
| `MCTaskChatStop` | the root of its TLC run |
| `TaskChatStop_proofs` | theorems about `TaskChatStop` |
| `TaskDispatch` | a task's row, its serialised operations, the worker and the connection between them |
| `TaskRuns` | what `TaskDispatch` promises, without rows, messages and connections |
| `MCTaskDispatch` | the names of the executors |
| `TaskDispatch_proofs` | theorems about `TaskDispatch`, the refinement of `TaskRuns` among them |
| `TaskAttended_proofs` | the theorem that a task users leave alone is in somebody's hands |

### TaskChatQueue

One step is one SQL statement (or one transaction), or one run of JavaScript
between two awaits. A worker is the drain loop of a node, its handler of user
requests, its sweep timer or its storage-change listener; `pc[w]` says which
statement it sends next. The correspondence:

| model | code |
|---|---|
| `rows[i]` | the row of message `i`; `done` and `gone` remember why a row was deleted, `none` that it was not inserted yet |
| `lease` | the row of the session in `task_chat_session_leases` |
| `claim`, `lease.id` | the UUIDs `claim_id` and `lease_id`, named by the worker that drew them |
| `left` | ticks until `lease_expires_at`; negative when it has passed |
| `slot`, `again`, `mirror` | `activeTaskChatExecutionSessions`, `pendingTaskChatDrainSessions`, `pendingQueueMirror` of each node |
| `home` | the node on which the executor is online |
| `InsertLease`, `TakeoverLease` | the two statements of `acquireTaskChatSessionLeaseDb` |
| `ReadHead` … `UnlockDrain` | `runTaskChatQueueDrain`, await by await |
| `SendMessage`, `Enqueue`, `Lookup`, `LookAgain`, `Queued`, `Remove`, `Removed` | the websocket handlers and the statements below them |
| `TurnSucceeds`, `TurnThrows`, `Renew` | `executeTaskChatTurn` with its renewal timer |
| `SweepClaims`, `SweepLeases`, `Swept` | the statements of the sweep, and the drain it schedules |
| `SyncRead`, `Synced` | the refresh of the mirror after a storage change |
| `Crash`, `Restart`, `ExecutorConnects`, `ExecutorLeaves`, `ClientOpens`, `Tick` | the world around |

Abstractions. One session, because sessions share no row, slot or drain. The
contents of messages, turns and of the worktree conflict test are left out: a
busy session or a failed set-up is a choice (`"obstacle"`). A query never fails
except by a crash of its node. The executor's status is known to all nodes at
once; which node has its socket is not. The renewal timer runs from
`executeTaskChatTurn` on (`Running`); the set-up before it is short and not renewed.
`registerSocket` is one step. All clocks agree.

Two assumptions about time are CONSTANTS. `RenewalsTimely`: a live
worker's lease does not run out (it is renewed each 60 s of 300 s).
`TurnsTimely`: no turn outlives the five minutes of its claim, which nothing
renews. Where a property needs one, the property or its run names it.

`SessionQueue` is its abstract specification: the messages of a session with a
stage and the tries each was charged with, and the one message that is worked on.
`Stages` reads the stage from the status of the row, `Tries` the retries of a row that
is queued, `Turns` the work from the workers whose label is one of a turn (`PhaseOf`).
Drains that look for work, refreshed mirrors and leases are stutters.

### StorageChangeSync

| model | code |
|---|---|
| `log`, `open` | `storage_change_events`: committed rows, and rows of transactions that have taken an id and not committed |
| `queries` | the queries the listener's connection has not answered, in order |
| `cursor`, `requested`, `drain`, `from`, `batch` | `lastSeenEventId`, `drainRequested`, `drainPromise` and the query of its loop |
| `pending`, `timer`, `refreshing`, `work` | `pendingTables`, `pendingRefreshTimer`, `refreshPromise`, the tables of the round |
| `Begin`, `Commit` | a write: its event row, and the commit that shows row and notification |
| `Notified`, `Poll` | the two callers of `requestDrain` besides a reconnection |
| `Connect`, `Listening`, `Latest` | `connect` up to each of its answers |
| `Drop` | `scheduleReconnect` with `releaseActiveClient`: an error, the end of the connection or a query that failed |
| `Answer`, `Deliver` | a batch read by the server, and handled by the node |
| `Fire`, `Read`, `Assign`, `Fail` | the debounce timer and `refreshChangedState` |
| `Restart` | a process that ends and boots again: caches are loaded, then the listener starts |

`publishRealtimeEvent` inserts its event and notifies in one transaction. The
statement triggers that do so for the other tables are not in the repository;
they are modelled the same way. A table stands for the store that caches it, and
its content for the number of its writes; a round of a refresh may read its
tables in any order, the code has a fixed one. The retention sweep (events older
than seven days) and the forwarding of realtime payloads are left out.

`May` says what a run admits. Without `"early"`, nothing is written and no
connection breaks between the boot and the first position; without
`"reorder"`, transactions commit in the order of their ids. Both are assumptions
the code does not justify. With `"reorder"` events are lost, which `sync_lag` shows.
With `"early"` TLC finds `ExactlyOnce` violated: a notification (or, after a failed
first connection, a poll) before the answer of `readLatestEventId` reads the log from
its beginning, although the retention sweep's comment says that history is not
replayed after a restart (`storage-change-sync-service.ts:264`). Under both assumptions
everything else holds.

### TaskChatStop

One session, the node that runs its turns, another node that relays stops, and
one worker. A step is a run of JavaScript between two awaits, or a message.

| model | code |
|---|---|
| `phase`, `turn` | where `executeTaskChatTurn` stands, and how many turns there were |
| `slot`, `reason`, `Controlled`, `aborted` | `activeTaskChatExecutionSessions`, `pendingTaskChatStopReasons`, `activeTaskChatAbortControllers` and the signal of the turn |
| `row`, `base` | the session with its `runtimeSequence`, in memory and in the database, and the copy that the turn saves |
| `request`, `Pending`, `captured` | the last `requestId`, its entry in `pendingAgentPrompts`, the socket it is sent on |
| `records` | the prompts that `registerPendingWorkspacePrompt` persists |
| `relay` | a relayed stop between its answer and `handleStop` of the other node |
| `sock`, `closing`, `link`, `conn`, `down` | the socket in the registry, those taken out of it that have yet to close, the connection that carries messages, the connection as the worker sees it, messages to the worker |
| `queue`, `running`, `known`, `agents`, `outbox` | `queuedPromptRequestIds`, `runningTaskIds`, `pendingPromptAborts`, the agent processes, `reliableOutboundQueue` |
| `BeginTurn` … `Release` | `executeTaskChatTurn` with `runWorkspaceMessageViaExecutor` and `requestAgentPrompt`, await by await; `Expire`, `Throw` and `GiveUp` are its timers and early exits |
| `LocalStop`, `RelayStop`, `RelayReturns` | `handleStop` with `stopTaskChatExecutionAcrossNodes`, on the node of the turn and through the relay |
| `Respond` | the response to a prompt, with `recoverPendingWorkspacePromptResponse` when nobody waits for it |
| `ReceiveRequest`, `ReceiveCancel`, `Finish`, `Flush`, `abortActivePrompts` | the worker's prompt queue and daemon |
| `SocketCloses`, `HeartbeatTimeout`, `LateClose` | `onClose` of the registered socket, `syncExecutorLiveness`, `onClose` of a socket that it had removed |
| `Break`, `WorkerNotices`, `Connect`, `WorkerRestarts`, `ServerRestarts` | connections and processes |

Abstractions. Turns follow one another, which `TaskChatQueue` shows of the lease.
The row in memory and in the database are one variable; `saveWorkspaceSession`
refuses a row that is older than the stored one, and where that depends on the time
of a turn's set-up, either outcome is possible. The worker's other executions appear
as the id 0, which may hold a place from the beginning. A response is handled in the
step that sends it. A heartbeat timeout counts as a fault. Not modelled: the signal that a caller may add to that of the
turn (none does), the timeout of a prompt (turns of a workspace set none), streaming of the answer, and conversations of the main chat, which share
`pendingAgentPrompts`.

The history variables `asked`, `late`, `stray`, `told` and `thrown` serve the properties only.

### TaskDispatch

One task, one control-plane node, some executors. The correspondence:

| model | code |
|---|---|
| `row` | the task's row and its cached copy; `key` is `idempotencyKey`, which names a run, `seq` is `workerEventSequence` |
| `tail` | `taskSyncTails`: the operations of `createTaskSyncSerializer` in the order of their calls; the first has read the row and is about to write |
| `pass`, `sends` | `reconcileControlPlaneTaskQueue` between its read and its claim, and an assignment that is being prepared |
| `sock`, `stale` | the registry's sockets, `staleWorkNotifications` |
| `link`, `conn` | whether the connection still carries messages, and how the worker sees it |
| `down`, `outbox` | messages on their way to a worker, `reliableOutboundQueue` |
| `held`, `local`, `live` | `assignedTasks`, `queuedTaskIds` and `runningTaskIds`, the executions with the key and event number their closures hold |
| `Reclaim`, `Pick`, `Claim`, `Send` | `reclaimExpiredTaskLeases`, the pass, `claimDistributedTaskForDispatch`, the end of `dispatchTaskToExecutor` |
| `SyncWrite` | `syncDistributedTaskEventNow`, `syncDistributedTaskResultNow` and the conditional upsert below them |
| `HandleAck`, `HandleEvent`, `HandleResult`, `HandleHeartbeat` | the cases of `handleExecutorMessage` |
| `Assign`, `Retry`, `Takeover`, `Cancel` | the requests of `routes/cluster-routes.ts` |
| `ReceiveAssign`, `ReceiveCancel`, `Start`, `Emit`, `Finish`, `Heartbeat` | `task.ts`, `task-lifecycle.ts` and `daemon.ts` of the worker |
| `Break`, `WorkerNotices`, `ServerNotices`, `HeartbeatTimeout`, `Connect`, `Register`, `Flush`, `Crash` | websockets, the 45 s of silence, and a worker process that ends |

Abstractions. Messages of one connection arrive in order and a worker reads
nothing of the server but `down`, so a message that arrives is handled in the step
that sends it. A heartbeat and the report it causes are one step, and at most one
such report waits in `tail`. A report that repeats what was said within 1.5 s, and
one that a worker's clock dates before the last write, may be refused: a
nondeterministic choice. The row in the database and the copy in memory are one
variable; where the two rules of acceptance differ, either outcome is possible. An
execution has two events (`preparing`, `executing`) and a result. The worker's
other tasks appear as the choice to queue an assigned task. Syncing back of files,
task timeouts and the bound of the outbound queue are left out.

`Prompt` says that the server's own steps take less than its timeouts (30 s, 45 s):
no lease expires between the claim and the send. `damage` is a history variable,
set when an executor comes back without a task that the row says it has and no
lease runs on, and when an ended task is opened again by a late write.

`TaskRuns` has three variables: the keys each worker executes, the ends of
executions, and the recorded outcome. The mapping takes the first from `live`, the
last from `row`.

## 3. Runs

Deadlock is not checked in any run: all the users' messages may be handled, the
bounds on crashes, connections and writes be used up, and the system rest.

| run | question | bounds |
|---|---|---|
| `queue_nodes` | one turn at a time, bounded turns, no leaked slot, fenced claims and leases, fair charges, refinement of `SessionQueue` | 2 nodes, 2 messages, 1 retry, 1 crash, 1 connection, leases of 1 tick |
| `queue_requests` | all handlers of one node: removal, dedupe, failed set-ups, reopened chats, slot expiry | 1 node, 2 messages with one key |
| `queue_liveness` | recovery, return of drains, convergence of mirrors | 2 nodes, 1 crash, fairness |
| `queue_long_turn` | violated: the sweep spares live turns | no `TurnsTimely` |
| `queue_lost_wakeup` | violated: a message queued offline is sent by itself | fairness, both listeners |
| `sync_catchup` | exactly once, drained when idle, current when quiet, caches catch up | 2 tables, 3 writes, batches of 2, 2 faults, fairness |
| `sync_lag` | violated: lag 0 means caught up | 2 overlapping transactions |
| `sync_stranded` | violated: queued tables are refreshed | 1 failing refresh, fairness |
| `stop` | stops reach their turn only, no orphaned agents, answers in order, quiet sessions, turns end | 2 turns of 2 prompts, 1 stop, 2 faults, 1 place, fairness |
| `stop_late_close` | violated: a stale close preserves new prompts | as `stop`, without fairness |
| `dispatch` | one execution per worker, true results, nobody's task, settling, refinement of `TaskRuns` | 1 executor, 2 operations in the serializer, 2 executions, 1 request or 1 fault, fairness |
| `dispatch_assign` | violated: the assign request changes the executor | 2 executors, 1 request |

Why the bounds are enough. Two nodes with four workers each give every pair of
statements that compete for a row; a third node would only add another loser. Two
messages give a head and a successor, hence stale mirrors and a duplicate. A
retry budget of one has the first, the last and the exhausted attempt. A lease
of one tick can be fresh, due for renewal and expired. One crash can hit any
worker at any label. For the listener, a batch of two with three writes has
empty, short and full batches, and two faults cover a broken connection during
the recovery from another one, a failing refresh after a restart and so on. In the stop run two turns are enough for a stop, an
answer or a recovered response to reach the wrong one; a stop falls into any phase
of the first, the second or neither; two faults break a connection and restart a
process in any order, and make a worker miss what was sent in between. The code may
send four prompts in a turn; two have the first, the one that is repeated and the
limit. In the dispatch run a serializer of two has an operation that runs and one that waits and
is overtaken; two executions are the first one and one that a redelivered or reset
assignment starts; a request or a fault at any point of the first run gives each of
the four requests, a connection lost in any state of worker and row, and a worker
restarted in any of them. Requests and faults in one behaviour, and two executors,
are covered for the safety properties by the proofs, which bound nothing.

Properties of the passing runs, beyond the type invariants:

* `MutualExclusion`: between obtaining the session lease and releasing it there is
  at most one worker of all nodes (under `RenewalsTimely`);
* `TurnsBounded`: turns started for a message are at most its budget, one more
  per crash (under `TurnsTimely`); a sweep gives claims back uncharged, and would
  run a message for ever if it took claims of live turns;
* `SlotHasOwner`, `DoneWasStarted`: no exit of the drain leaves the slot taken,
  none deletes an unsent message silently;
* `ClaimFencing`, `LeaseFencing`, `OnlyClaimerCharges`: what a step may not do to
  the rows of somebody else;
* `ClaimsRecover`, `LeasesRecover`, `DrainsReturn`, `MirrorConverges`: liveness;
* `ExactlyOnce`, `IdleMeansDrained`, `QuietMeansCurrent`, `CachesCatchUp`: for the
  listener, see the comments in the module.
* `StopHasCause`: a turn is aborted only when somebody stopped this turn, though the
  request may be kept until the turn has a controller;
* `WithinCapacity`: agents do not exceed the concurrency, also after cancellations;
* `NoOrphans`: an agent works for a turn that waits, or its worker was told, will be
  told, or will notice that it is disconnected; exempt is what a late close rejected
  (`stray`, finding 6);
* `RowsInOrder`, `QuietNotBusy`: no late save or recovered response is written over
  the row of a later turn, and a session without a turn is not left busy;
* `TurnsEnd`: every turn ends, in spite of lost messages;
* `OneExecution`: a worker executes the task once at a time, though it may receive
  it by the claim, by the reconnection, after an expired lease and under a new key;
* `ResultFromRun`: a completed or failed row tells the end of an execution by its
  executor under its key, whatever happened to the row between the check of the
  result and its write;
* `Attended`, `Settles`: a task users leave alone is in somebody's hands, and ends
  or is lost, unless its executor came back without it (`damage`), which the code
  does not look for;
* `KeepsPromise`: the steps of `TaskDispatch` are steps of `TaskRuns`;
* `ServesSession`: the steps of `TaskChatQueue`, of all nodes together, are steps of
  `SessionQueue`: the oldest waiting message is taken while none is worked on, its
  worker alone settles it, according to how the turn ended and the tries left, and it
  is put back uncharged only when nobody works on it any more.

Each has a mutant in `PROJECT.json`, a plausible bug of the code under which TLC
finds it violated.

Fairness. Postgres answers and commits, Node runs timers and callbacks that are
due, the execution of a turn returns (which `TaskChatStop` looks into), renewal and sweep timers fire, a node is
started again by its supervisor, an executor reconnects. All of it is weak
fairness per node or per timer; users owe nothing. `CachesCatchUp` exempts the
tables of a refresh that failed, which the code forgets.

In a turn the two processes are weakly fair: the server goes on while it has a step to
take or a closed socket to notice, the worker while it has a message to read, an agent
to end, a response to send or a connection to notice or make. Retries, stops,
exceptions, breaks and restarts owe nothing. An agent process
ends because its runner kills it when its controller is aborted, and otherwise by
itself.

For the dispatch: operations of the serializer, passes of the queue, sends, the
worker's message handler and its queue are weakly fair; they are callbacks and
promises. Broken connections are noticed and made again (timeouts and the worker's
reconnect loop). An execution's own steps and the flush of the outbound queue are
strongly fair, because another task's messages and heartbeats may take the room of
the serializer in between. Heartbeats, users and faults owe nothing.

What the properties leave out, because the code does it and promises nothing else:

* `Attended` and `Settles` hold for one fault. After a second one an assignment that
  is repeated may raise the event number of the row so that the queued result of the
  first execution is refused. Without `Prompt`, a send that finds no socket writes
  its old copy back over a row that was reclaimed and claimed again, and an assigned
  row without a lease is left.
* A turn that was stopped may still run to its end: the expiry of the slot deletes
  the stop that was kept for it, and a signal that is aborted before
  `requestAgentPrompt` adds its listener cancels nothing. A stop after the response
  is overwritten by `SaveAnswer`, and the result saved.
* `TurnsEnd` exempts a prompt that is registered after the prompts of its
  connection were rejected: it is never sent and waits for the next disconnection.
* `QuietNotBusy` exempts turns that ended with an exception after their row was
  saved as busy, which only a stop or a restart of the server repairs.
* A relayed stop is written into the row when the relay has returned, which may be
  in a later turn; the row is then marked stopped and the turn's result is refused.
* The recovery of a boot marks every running session without a distributed task lost,
  also those that run on another node of the cluster; the model has one node.

## 4. Findings

1. `queue_long_turn`. Turns of more than five minutes lose their claim to the
   sweep while they run; the message is claimed and run again when the session
   lease becomes free. The store's comment speaks of crashed nodes only.
2. `queue_lost_wakeup`. A message queued while the executor is offline may stay
   queued after it is back: the online event finds an old mirror on its node, and
   the refresh that corrects the mirror schedules no drain. The user was told that
   it would be sent automatically.
3. `sync_lag`. Event ids are taken at the INSERT and become visible at the commit;
   the position can pass an event that is not visible yet, which is then never
   handled, while the lag is 0.
4. `sync_stranded`. Tables whose timer fired during a refresh that then fails are
   left in `pendingTables` with no timer.
5. `dispatch_assign`. The assign request resets event number and executor of a task;
   the write goes through the rule that keeps the cached row with the higher event
   number, so for a task that has reported an event the cache keeps the old
   executor, and the event that follows writes it over the new one. The reply says
   that the executor was changed.
6. `stop_late_close`. A socket that has been silent for 45 s is taken out of the
   registry and closed; on a half-open connection its close event may come when the
   executor has connected again. `onClose` knows sockets that were replaced and not
   those that were removed, and rejects every prompt of the executor: the reply on the
   new connection is aborted, and no cancellation is sent, so that its agent works on
   for nobody. The test `executor-ws-service.test.ts:23` says that a stale close
   preserves new requests; it replaces the registry's check by a comparison with the
   registered socket.

## 5. Proofs

`TaskChatQueue_proofs` proves nine theorems for any nodes, messages, retry limit,
lease length, bounds and any of the options of `May`, from `QueueAssumption` alone
(types of the constants, and that the null values are not members); what needs an
assumption on time has it in the property or, for `Implements`, as a hypothesis. Each has the
shape of TLAPS's invariance proofs: the initial states, one step per action, and a
temporal step.

* `TypeCorrect`: `TypeOK` is inductive.
* `OneTurn` (`MutualExclusion`). The invariant alone is not inductive: nothing in it
  says that a lease that is free or expired has no live holder. `LeaseHeld` does:
  under `RenewalsTimely`, a worker between obtaining the lease and releasing it is
  the one that the row names, and the row has not expired. A grant needs a free or
  expired row, so nobody holds it; two holders would both be the one named.
* `LeaseFenced` (`LeaseFencing`) and `ClaimFenced` (`ClaimFencing`), with no
  assumption on time. `LeaseWriters` and `RowWriters` list the actions that write a
  row; each is then refuted, or is a step of the owner. For claims the direct sends
  need `OwnRequest`: a handler works on the row of a message that no other handler
  has and that is not in the table yet. `RequestKept` says how handlers keep their
  message.
* `ClaimerCharges` (`OnlyClaimerCharges`), from `RowWriters`.
* `SlotOwned` (`SlotHasOwner`), which is inductive: a step keeps slots and working
  workers, or frees the slot of the worker it stops, or takes it for one it starts.
* `DoneStarted` (`DoneWasStarted`), by `Sent`: a drain loop on its way to a completion
  has started a turn for its message, or has a task run to report its failure to;
  turns that were started stay counted (`StartedKept`).
* `TurnsLimited` (`TurnsBounded`). A count of turns says nothing of who may start the
  next one; `Budget` does. Under `TurnsTimely`, a drain loop between its claim and the
  end of its turn has the row, unexpired, unless a user removed the message
  (`ClaimKept`), and no other one is at the same message (`Alone`). The turns of a
  message are then covered by the retries its row was charged with, one for each
  crash, and one for the turn under way (`Covered`); without the last when no turn has
  started that is not settled (`Settled`, `AheadCovered`). A sweep charges nothing, and
  needs to charge nothing: the claims it finds expired belong to nobody, so a crash was
  counted. A step is one of a claimer that leaves its message (`LeaveStep`), a claim, the
  beginning of a turn, or one that leaves every claimer as it was (`QuietStep`).
* `Implements` (`ServesSession`), under `RenewalsTimely` and `TurnsTimely`: initial states
  map to initial states of `SessionQueue`, and every step to one of its steps or a
  stutter. The worker in a turn is at most one by `LeaseHeld`, and has the row it
  settles by `Budget`. `PutBack` needs that nobody is in a turn for an expired claim,
  `SendAtOnce` and `Enter` that a message that is sent was never queued (`OwnRequest`,
  `Untried`), and `Senders` that a handler's own turn is for a message without a row.

`TaskDispatch_proofs` proves, from `DispatchAssumption` alone, for any executors,
bounds, faults and requests, and with or without `Prompt`:

* `TypeCorrect`: `TypeOK` is inductive.
* `ExecutesOnce` (`OneExecution`). `Work` is the strengthening: a worker whose task is
  not running has no execution, and one that is running has at most one.
* `ResultsAreTrue` (`ResultFromRun`). A result is checked against the row when it
  arrives and written later, while the row changes. `Network` says that each result
  a worker has queued tells an execution that ended, or a cancelled task;
  `Messages` that each result operation in `tail` does; `Serial` that the first
  operation of `tail`, which writes the whole row it was given, carries such a
  result or a row whose status is not an end. Their conjunction `IInv` is inductive.
* `Implements` (`KeepsPromise`): initial states map to initial states of `TaskRuns`, and
  under `IInv` every action maps to one of its steps or to a stutter. `Record` needs
  `ResultsAreTrue`, `Begin` needs `ExecutesOnce`.

`TaskChatStop_proofs` proves, from `StopAssumption` alone, for any number of turns,
prompts and stops, any concurrency of the worker and any of the faults:

* `TypeCorrect`: `TypeOK`, strengthened by `Types`, which numbers the prompts by turn.
* `StopCorrect` (`StopHasCause`), by `Stops`: a stop that is kept, or that a
  signal carries, was asked of the turn that is under way, and nothing is kept between turns.
* `RowCorrect` (`RowsInOrder`) and `QuietCorrect` (`QuietNotBusy`). `Sequenced` says
  that no persisted prompt has a runtime sequence above that of the row, and that those
  of earlier turns lie below it, so that the guard of a recovered response is
  enough; `Quiet` that a busy row is the one its turn has written.
* `CapacityCorrect` (`WithinCapacity`), by `Places`: a prompt is in one of the wire, the
  queue, the agents and the outbound queue, the places taken are those of the agents,
  and no cancellation of an agent that the worker forgot is ever received.
* `OrphansCorrect` (`NoOrphans`), by `Served` (an agent whose prompt nobody waits
  for has lost its connection, or a cancellation is on its way) and `Wanted`: for a
  request that is still on the wire, that cancellation comes behind it. A late close
  that finds a prompt of an older connection leaves nobody behind, by `Elsewhere`: such
  a prompt is neither on the wire nor at the worker.

`StorageChangeSync_proofs` proves, for any tables, batch size, history and number of
writes, breaks, restarts and failing refreshes, and any of the other options of
`May`, under the assumption `Orderly` (the run `sync_catchup` has it; without it the
lost and replayed events appear):

* `TypeCorrect`: `TypeOK`; a position is an id of the log, so it needs the rest.
* `EventsOnce` (`ExactlyOnce`). It says nothing of the future, so it is not inductive.
  `Events` says that ids are contiguous and the visible events the first of them;
  `Wire` what may be under way on a connection at the same time, and that nothing is
  read without a position unless the log is empty; `Position` that the position an
  answer is handled with is the one it was asked for; `Batch` that the rows of an
  answer are the next ones, and all of them when the batch is short, unless a
  notification is on its way or noted. Then a delivery extends what was handled by
  exactly the next ids.
* `IdleDrained` (`IdleMeansDrained`), by `Awake`: a listener that is behind the log
  has been notified, is reading, or has no position yet.
* `QuietCurrent` (`QuietMeansCurrent`), by `Current`: a cache holds what was written,
  or its table is pending, in the current round and not read since the last change,
  or the subject of an event that is not handled yet. A change during a round is the
  case for which the code reads a table a second time.

`TaskAttended_proofs` proves, from `DispatchAssumption` and `Prompt`, for any executors
and bounds:

* `AlwaysAttended` (`Attended`), while `faults <= 1`. `Attended` names what may move the
  row next, and a step that uses up one of these has to leave another, so the invariant
  `AInv` follows the task from hand to hand. It speaks of states with no request, at most
  one fault, no `damage` and a task that has not ended (`Alone`), which no step enters
  from outside. `Place` says that only `First` ever hears of the task and what it may
  hold; `Attending` that, while its connection carries messages, the task is prepared
  for sending, under way, queued, executed, answered by a result, or with the server.
  An answer counts only if it will be accepted: `Order` bounds every event number that
  may still reach the row by the number an execution began after, plus its two events
  (an execution that begins again from an older number would be overtaken), so that a
  result lies above all of them. `Claimed` says that, until the executor has come back
  after the one fault, a claimed row stays claimed and what would queue it again is out
  of date: the assignment repeated on the connection then has the number of the row.
  `Kept` says that a result that waits for the connection is the last word of the worker.

Why these hypotheses. Without `Prompt`, or after a second fault, the code does leave a
task behind (section 3); the run `dispatch` has both hypotheses. TLC checked `AInv` under them,
with one executor and three operations of the serializer, before it was proved.

Liveness (`Settles`, `ClaimsRecover` and the other properties under fairness) rests on
fairness and ENABLED and is model-checked only, as is what is not named above.

## 6. Plan

Done, in the order in which it matters for users: `TaskChatQueue` with its proofs,
`StorageChangeSync` with its proofs, `TaskDispatch` with `TaskRuns` and its proofs,
`TaskChatStop` with its proofs.

Every invariant and action property of the runs that pass is a theorem. Next:

1. a second fault in the dispatch run, with `damage` extended to refused results, and
   `AlwaysAttended` without its bound on faults;
2. an abstract specification of the storage-change listener (a log that each reader
   receives once), and that `StorageChangeSync` implements it;
3. the same for turns and their stops (`TaskChatStop`).

Not planned: the components that `PROJECT.json` lists as not modelled, for the reason
given there. They are clients, adapters of external programs and services, or rows
with no coordination but that of the store.
