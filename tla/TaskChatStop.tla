---------------------------- MODULE TaskChatStop ----------------------------
(***************************************************************************)
(* How a turn of a task chat is run on its executor, and stopped.  The     *)
(* node that holds the session lease sets the turn up, sends a prompt to   *)
(* the worker over its websocket and waits for the response; the row of    *)
(* the session shows users whether it is busy.  Stop requests arrive at    *)
(* this node or are relayed by another one, connections break without a    *)
(* notice, the worker and the server restart, and a response that nobody   *)
(* waits for is recovered into the row.                                    *)
(*                                                                         *)
(* One session, the node that runs its turns and one worker.  Turns follow *)
(* one another, which TaskChatQueue shows of the session lease.  Every run *)
(* of JavaScript between two awaits is a step, and so is a message.        *)
(***************************************************************************)
EXTENDS Integers, Sequences, FiniteSets

CONSTANTS
    Capacity,    \* max(1, maxConcurrency) of the worker
    MaxPrompts,  \* prompts of a turn: the code may send 4
    MaxTurns,    \* bound: turns
    MaxStops,    \* bound: stop requests
    MaxFaults    \* bound: broken connections, heartbeat timeouts, restarts, exceptions

ASSUME StopAssumption ==
    /\ {MaxTurns, MaxStops, MaxFaults} \subseteq Nat
    /\ {Capacity, MaxPrompts} \subseteq Nat \ {0}

VARIABLES
    phase,    \* where executeTaskChatTurn stands, "none" between turns
    turn,     \* the number of the last turn
    slot,     \* the session is in activeTaskChatExecutionSessions
    reason,   \* ... and in pendingTaskChatStopReasons
    aborted,  \* the signal of the turn
    base,     \* pendingSession.runtimeSequence
    row,      \* runtimeSequence and status of the session, and whose they are
    prompts,  \* prompts of the turn
    request,  \* the requestId of its last prompt
    captured, \* the socket that requestAgentPrompt took
    records,  \* persisted prompts, by which responses are recovered
    relay,    \* a relayed stop that has not returned to its node
    sock,     \* the socket in the registry, 0 when offline
    closing,  \* sockets taken out of it whose close event is still to come
    epoch,    \* connections opened so far
    link,     \* the connection that carries messages, or 0
    conn,     \* the connection as the worker sees it
    down,     \* messages under way to the worker
    outbox,   \* responses in reliableOutboundQueue
    queue,    \* queuedPromptRequestIds
    running,  \* runningTaskIds; 0 is another execution of the worker
    agents,   \* agent processes
    known,    \* pendingPromptAborts
    stops, faults,  \* bounded counts
    asked,    \* history: somebody stopped the current turn
    late,     \* history: the last prompt was sent when its socket had been closed
    stray,    \* history: prompts of the current socket that an older one's close rejected
    told,     \* history: agents whose controller was aborted
    thrown    \* history: an exception ended a turn after its row was set busy

session == <<turn, slot, reason, aborted, base, asked, thrown>>
sent    == <<prompts, request, captured, late>>
worker  == <<queue, running, agents, known, told>>
network == <<epoch, link, conn, outbox, closing, stray>>
counts  == <<stops, faults>>
vars == <<phase, row, relay, records, down, sock, session, sent, worker, network, counts>>
-----------------------------------------------------------------------------
Prompt == 1..(MaxTurns * MaxPrompts)   \* requestId
Phase  == {"none", "setup", "read", "saved", "bound", "ready", "registering",
           "waiting", "answered", "done", "rejected", "saving", "closing"}

\* The turn has a controller in activeTaskChatAbortControllers.
Controlled == phase \in {"bound", "ready", "registering", "waiting", "answered",
                         "done", "rejected"}
\* Its last prompt is in pendingAgentPrompts.
Pending(id) == phase = "waiting" /\ request = id

Busy(seq) == [seq |-> seq, st |-> "busy", by |-> turn]
After(st, by) == [seq |-> row.seq + 1, st |-> st, by |-> by]
Without(id) == {r \in records : r.id # id}

\* send(socket, m): a socket that is closed or replaced drops the message.
SendOn(s, m) == down' = IF s # 0 /\ s = link THEN Append(down, m) ELSE down
-----------------------------------------------------------------------------
(***************************************************************************)
(* executeTaskChatTurn.                                                    *)
(***************************************************************************)
Goto(p) == phase' = p

\* The gates of a direct send and of the drain, and the session lease.
BeginTurn ==
    /\ phase = "none" /\ ~slot /\ turn < MaxTurns
    /\ sock # 0 /\ row.st # "busy"
    /\ Goto("setup") /\ turn' = turn + 1 /\ slot' = TRUE
    /\ aborted' = FALSE /\ asked' = FALSE /\ prompts' = 0
    /\ UNCHANGED <<row, relay, records, down, sock, reason, base, thrown, request,
                   captured, late, worker, network, counts>>

\* expireStaleTaskChatExecutionSlots: more than 2 seconds without a controller.
Expire ==
    /\ slot /\ phase # "none" /\ ~Controlled
    /\ slot' = FALSE /\ reason' = FALSE
    /\ UNCHANGED <<phase, row, relay, records, down, sock, turn, aborted, base, asked,
                   thrown, sent, worker, network, counts>>

\* buildPendingWorkspaceSession, from the session that the preparation read.
ReadSession ==
    /\ phase = "setup" /\ Goto("read") /\ base' = row.seq + 1
    /\ UNCHANGED <<row, relay, records, down, sock, turn, slot, reason, aborted, asked,
                   thrown, sent, worker, network, counts>>

\* saveWorkspaceSessionAndWait.  The row carries the time at which the turn
\* began: it is refused when something was written since, by the preparation
\* of the directory, by a stop or by a recovered response.
SavePending ==
    /\ phase = "read" /\ Goto("saved")
    /\ row' \in {Busy(base), row}
    /\ UNCHANGED <<relay, records, down, sock, session, sent, worker, network, counts>>

\* bindTaskChatExecutionAbortSignal takes a stop that came before it.
Bind ==
    /\ phase = "saved" /\ Goto("bound")
    /\ aborted' = reason /\ reason' = FALSE
    /\ UNCHANGED <<row, relay, records, down, sock, turn, slot, base, asked, thrown, sent,
                   worker, network, counts>>

\* The preparation has reported an error, or there is no executor.
GiveUp ==
    /\ phase = "bound" /\ Goto("rejected")
    /\ UNCHANGED <<row, relay, records, down, sock, session, sent, worker, network, counts>>

\* runWorkspaceMessageViaExecutor writes the session as it was saved.
Prepare ==
    /\ phase = "bound" /\ Goto("ready") /\ row' = Busy(base)
    /\ UNCHANGED <<relay, records, down, sock, session, sent, worker, network, counts>>

\* requestAgentPrompt up to registerPendingWorkspacePrompt.
Capture ==
    /\ phase = "ready"
    /\ IF sock = 0
       THEN Goto("rejected") /\ UNCHANGED <<sent, records>>
       ELSE /\ Goto("registering") /\ captured' = sock
            /\ request' = request + 1 /\ prompts' = prompts + 1 /\ UNCHANGED late
            /\ records' = records \cup {[id |-> request + 1, seq |-> base, turn |-> turn]}
    /\ UNCHANGED <<row, relay, down, sock, session, worker, network, counts>>

\* ... and after it.  The listener is added to a signal that may have been
\* aborted before, which does not call it any more; nothing looks whether the
\* executor is still connected.
Send ==
    /\ phase = "registering" /\ Goto("waiting")
    /\ SendOn(captured, [type |-> "request", id |-> request])
    /\ late' = (captured # sock)
    /\ UNCHANGED <<row, relay, records, sock, session, prompts, request, captured, worker,
                   network, counts>>

\* Mutant: the retry is not limited.
RetryAgain ==
    /\ phase = "answered" /\ Goto("ready")
    /\ row' \in {Busy(base), row}
    /\ UNCHANGED <<relay, records, down, sock, session, sent, worker, network, counts>>

\* A directory is missing, or a session of the agent cannot be resumed: only
\* the latter writes the session again.
Retry ==
    /\ phase = "answered" /\ prompts < MaxPrompts /\ Goto("ready")
    /\ row' \in {Busy(base), row}
    /\ UNCHANGED <<relay, records, down, sock, session, sent, worker, network, counts>>

\* The session is written with what the response says of the agent's session,
\* and otherwise as it was when the turn began.
SaveAnswer ==
    /\ phase = "answered" /\ Goto("done") /\ row' = Busy(base)
    /\ UNCHANGED <<relay, records, down, sock, session, sent, worker, network, counts>>

\* The controller is removed, and the result is out of date when the row has a
\* higher sequence.
ConcludeIf(current) ==
    /\ phase \in {"done", "rejected"}
    /\ Goto(IF current THEN "saving" ELSE "closing")
    /\ reason' = FALSE
    /\ base' = IF current THEN row.seq + 1 ELSE base
    /\ UNCHANGED <<row, relay, records, down, sock, turn, slot, aborted, asked, thrown, sent,
                   worker, network, counts>>
ConcludeNewer == ConcludeIf(row.seq < base)  \* mutant: >= for >
Conclude == ConcludeIf(row.seq <= base)

\* The result is saved after saveTaskAndWait; a stop may have been written
\* meanwhile, which has the later time.
Save ==
    /\ phase = "saving" /\ Goto("closing")
    /\ \/ row' = [seq |-> base, st |-> "ended", by |-> turn]
       \/ row.seq >= base /\ row' = row
    /\ UNCHANGED <<relay, records, down, sock, session, sent, worker, network, counts>>

\* releaseTaskChatExecutionLease.  Mutant: the stop reason is not deleted.
FreeSlotOnly == slot' = FALSE /\ UNCHANGED reason
FreeSlot == slot' = FALSE /\ reason' = FALSE
Release ==
    /\ phase = "closing" /\ Goto("none") /\ FreeSlot
    /\ UNCHANGED <<row, relay, records, down, sock, turn, aborted, base, asked, thrown, sent,
                   worker, network, counts>>

\* An exception of the set-up, of a query or of a save goes to the finally
\* block; the row stays as it is.
Throw ==
    /\ phase \in {"setup", "read", "saved", "bound", "saving"} /\ faults < MaxFaults
    /\ faults' = faults + 1 /\ Goto("closing")
    /\ thrown' = (thrown \/ phase \in {"saved", "bound", "saving"})
    /\ reason' = (reason /\ phase # "bound")
    /\ UNCHANGED <<row, relay, records, down, sock, turn, slot, aborted, base, asked, sent,
                   worker, network, stops>>
-----------------------------------------------------------------------------
(***************************************************************************)
(* Stop requests.                                                          *)
(***************************************************************************)
\* abortHandler of requestAgentPrompt.  Mutant: the worker is not told.
RejectSilently == Goto("rejected") /\ records' = Without(request) /\ UNCHANGED down
AbortPrompt == /\ Goto("rejected") /\ records' = Without(request)
               /\ SendOn(captured, [type |-> "cancel", id |-> request])

Hit == slot \/ Controlled

stopTaskChatExecution ==
    /\ aborted' = (aborted \/ Controlled)
    /\ reason' = (reason \/ (slot /\ ~Controlled))
    /\ asked' = (asked \/ Hit)
    /\ IF phase = "waiting" /\ ~aborted THEN AbortPrompt
       ELSE UNCHANGED <<phase, records, down>>

\* markTaskChatRuntimeStopped
Mark == row' = After("stopped", row.by)

\* handleStop on the node of the turn
LocalStop ==
    /\ stops < MaxStops /\ stops' = stops + 1
    /\ stopTaskChatExecution
    /\ IF Hit \/ row.st = "busy" THEN Mark ELSE UNCHANGED row
    /\ UNCHANGED <<relay, sock, turn, slot, base, thrown, sent, worker, network, faults>>

\* The relay at the node of the turn; it may be answered too late.
RelayStop ==
    /\ stops < MaxStops /\ stops' = stops + 1 /\ relay = "none"
    /\ stopTaskChatExecution
    /\ relay' \in {"miss"} \cup (IF Hit THEN {"hit"} ELSE {})
    /\ UNCHANGED <<row, sock, turn, slot, base, thrown, sent, worker, network, faults>>

\* handleStop on the other node, after the relay
RelayReturns ==
    /\ relay # "none" /\ relay' = "none"
    /\ IF relay = "hit" \/ row.st = "busy" THEN Mark ELSE UNCHANGED row
    /\ UNCHANGED <<phase, records, down, sock, session, sent, worker, network, counts>>
-----------------------------------------------------------------------------
(***************************************************************************)
(* Responses.  The server handles one in the step that sends it: the       *)
(* worker reads nothing of the server but what `down' brings.              *)
(***************************************************************************)
\* shouldApplyRecoveredResponse.  Mutant: the sequence is not compared.
AppliesToLost(r) == row.st \in {"busy", "lost"}
Applies(r) == row.seq = r.seq \/ (row.seq = r.seq + 1 /\ row.st = "lost")

\* executor.agent.prompt.response, and recoverPendingWorkspacePromptResponse
Respond(id) ==
    /\ records' = Without(id)
    /\ IF Pending(id) THEN Goto("answered") /\ UNCHANGED row
       ELSE /\ UNCHANGED phase
            /\ row' = IF \E r \in records : r.id = id /\ Applies(r)
                      THEN After("ended", (CHOOSE r \in records : r.id = id).turn)
                      ELSE row

\* onClose: the prompts of the executor are rejected, whatever socket they took.
RejectNone == UNCHANGED <<phase, records>>   \* mutant: they are not
RejectPending ==
    IF phase = "waiting" THEN Goto("rejected") /\ records' = Without(request)
    ELSE UNCHANGED <<phase, records>>
-----------------------------------------------------------------------------
(***************************************************************************)
(* createPromptQueue of the worker.                                        *)
(***************************************************************************)
\* drainPromptQueue, with q queued, run running, a the agents and k the known.
Started(q, run) ==
    LET free == Capacity - Cardinality(run)
    IN IF free < 0 THEN 0 ELSE IF free < Len(q) THEN free ELSE Len(q)
Drain(q, run, a, k) ==
    LET n == Started(q, run)
        ids == {q[i] : i \in 1..n}
    IN /\ queue' = SubSeq(q, n + 1, Len(q))
       /\ running' = run \cup ids /\ agents' = a \cup ids /\ known' = k \cup ids

Receive(type) == conn # 0 /\ conn = link /\ down # <<>> /\ Head(down).type = type
                     /\ down' = Tail(down)

\* It is refused while the worker waits for its update.
ReceiveRequest ==
    /\ Receive("request")
    /\ LET id == Head(down).id
       IN \/ Respond(id) /\ UNCHANGED worker
          \/ /\ Drain(Append(queue, id), running, agents, known)
             /\ UNCHANGED <<phase, row, records, told>>
    /\ UNCHANGED <<relay, sock, session, sent, network, counts>>

\* dequeuePromptRequestId; a prompt is queued once.
NotQueued(id) ==
    LET at == {i \in 1..Len(queue) : queue[i] = id}
        n == CHOOSE i \in at : TRUE
    IN IF at = {} THEN queue
       ELSE [i \in 1..(Len(queue) - 1) |-> queue[IF i < n THEN i ELSE i + 1]]

\* Mutant: a cancelled prompt is no longer counted as running.
CancelFrees(id) ==
    /\ told' = told \cup ({id} \cap known)
    /\ Drain(NotQueued(id), running \ {id}, agents, known)

Cancelled(id) ==
    IF id \in known
    THEN /\ told' = told \cup {id} /\ queue' = NotQueued(id)
         /\ UNCHANGED <<running, agents, known>>
    ELSE Drain(NotQueued(id), running \ {id}, agents, known) /\ UNCHANGED told

ReceiveCancel ==
    /\ Receive("cancel") /\ Cancelled(Head(down).id)
    /\ UNCHANGED <<phase, row, relay, records, sock, session, sent, network, counts>>

\* The agent ends, its response is sent or queued, finishPromptExecution.
Finish(id) ==
    /\ id \in agents
    /\ Drain(queue, running \ {id}, agents \ {id}, known \ {id})
    /\ told' = told \ {id}
    /\ outbox' = IF conn = 0 /\ id # 0 THEN Append(outbox, id) ELSE outbox
    /\ IF conn # 0 /\ conn = link /\ id # 0 THEN Respond(id)
       ELSE UNCHANGED <<phase, row, records>>
    /\ UNCHANGED <<relay, down, sock, session, sent, epoch, link, conn, closing, stray, counts>>

Flush ==
    /\ conn # 0 /\ outbox # <<>>
    /\ outbox' = Tail(outbox)
    /\ IF conn = link THEN Respond(Head(outbox)) ELSE UNCHANGED <<phase, row, records>>
    /\ UNCHANGED <<relay, down, sock, session, sent, worker, epoch, link, conn, closing, stray,
                   counts>>

\* abortActivePrompts
abortActivePrompts == /\ told' = told \cup known /\ known' = {} /\ queue' = <<>>
                      /\ UNCHANGED <<running, agents>>
-----------------------------------------------------------------------------
(***************************************************************************)
(* Connections and restarts.                                               *)
(***************************************************************************)
Strike == faults < MaxFaults /\ faults' = faults + 1
Cut == link' = 0 /\ down' = <<>>

\* The connection stops to carry messages; neither end has noticed yet.
Break ==
    /\ link # 0 /\ Strike /\ Cut
    /\ UNCHANGED <<phase, row, relay, records, sock, session, sent, worker, epoch, conn,
                   outbox, closing, stray, stops>>

WorkerNotices ==
    /\ conn # 0 /\ conn # link
    /\ conn' = 0 /\ abortActivePrompts
    /\ UNCHANGED <<phase, row, relay, records, down, sock, session, sent, epoch, link, outbox,
                   closing, stray, counts>>

\* onClose of the registered socket
SocketCloses ==
    /\ sock # 0 /\ sock # link
    /\ sock' = 0 /\ RejectPending
    /\ UNCHANGED <<row, relay, down, session, sent, worker, network, counts>>

\* syncExecutorLiveness after 45 s without a heartbeat: the socket is taken out of
\* the registry and closed, and on a half-open connection its close event follows
\* when the closing handshake has timed out.
HeartbeatTimeout ==
    /\ sock # 0 /\ sock # link /\ Strike
    /\ sock' = 0 /\ closing' = closing \cup {sock}
    /\ UNCHANGED <<phase, row, relay, records, down, session, sent, worker, epoch, link, conn,
                   outbox, stray, stops>>

\* onClose of such a socket, which onOpen has not replaced: the prompts of the
\* executor are rejected, those of a later connection among them.
LateClose(s) ==
    /\ s \in closing /\ closing' = closing \ {s}
    /\ RejectPending
    /\ stray' = IF phase = "waiting" /\ captured = sock THEN stray \cup {request} ELSE stray
    /\ UNCHANGED <<row, relay, down, sock, session, sent, worker, epoch, link, conn, outbox,
                   counts>>

\* onOpen of both ends; a socket that is replaced is closed.
Connect ==
    /\ conn = 0
    /\ epoch' = epoch + 1 /\ link' = epoch + 1 /\ conn' = epoch + 1 /\ sock' = epoch + 1
    /\ IF sock # 0 THEN RejectPending ELSE UNCHANGED <<phase, records>>
    /\ UNCHANGED <<row, relay, down, session, sent, worker, outbox, closing, stray, counts>>

WorkerRestarts ==
    /\ Strike /\ Cut
    /\ conn' = 0 /\ outbox' = <<>> /\ queue' = <<>>
    /\ running' = {} /\ agents' = {} /\ known' = {} /\ told' = {}
    /\ UNCHANGED <<phase, row, relay, records, sock, session, sent, epoch, closing, stray, stops>>

\* recoverStaleTaskChatRuntimeAfterBootstrap: no session is busy after a start.
Recovered == IF row.st = "busy" THEN After("lost", row.by) ELSE row

ServerRestarts ==
    /\ Strike /\ Cut
    /\ Goto("none") /\ sock' = 0 /\ closing' = {}
    /\ slot' = FALSE /\ reason' = FALSE /\ aborted' = FALSE
    /\ row' = Recovered
    /\ UNCHANGED <<relay, records, turn, base, asked, thrown, sent, worker, epoch, conn,
                   outbox, stray, stops>>
-----------------------------------------------------------------------------
Init ==
    /\ phase = "none" /\ turn = 0 /\ slot = FALSE /\ reason = FALSE /\ aborted = FALSE
    /\ base = 0 /\ row = [seq |-> 0, st |-> "idle", by |-> 0]
    /\ prompts = 0 /\ request = 0 /\ captured = 0 /\ records = {} /\ relay = "none"
    /\ sock = 1 /\ epoch = 1 /\ link = 1 /\ conn = 1 /\ down = <<>> /\ outbox = <<>>
    /\ queue = <<>> /\ running \in {{}, {0}} /\ agents = running /\ known = {}
    /\ stops = 0 /\ faults = 0
    /\ asked = FALSE /\ thrown = FALSE /\ late = FALSE /\ told = {}
    /\ closing = {} /\ stray = {}

ServerStep ==
    \/ ReadSession \/ SavePending \/ Bind \/ Prepare \/ Capture \/ Send
    \/ SaveAnswer \/ Conclude \/ Save \/ Release
Stop == LocalStop \/ RelayStop \/ RelayReturns
Worker == ReceiveRequest \/ ReceiveCancel \/ Flush \/ \E id \in agents : Finish(id)
ServerNotices == SocketCloses \/ HeartbeatTimeout \/ \E s \in closing : LateClose(s)
Connection == Break \/ WorkerNotices \/ ServerNotices \/ Connect

Next ==
    \/ BeginTurn \/ ServerStep \/ GiveUp \/ Retry \/ Expire \/ Throw
    \/ Stop \/ Worker \/ Connection \/ WorkerRestarts \/ ServerRestarts

Spec == Init /\ [][Next]_vars

\* The server and the worker go on while they have something to do: what was
\* awaited returns, messages of a connection arrive, agents end, and both ends
\* notice a broken connection.  Users and faults owe nothing.
Fairness ==
    /\ WF_vars(ServerStep \/ ServerNotices)
    /\ WF_vars(Worker \/ WorkerNotices \/ Connect)
FairSpec == Spec /\ Fairness
-----------------------------------------------------------------------------
(***************************************************************************)
(* Properties.                                                             *)
(***************************************************************************)
\* The variables stay in their types.
TypeOK ==
    /\ phase \in Phase /\ turn \in 0..MaxTurns
    /\ {slot, reason, aborted, asked, thrown, late} \subseteq BOOLEAN
    /\ base \in Nat /\ prompts \in 0..MaxPrompts /\ request \in Prompt \cup {0}
    /\ row \in [seq : Nat, st : {"idle", "busy", "stopped", "lost", "ended"}, by : 0..turn]
    /\ records \subseteq [id : Prompt, seq : Nat, turn : 1..turn]
    /\ relay \in {"none", "hit", "miss"}
    /\ epoch \in Nat /\ {sock, link, conn, captured} \subseteq 0..epoch
    /\ closing \subseteq 1..epoch /\ stray \subseteq Prompt
    /\ down \in Seq([type : {"request", "cancel"}, id : Prompt])
    /\ outbox \in Seq(Prompt) /\ queue \in Seq(Prompt)
    /\ agents \cup running \subseteq Prompt \cup {0}
    /\ known \cup told \subseteq agents
    /\ stops \in 0..MaxStops /\ faults \in 0..MaxFaults

\* A stop that was kept for a turn without a controller never reaches another
\* turn: through expiry, exceptions and restarts, a turn is aborted only when
\* somebody stopped it (runtime-state.ts:58-74, 150-158, 410-418).
StopHasCause == aborted => asked

\* The worker never has more agents than its concurrency: a cancelled one keeps
\* its place until its process has ended (prompt-queue.ts:223-236).
WithinCapacity == Cardinality(agents) <= Capacity

\* No agent works for a turn that does not wait for it: when a prompt was
\* stopped, or its server lost the connection or restarted, the worker has been
\* told, is about to be, or has yet to notice that it is disconnected.  What the
\* late close of an older connection rejected is the exception: StaleClosePreserves
\* (executor-ws-requests.ts:1230-1262, prompt-queue.ts:239-257).
NoOrphans ==
    \A id \in (agents \ (told \cup {0})) \cup {queue[i] : i \in 1..Len(queue)} :
        \/ Pending(id) \/ id \in stray
        \/ conn # link
        \/ \E i \in 1..Len(down) : down[i] = [type |-> "cancel", id |-> id]

\* What is recovered or saved late of a turn never overwrites the row of a later
\* one, also when the server restarts in between
\* (workspace-prompt-recovery.ts:174-187).
RowsInOrder == [][row'.by >= row.by]_vars

\* Between turns the session is not busy, so that the next message is not held
\* back for ever, unless an exception ended a turn (turn-execution.ts:856-940,
\* task-chat-runtime-recovery.ts:79-168).
QuietNotBusy == phase = "none" /\ ~thrown => row.st # "busy"

\* Every turn ends, whatever is lost, unless its prompt was registered after the
\* prompts of its connection had been rejected: such a prompt was not sent, it
\* has no timeout, and only the next disconnection rejects it
\* (executor-ws-requests.ts:1184-1309).
TurnsEnd == phase # "none" ~> (phase = "none" \/ (phase = "waiting" /\ late))
\* The close event of an older socket rejects no prompt that was sent on the
\* present one: "socket replacement rejects old requests and stale close
\* preserves new requests" (executor-ws-service.test.ts:23-70).
StaleClosePreserves == stray = {}
=============================================================================
