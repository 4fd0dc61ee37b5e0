-------------------------- MODULE StorageChangeSync --------------------------
(***************************************************************************)
(* How one control-plane node learns of the writes of all the others.      *)
(* Every write of a table inserts a row into storage_change_events and     *)
(* notifies a Postgres channel in the transaction of the write.  The       *)
(* listener of the node keeps the id of the last event it has seen, reads  *)
(* the events above it whenever a notification or its poll timer asks for  *)
(* that, and hands them over; a debounced refresh then reads the changed   *)
(* tables again into the caches of the node.                               *)
(*                                                                         *)
(* The listener sends all its queries on one connection, which answers     *)
(* them in the order in which they were sent.                              *)
(***************************************************************************)
EXTENDS Integers, Sequences, FiniteSets, FiniteSetsExt

CONSTANTS
    Table,      \* tables; each one stands for a store that caches it
    NoTable,    \* the table that an idle refresh reads
    BatchSize,  \* DRAIN_BATCH_SIZE
    History,    \* events committed before the node booted first
    May,        \* "early": writes and broken connections before the listener
                \* has its first position; "reorder": transactions commit in another order than they
                \* took their ids; "drop": connections break; "restart": the
                \* node restarts; "fail": reading a table fails
    MaxWrites,  \* bound: transactions after the first boot
    MaxFaults   \* bound: drops, restarts and failures together

ASSUME SyncAssumption ==
    /\ NoTable \notin Table /\ IsFiniteSet(Table)
    /\ BatchSize \in Nat \ {0}
    /\ {History, MaxWrites, MaxFaults} \subseteq Nat
    /\ May \subseteq {"early", "reorder", "drop", "restart", "fail"}

VARIABLES
    log,        \* storage_change_events, as other sessions see it
    open,       \* the events of transactions that have not committed yet
    connected,  \* activeClient
    listening,  \* LISTEN is in force
    queries,    \* unanswered queries of the connection
    note,       \* a notification is on its way to the node
    polling,    \* pollTimer runs
    cursor,     \* lastSeenEventId
    requested,  \* drainRequested
    drain,      \* the drain loop: idle, waiting for rows, or about to get them
    from,       \* the position its query was sent with
    batch,      \* the rows it is about to get
    pending,    \* pendingTables
    timer,      \* pendingRefreshTimer
    refreshing, \* refreshPromise
    work,       \* the tables the refresh has still to read
    reading,    \* the table whose SELECT has been answered
    seen,       \* the version of that table in the answer
    cache,      \* the version of each table in the node's store
    delivered,  \* history: how often the node was handed each event
    boot,       \* history: the last event when the node booted
    lost,       \* history: tables a failed refresh has left unread
    faults      \* drops, restarts and failures so far

database   == <<log, open>>
connection == <<connected, listening, queries, note, polling>>
drainLoop  == <<cursor, requested, drain, from, batch>>
refresh    == <<pending, timer, refreshing, work, reading, seen, cache, lost>>
history    == <<delivered, boot, faults>>
vars == <<log, open, connected, listening, queries, note, polling, cursor,
          requested, drain, from, batch, pending, timer, refreshing, work,
          reading, seen, cache, delivered, boot, lost, faults>>
-----------------------------------------------------------------------------
Id    == 1..(History + MaxWrites)
Event == [id : Id, table : Table]
Query == {"listen", "latest", "drain"}

Ids(events)     == {e.id : e \in events}
Tables(events)  == {e.table : e \in events}
LatestId        == Max(Ids(log) \cup {0})
\* What a SELECT of the table returns: the number of writes it reflects.
Version(t)      == Cardinality({e \in log : e.table = t})

\* Mutant: the query has no LIMIT.
AllEvents(position) == {e \in log : e.id > position}

\* SELECT ... WHERE id > position ORDER BY id LIMIT DRAIN_BATCH_SIZE
EventBatch(position) ==
    {e \in log : /\ e.id > position
                 /\ Cardinality({f \in log : position < f.id /\ f.id < e.id})
                        < BatchSize}

TypeOK ==
    /\ log \subseteq Event /\ open \subseteq Event
    /\ {connected, listening, note, polling, requested, timer, refreshing} \subseteq BOOLEAN
    /\ queries \in Seq(Query) /\ Len(queries) <= 3
    /\ {cursor, from, boot} \subseteq 0..(History + MaxWrites)
    /\ drain \in {"idle", "asked", "answered"}
    /\ batch \subseteq Event /\ Cardinality(batch) <= BatchSize
    /\ {pending, work, lost} \subseteq SUBSET Table
    /\ reading \in Table \cup {NoTable}
    /\ seen \in Nat
    /\ cache \in [Table -> Nat]
    /\ delivered \in [Id -> Nat]
    /\ faults \in 0..MaxFaults
-----------------------------------------------------------------------------
(***************************************************************************)
(* The node boots: bootstrapStorage has loaded every store, and starts the *)
(* listener as its last step.                                              *)
(***************************************************************************)
Init ==
    /\ \E f \in [1..History -> Table] :
           log = {[id |-> i, table |-> f[i]] : i \in 1..History}
    /\ open = {} /\ faults = 0
    /\ connected = FALSE /\ listening = FALSE /\ note = FALSE /\ polling = FALSE
    /\ queries = <<>>
    /\ cursor = 0 /\ requested = FALSE /\ drain = "idle" /\ from = 0 /\ batch = {}
    /\ pending = {} /\ timer = FALSE /\ refreshing = FALSE /\ work = {} /\ lost = {}
    /\ reading = NoTable /\ seen = 0
    /\ cache = [t \in Table |-> Version(t)]
    /\ delivered = [i \in Id |-> 0]
    /\ boot = LatestId

Fault(kind) == kind \in May /\ faults < MaxFaults /\ faults' = faults + 1
-----------------------------------------------------------------------------
(***************************************************************************)
(* Other sessions write.  The id is taken from a sequence when the row is  *)
(* inserted, the row is visible and the notification sent at the commit.   *)
(***************************************************************************)
Settled == "early" \in May \/ cursor > 0

Begin(t) ==
    /\ Settled
    /\ Cardinality(log \cup open) < History + MaxWrites
    /\ open' = open \cup {[id |-> Cardinality(log \cup open) + 1, table |-> t]}
    /\ UNCHANGED <<log, connection, drainLoop, refresh, history>>

Commit(e) ==
    /\ e \in open /\ Settled
    /\ "reorder" \in May \/ \A f \in open : e.id <= f.id
    /\ open' = open \ {e}
    /\ log' = log \cup {e}
    /\ note' = (note \/ listening)
    /\ UNCHANGED <<connected, listening, queries, polling, drainLoop, refresh, history>>
-----------------------------------------------------------------------------
(***************************************************************************)
(* requestDrain, called with the unanswered queries in front of its own.   *)
(***************************************************************************)
Ask(position, before) ==
    /\ drain' = "asked"
    /\ from' = position
    /\ batch' = {}
    /\ queries' = Append(before, "drain")

\* Mutant: a request that meets a running loop is dropped.
RequestIfIdle(before) ==
    IF drain = "idle" /\ connected'
    THEN Ask(cursor, before) /\ requested' = FALSE
    ELSE queries' = before /\ UNCHANGED <<requested, drain, from, batch>>

RequestDrain(before) ==
    IF drain = "idle" /\ connected'
    THEN Ask(cursor, before) /\ requested' = FALSE
    ELSE /\ requested' = TRUE
         /\ queries' = before
         /\ UNCHANGED <<drain, from, batch>>

Notified ==
    /\ note
    /\ note' = FALSE
    /\ UNCHANGED <<connected, listening, polling, cursor>>
    /\ RequestDrain(queries)
    /\ UNCHANGED <<database, refresh, history>>

Poll ==
    /\ polling
    /\ UNCHANGED <<connected, listening, note, polling, cursor>>
    /\ RequestDrain(queries)
    /\ UNCHANGED <<database, refresh, history>>
-----------------------------------------------------------------------------
(***************************************************************************)
(* connect, and the answers it waits for.  A node that has seen no event   *)
(* starts after the last one there is; one that has seen some, where it    *)
(* stands.                                                                 *)
(***************************************************************************)
Connect ==
    /\ ~connected
    /\ connected' = TRUE
    /\ queries' = <<"listen">>
    /\ UNCHANGED <<listening, note, polling, database, drainLoop, refresh, history>>

Listening ==
    /\ queries # <<>> /\ Head(queries) = "listen"
    /\ listening' = TRUE
    /\ UNCHANGED <<connected, note, cursor>>
    /\ IF cursor = 0
       THEN /\ queries' = Append(Tail(queries), "latest")
            /\ UNCHANGED <<polling, requested, drain, from, batch>>
       ELSE /\ polling' = TRUE
            /\ RequestDrain(Tail(queries))
    /\ UNCHANGED <<database, refresh, history>>

Latest ==
    /\ queries # <<>> /\ Head(queries) = "latest"
    /\ queries' = Tail(queries)
    /\ cursor' = LatestId
    /\ polling' = TRUE
    /\ UNCHANGED <<connected, listening, note, requested, drain, from, batch,
                   database, refresh, history>>

\* Mutant: the promise of a drain whose query failed is never cleared.
DropKeepsDrain ==
    /\ connected /\ Settled /\ Fault("drop")
    /\ connected' = FALSE /\ listening' = FALSE /\ note' = FALSE
    /\ queries' = <<>> /\ polling' = TRUE
    /\ UNCHANGED <<database, drainLoop, refresh, delivered, boot>>

\* The connection breaks, or one of its queries fails: every query that waits is
\* rejected, the drain loop ends, and a timer connects again.
Drop ==
    /\ connected /\ Settled /\ Fault("drop")
    /\ connected' = FALSE /\ listening' = FALSE /\ note' = FALSE
    /\ queries' = <<>> /\ polling' = TRUE
    /\ drain' = "idle" /\ from' = 0 /\ batch' = {}
    /\ UNCHANGED <<cursor, requested, database, refresh, delivered, boot>>
-----------------------------------------------------------------------------
(***************************************************************************)
(* The drain loop.                                                         *)
(***************************************************************************)
Answer ==
    /\ queries # <<>> /\ Head(queries) = "drain"
    /\ queries' = Tail(queries)
    /\ drain' = "answered"
    /\ batch' = EventBatch(from)
    /\ UNCHANGED <<connected, listening, note, polling, cursor, requested, from,
                   database, refresh, history>>

\* Mutant: the position becomes the first id of the batch.
HandleFirst ==
    /\ pending' = pending \cup Tables(batch)
    /\ timer' = TRUE
    /\ delivered' = [i \in Id |-> delivered[i] + IF i \in Ids(batch) THEN 1 ELSE 0]
    /\ cursor' = Min(Ids(batch))

\* handleStorageChangeEvents, and the position that is stored after it.
Handle ==
    /\ pending' = pending \cup Tables(batch)
    /\ timer' = TRUE
    /\ delivered' = [i \in Id |-> delivered[i] + IF i \in Ids(batch) THEN 1 ELSE 0]
    /\ cursor' = Max(Ids(batch))

Deliver ==
    /\ drain = "answered"
    /\ IF batch # {}
       THEN Handle
       ELSE UNCHANGED <<pending, timer, delivered, cursor>>
    /\ IF Cardinality(batch) = BatchSize
       THEN Ask(cursor', queries) /\ UNCHANGED requested
       ELSE IF requested
       THEN Ask(cursor', queries) /\ requested' = FALSE
       ELSE /\ drain' = "idle" /\ from' = 0 /\ batch' = {}
            /\ UNCHANGED <<requested, queries>>
    /\ UNCHANGED <<database, connected, listening, note, polling, refreshing, work,
                   reading, seen, cache, lost, boot, faults>>
-----------------------------------------------------------------------------
(***************************************************************************)
(* refreshChangedState, the caller of which is the debounce timer.  One    *)
(* loop runs at a time; a table is read and then assigned to its cache.    *)
(***************************************************************************)
TakePending ==
    /\ work' = pending
    /\ pending' = {}
    /\ lost' = lost \ pending
    /\ refreshing' = TRUE

Fire ==
    /\ timer
    /\ timer' = FALSE
    /\ IF refreshing \/ pending = {}
       THEN UNCHANGED <<work, pending, lost, refreshing>>
       ELSE TakePending
    /\ UNCHANGED <<database, connection, drainLoop, reading, seen, cache, history>>

Read(t) ==
    /\ t \in work /\ reading = NoTable
    /\ reading' = t
    /\ seen' = Version(t)
    /\ UNCHANGED <<database, connection, drainLoop, pending, timer, refreshing, work,
                   cache, lost, history>>

\* Mutant: the set of pending tables is emptied when a round ends.
RoundEndsClean ==
    /\ pending' = {} /\ refreshing' = FALSE
    /\ UNCHANGED lost

\* The tables that came in during the round make another one.
RoundEnds ==
    IF pending = {}
    THEN refreshing' = FALSE /\ UNCHANGED <<pending, lost>>
    ELSE refreshing' = TRUE /\ pending' = {} /\ lost' = lost \ pending

Assign ==
    /\ reading # NoTable
    /\ cache' = [cache EXCEPT ![reading] = seen]
    /\ reading' = NoTable /\ seen' = 0
    /\ IF work = {reading}
       THEN RoundEnds /\ work' = IF refreshing' THEN pending ELSE {}
       ELSE work' = work \ {reading} /\ UNCHANGED <<pending, refreshing, lost>>
    /\ UNCHANGED <<database, connection, drainLoop, timer, history>>

\* A store cannot be read: the promise is rejected and the round given up.  The
\* tables that came in during the round stay pending; if the timer has fired for
\* them already, nothing takes them until another event sets it again.
Fail ==
    /\ refreshing /\ Fault("fail")
    /\ lost' = lost \cup work \cup pending
    /\ work' = {} /\ reading' = NoTable /\ seen' = 0
    /\ refreshing' = FALSE
    /\ UNCHANGED <<database, connection, drainLoop, pending, timer, cache, delivered, boot>>

\* The process ends, whether it is stopped or dies, and boots again.
Restart ==
    /\ Fault("restart")
    /\ connected' = FALSE /\ listening' = FALSE /\ note' = FALSE /\ polling' = FALSE
    /\ queries' = <<>>
    /\ cursor' = 0 /\ requested' = FALSE /\ drain' = "idle" /\ from' = 0 /\ batch' = {}
    /\ pending' = {} /\ timer' = FALSE /\ refreshing' = FALSE /\ work' = {} /\ lost' = {}
    /\ reading' = NoTable /\ seen' = 0
    /\ cache' = [t \in Table |-> Version(t)]
    /\ delivered' = [i \in Id |-> 0]
    /\ boot' = LatestId
    /\ UNCHANGED database
-----------------------------------------------------------------------------
Listener == Connect \/ Listening \/ Latest \/ Answer \/ Deliver
Refresher == Fire \/ Assign \/ \E t \in Table : Read(t)

Next ==
    \/ \E t \in Table : Begin(t)
    \/ \E e \in open : Commit(e)
    \/ Notified \/ Poll
    \/ Listener \/ Drop
    \/ Refresher \/ Fail
    \/ Restart

\* The database answers and commits, and Node runs timers and callbacks: what is
\* waiting to run runs in the end.
Fairness ==
    /\ WF_vars(\E e \in open : Commit(e))
    /\ WF_vars(Listener) /\ WF_vars(Notified) /\ WF_vars(Poll)
    /\ WF_vars(Fire) /\ WF_vars(Assign) /\ WF_vars(\E t \in Table : Read(t))

Spec     == Init /\ [][Next]_vars
FairSpec == Spec /\ Fairness
-----------------------------------------------------------------------------
\* A node is handed every event after its boot once, in the order of the ids,
\* and none from before it, whatever happens to its connections: those up to its
\* position have been handed over, those above it have not.
ExactlyOnce ==
    \A i \in Id : delivered[i] = IF boot < i /\ i <= cursor THEN 1 ELSE 0

\* Notifications alone keep the listener up to date, the poll timer is a safety
\* net only: when no query of the connection is unanswered, no notification on
\* its way and no drain loop running, there is no event above the position.
\* requestDrain leaves a note for the running loop, full batches are followed by
\* another query, and a new connection asks for what was missed.
IdleMeansDrained ==
    listening /\ queries = <<>> /\ ~note /\ drain = "idle" => cursor = LatestId

\* A node that has seen the last event and has nothing left to refresh has the
\* contents of every table whose last refresh did not fail: tables that change
\* while they are read are read again.
QuietMeansCurrent ==
    (cursor = LatestId /\ pending = {} /\ ~timer /\ ~refreshing)
        => \A t \in Table \ lost : cache[t] = Version(t)

\* A cache catches up with its table again and again, through lost connections
\* and restarts, unless refreshing it fails.
CachesCatchUp ==
    \A t \in Table : []<>(cache[t] = Version(t) \/ t \in lost)

\* The comment on the debounce: tables are queued and refreshed one delay later.
QueuedIsRefreshed == \A t \in Table : t \in pending ~> t \notin pending

\* The comment on getStorageChangeListenerLag: a lag of 0, that is no event above
\* the position, means that the node has caught up with every event.
LagZeroMeansDelivered ==
    cursor = LatestId => \A e \in log : boot < e.id => delivered[e.id] > 0
=============================================================================
