---------------------- MODULE StorageChangeSync_proofs ----------------------
(***************************************************************************)
(* Proofs about StorageChangeSync, for any tables, batch size, history and *)
(* bounds, and any broken connections, restarts and failures.  What they   *)
(* need of the writers is Orderly.                                         *)
(***************************************************************************)
EXTENDS StorageChangeSync, FiniteSetTheorems, SequenceTheorems, TLAPS

\* Writes begin when the listener has a position, and commit in the order of
\* their ids.
Orderly == "early" \notin May /\ "reorder" \notin May

None    == <<>>
Listen  == <<"listen">>
Newest  == <<"latest">>
Drain   == <<"drain">>
Both    == <<"listen", "drain">>

Types ==
    /\ connected \in BOOLEAN /\ listening \in BOOLEAN /\ note \in BOOLEAN
    /\ polling \in BOOLEAN /\ requested \in BOOLEAN /\ timer \in BOOLEAN
    /\ refreshing \in BOOLEAN
    /\ queries \in {None, Listen, Newest, Drain, Both}
    /\ drain \in {"idle", "asked", "answered"}
    /\ pending \subseteq Table /\ work \subseteq Table /\ lost \subseteq Table
    /\ reading \in Table \cup {NoTable} /\ seen \in Nat
    /\ cache \in [Table -> Nat]
    /\ delivered \in [Id -> Nat]
    /\ faults \in 0..MaxFaults

\* Ids are given in order and become visible in order: the events that are
\* visible are the first ones.
Events ==
    /\ log \subseteq Event /\ open \subseteq Event
    /\ IsFiniteSet(log) /\ IsFiniteSet(open)
    /\ LatestId \in Nat /\ Ids(log) = 1..LatestId
    /\ Ids(log \cup open) = 1..Cardinality(log \cup open)
    /\ \A e, f \in log \cup open : e.id = f.id => e = f
    /\ \A e \in log, f \in open : e.id < f.id

\* What the connection carries, and that a node without a position waits for it.
Wire ==
    /\ drain = "asked" <=> queries \in {Drain, Both}
    /\ connected /\ ~listening <=> queries \in {Listen, Both}
    /\ ~connected => ~listening /\ queries = None /\ drain = "idle"
    /\ drain = "answered" => listening /\ queries = None
    /\ note => listening
    /\ queries = Newest => cursor = 0 /\ ~polling
    /\ cursor = 0 => ~note
    /\ cursor = 0 /\ (polling \/ drain # "idle") => log = {} /\ listening
    /\ cursor = 0 /\ listening /\ queries # Newest => log = {}

Position ==
    /\ cursor \in 0..LatestId /\ boot \in 0..LatestId /\ from \in {0, cursor}
    /\ cursor = 0 => boot = LatestId
    /\ cursor # 0 => boot <= cursor
    /\ drain # "idle" => from = cursor

\* The rows of an answer are the next ones, and all there were when the batch is
\* not full: for those that came since, a notification is on its way or noted.
Batch ==
    /\ drain # "answered" => batch = {}
    /\ drain = "answered" =>
         \E n \in 0..BatchSize :
            /\ Cardinality(batch) = n /\ cursor + n <= LatestId
            /\ batch = {e \in log : cursor < e.id /\ e.id <= cursor + n}
            /\ n = BatchSize \/ note \/ requested \/ cursor + n = LatestId

\* A listener that is behind has been told, is reading, or has no position yet.
Awake ==
    listening /\ cursor < LatestId /\ ~note => drain # "idle" \/ queries = Newest

\* How many of the events are about the table, and whether one is above a position.
Count(events, t) == Cardinality({e \in events : e.table = t})
Unread(events, position, t) ==
    position # 0 /\ \E e \in events : e.id > position /\ e.table = t

\* A cache is current, or its table will be read after the last change.
Current ==
    /\ ~refreshing => work = {}
    /\ reading # NoTable =>
         /\ reading \in work
         /\ \/ seen = Count(log, reading) \/ reading \in pending
            \/ Unread(log, cursor, reading)
    /\ \A t \in Table \ lost :
         \/ cache[t] = Count(log, t) \/ t \in pending \/ t \in work
         \/ Unread(log, cursor, t)

IInv == Types /\ Events /\ Wire /\ Position /\ Batch /\ ExactlyOnce /\ Awake /\ Current
-----------------------------------------------------------------------------
(***************************************************************************)
(* Numbers, queues of queries, and batches.                                *)
(***************************************************************************)
LEMMA Bounds ==
    /\ BatchSize \in Nat /\ BatchSize > 0
    /\ History \in Nat /\ MaxWrites \in Nat /\ MaxFaults \in Nat
    /\ History + MaxWrites \in Nat
    /\ NoTable \notin Table
  BY SyncAssumption

LEMMA AppendIs ==
    ASSUME NEW Q, NEW s \in Seq(Q), NEW x \in Q, NEW t \in Seq(Q),
           Len(t) = Len(s) + 1, t[Len(s) + 1] = x, \A i \in 1..Len(s) : t[i] = s[i]
    PROVE  Append(s, x) = t
<1> DEFINE u == Append(s, x)
<1>1. /\ u \in Seq(Q) /\ Len(u) = Len(s) + 1 /\ u[Len(s) + 1] = x
      /\ \A i \in 1..Len(s) : u[i] = s[i]
  BY AppendProperties
<1> HIDE DEF u
<1>2. Len(u) = Len(t) /\ Len(s) \in Nat
  BY <1>1, LenProperties
<1>3. \A i \in 1..Len(u) : i = Len(s) + 1 \/ i \in 1..Len(s)
  BY <1>1, <1>2
<1>4. \A i \in 1..Len(u) : u[i] = t[i]
  BY <1>1, <1>3
<1>5. u = t
  BY <1>1, <1>2, <1>4, SeqEqual
<1> QED  BY <1>5 DEF u

\* The five queues of queries differ, and how they grow and shrink.
LEMMA Queues ==
    /\ None # Listen /\ None # Newest /\ None # Drain /\ None # Both
    /\ Listen # Newest /\ Listen # Drain /\ Listen # Both
    /\ Newest # Drain /\ Newest # Both /\ Drain # Both
    /\ Head(Listen) = "listen" /\ Head(Newest) = "latest"
    /\ Head(Drain) = "drain" /\ Head(Both) = "listen"
    /\ Tail(Listen) = None /\ Tail(Newest) = None
    /\ Tail(Drain) = None /\ Tail(Both) = Drain
    /\ Append(None, "drain") = Drain /\ Append(None, "latest") = Newest
    /\ Append(Listen, "drain") = Both
<1>1. /\ None # Listen /\ None # Newest /\ None # Drain /\ None # Both
      /\ Listen # Newest /\ Listen # Drain /\ Listen # Both
      /\ Newest # Drain /\ Newest # Both /\ Drain # Both
  BY DEF None, Listen, Newest, Drain, Both
<1>2. /\ Head(Listen) = "listen" /\ Head(Newest) = "latest"
      /\ Head(Drain) = "drain" /\ Head(Both) = "listen"
  BY DEF Listen, Newest, Drain, Both
<1>3. /\ Tail(Listen) = None /\ Tail(Newest) = None
      /\ Tail(Drain) = None /\ Tail(Both) = Drain
  BY DEF None, Listen, Newest, Drain, Both
<1>4. Append(None, "drain") = Drain
  BY DEF None, Drain
<1>5. Append(None, "latest") = Newest
  BY DEF None, Newest
<1>6. Append(Listen, "drain") = Both
  <2> DEFINE Q == {"listen", "drain"}
  <2>1. Listen \in Seq(Q) /\ Len(Listen) = 1 /\ Listen[1] = "listen"
    BY DEF Listen
  <2>2. Both \in Seq(Q) /\ Len(Both) = 2 /\ Both[1] = "listen" /\ Both[2] = "drain"
    BY DEF Both
  <2>3. "drain" \in Q
    OBVIOUS
  <2> HIDE DEF Q
  <2>4. /\ Len(Both) = Len(Listen) + 1 /\ Both[Len(Listen) + 1] = "drain"
        /\ \A i \in 1..Len(Listen) : Both[i] = Listen[i]
    BY <2>1, <2>2
  <2> QED  BY <2>1, <2>2, <2>3, <2>4, AppendIs
<1> QED  BY <1>1, <1>2, <1>3, <1>4, <1>5, <1>6

LEMMA MaxOf ==
    ASSUME NEW S, S \subseteq Nat, NEW n \in S, \A x \in S : x <= n
    PROVE  Max(S) = n
<1> DEFINE P(x) == x \in S /\ \A y \in S : x >= y
<1>1. P(n)
  OBVIOUS
<1>2. \A x : P(x) => x = n
  OBVIOUS
<1> QED  BY <1>1, <1>2 DEF Max

LEMMA LatestOf ==
    ASSUME NEW k \in Nat, Ids(log) = 1..k
    PROVE  LatestId = k
<1>1. Ids(log) \cup {0} \subseteq Nat
  OBVIOUS
<1>2. k \in Ids(log) \cup {0} /\ \A x \in Ids(log) \cup {0} : x <= k
  OBVIOUS
<1>3. Max(Ids(log) \cup {0}) = k
  BY <1>1, <1>2, MaxOf
<1> QED  BY <1>3 DEF LatestId

\* Events of the log have the ids up to the last one.
LEMMA LogIds ==
    ASSUME Events
    PROVE  /\ \A e \in log : e.id \in 1..LatestId
           /\ \A i \in 1..LatestId : \E e \in log : e.id = i
           /\ log = {} <=> LatestId = 0
<1>1. LatestId \in Nat /\ Ids(log) = 1..LatestId
  BY DEF Events
<1>2. \A e \in log : e.id \in 1..LatestId
  BY <1>1 DEF Ids
<1>3. \A i \in 1..LatestId : \E e \in log : e.id = i
  BY <1>1 DEF Ids
<1>4. log = {} => LatestId = 0
  <2>1. CASE LatestId = 0
    BY <2>1
  <2>2. CASE LatestId # 0
    <3>1. 1 \in 1..LatestId
      BY <1>1, <2>2
    <3> QED  BY <3>1, <1>3
  <2> QED  BY <2>1, <2>2
<1>5. LatestId = 0 => log = {}
  BY <1>2
<1> QED  BY <1>2, <1>3, <1>4, <1>5

\* The events with the ids from a + 1 to b.
Slice(a, b) == {e \in log : a < e.id /\ e.id <= b}

LEMMA SliceSize ==
    ASSUME Events, NEW a \in Nat, NEW b \in Nat, a <= b, b <= LatestId
    PROVE  IsFiniteSet(Slice(a, b)) /\ Cardinality(Slice(a, b)) = b - a
<1> DEFINE D == (a + 1)..b
           f == [i \in D |-> CHOOSE e \in Slice(a, b) : e.id = i]
<1>1. \A i \in D : \E e \in Slice(a, b) : e.id = i
  <2> TAKE i \in D
  <2>1. i \in 1..LatestId
    BY DEF Events
  <2>2. PICK e \in log : e.id = i
    BY <2>1, LogIds
  <2> QED  BY <2>2 DEF Slice
<1>2. \A i \in D : f[i] \in Slice(a, b) /\ f[i].id = i
  BY <1>1
<1>3. f \in [D -> Slice(a, b)]
  BY <1>2
<1>4. \A i, j \in D : f[i] = f[j] => i = j
  BY <1>2
<1>5. \A e \in Slice(a, b) : \E i \in D : f[i] = e
  <2> TAKE e \in Slice(a, b)
  <2>1. e.id \in D
    BY LogIds DEF Slice, Events
  <2>2. f[e.id] \in log /\ e \in log /\ f[e.id].id = e.id
    BY <2>1, <1>2 DEF Slice
  <2>3. f[e.id] = e
    BY <2>2 DEF Events
  <2> QED  BY <2>1, <2>3
<1>6. f \in Bijection(D, Slice(a, b))
  <2> HIDE DEF f, D
  <2>1. DOMAIN f = D
    BY <1>3
  <2>2. f \in Injection(D, Slice(a, b))
    BY <1>3, <1>4, <2>1, Zenon DEF Injection, IsInjective
  <2>3. f \in Surjection(D, Slice(a, b))
    BY <1>3, <1>5, Zenon DEF Surjection
  <2> QED  BY <2>2, <2>3 DEF Bijection
<1>7. IsFiniteSet(D) /\ Cardinality(D) = b - a
  <2>1. a + 1 \in Int /\ b \in Int
    OBVIOUS
  <2>2. IsFiniteSet(D) /\ Cardinality(D) = IF a + 1 > b THEN 0 ELSE b - (a + 1) + 1
    BY <2>1, FS_Interval
  <2> QED  BY <2>2
<1>8. ExistsBijection(D, Slice(a, b))
  BY <1>6 DEF ExistsBijection
<1> QED  BY <1>7, <1>8, FS_Bijection

\* SELECT with its LIMIT returns the next events.
LEMMA NextBatch ==
    ASSUME Events, NEW p \in 0..LatestId
    PROVE  \E n \in 0..BatchSize :
             /\ p + n <= LatestId /\ EventBatch(p) = Slice(p, p + n)
             /\ Cardinality(EventBatch(p)) = n
             /\ n = BatchSize \/ p + n = LatestId
<1>1. LatestId \in Nat /\ p \in Nat /\ p <= LatestId /\ BatchSize \in Nat
  BY Bounds DEF Events
<1>2. \A e \in log : e.id > p =>
        Cardinality({f \in log : p < f.id /\ f.id < e.id}) = e.id - 1 - p
  <2> SUFFICES ASSUME NEW e \in log, e.id > p
               PROVE  Cardinality({f \in log : p < f.id /\ f.id < e.id}) = e.id - 1 - p
    OBVIOUS
  <2>1. e.id \in 1..LatestId /\ \A f \in log : f.id \in 1..LatestId
    BY LogIds
  <2>2. {f \in log : p < f.id /\ f.id < e.id} = Slice(p, e.id - 1)
    BY <2>1, <1>1 DEF Slice
  <2>3. e.id - 1 \in Nat /\ p <= e.id - 1 /\ e.id - 1 <= LatestId
    BY <2>1, <1>1
  <2> QED  BY <2>2, <2>3, <1>1, SliceSize
<1>3. EventBatch(p) = Slice(p, p + BatchSize)
  <2>1. \A e \in log : e.id \in 1..LatestId
    BY LogIds
  <2>2. \A e \in log : e.id > p =>
          (Cardinality({f \in log : p < f.id /\ f.id < e.id}) < BatchSize
             <=> e.id <= p + BatchSize)
    BY <1>1, <1>2, <2>1
  <2>3. \A e \in log : e.id > p <=> p < e.id
    BY <1>1, <2>1
  <2> QED  BY <2>2, <2>3, Zenon DEF EventBatch, Slice
<1>4. CASE p + BatchSize <= LatestId
  <2>1. Cardinality(Slice(p, p + BatchSize)) = BatchSize
    <3>1. p + BatchSize \in Nat /\ p <= p + BatchSize
      BY <1>1
    <3>2. Cardinality(Slice(p, p + BatchSize)) = p + BatchSize - p
      BY <3>1, <1>1, <1>4, SliceSize
    <3> QED  BY <3>2, <1>1
  <2>2. BatchSize \in 0..BatchSize
    BY <1>1
  <2> QED  BY <1>3, <1>4, <2>1, <2>2
<1>5. CASE p + BatchSize > LatestId
  <2> DEFINE n == LatestId - p
  <2>1. n \in 0..BatchSize /\ p + n = LatestId
    BY <1>1, <1>5
  <2>2. Slice(p, p + BatchSize) = Slice(p, p + n)
    <3>1. \A e \in log : e.id \in 1..LatestId
      BY LogIds
    <3>2. \A e \in log : e.id <= p + BatchSize /\ e.id <= p + n
      BY <3>1, <2>1, <1>1, <1>5
    <3> QED  BY <3>2 DEF Slice
  <2>3. Cardinality(Slice(p, p + n)) = n
    <3>1. Cardinality(Slice(p, LatestId)) = LatestId - p
      BY <1>1, SliceSize
    <3> QED  BY <3>1, <2>1
  <2>4. p + n <= LatestId
    BY <2>1, <1>1
  <2> HIDE DEF n
  <2> QED  BY <1>3, <2>1, <2>2, <2>3, <2>4
<1> QED  BY <1>1, <1>4, <1>5

LEMMA CountType ==
    ASSUME Events, NEW t
    PROVE  Count(log, t) \in Nat
<1>1. IsFiniteSet(log)
  BY DEF Events
<1>2. {e \in log : e.table = t} \in SUBSET log
  OBVIOUS
<1>3. IsFiniteSet({e \in log : e.table = t})
  BY <1>1, <1>2, FS_Subset
<1> QED  BY <1>3, FS_CardinalityType DEF Count
-----------------------------------------------------------------------------
(***************************************************************************)
(* The steps of the listener, case by case.                                *)
(***************************************************************************)
elsewhere == <<log, open, pending, timer, refreshing, work, reading, seen, cache,
               lost, delivered, boot, faults>>

\* A request starts the drain loop, or leaves a note for the one that runs.
LEMMA RequestStep ==
    ASSUME Types, Wire, Notified \/ Poll
    PROVE  /\ UNCHANGED <<elsewhere, connected, listening, polling, cursor>>
           /\ note' = note \/ (note' = FALSE /\ drain' # "idle")
           /\ \/ /\ drain = "idle" /\ connected /\ (cursor = 0 => listening /\ log = {})
                 /\ \/ queries = None /\ queries' = Drain
                    \/ queries = Listen /\ queries' = Both
                 /\ drain' = "asked" /\ from' = cursor /\ batch' = {} /\ requested' = FALSE
              \/ requested' = TRUE /\ UNCHANGED <<queries, drain, from, batch>>
<1>0. UNCHANGED <<elsewhere, connected, listening, polling, cursor>>
  BY DEF Notified, Poll, elsewhere, database, refresh, history
<1>1. RequestDrain(queries) /\ connected' = connected
  BY DEF Notified, Poll
<1>2. queries # Newest
  BY DEF Notified, Poll, Wire
<1>3. drain = "idle" => queries \in {None, Listen}
  BY <1>2, Queues DEF Types, Wire
<1>4. CASE drain = "idle" /\ connected
  <2>1. cursor = 0 => listening /\ log = {}
    BY DEF Notified, Poll, Wire
  <2>2. /\ drain' = "asked" /\ from' = cursor /\ batch' = {} /\ requested' = FALSE
        /\ queries' = Append(queries, "drain")
    BY <1>1, <1>4 DEF RequestDrain, Ask
  <2>3. (queries = None /\ queries' = Drain) \/ (queries = Listen /\ queries' = Both)
    <3>1. CASE queries = None
      BY <2>2, <3>1, Queues
    <3>2. CASE queries = Listen
      BY <2>2, <3>2, Queues
    <3> QED  BY <1>3, <1>4, <3>1, <3>2
  <2>4. note' = note \/ (note' = FALSE /\ drain' # "idle")
    BY <2>2 DEF Notified, Poll
  <2> QED  BY <1>0, <1>4, <2>1, <2>2, <2>3, <2>4
<1>5. CASE ~(drain = "idle" /\ connected)
  <2>1. requested' = TRUE /\ UNCHANGED <<queries, drain, from, batch>>
    BY <1>1, <1>5 DEF RequestDrain
  <2>2. CASE Notified
    <3>1. note' = FALSE /\ connected
      BY <2>2 DEF Notified, Wire, Types
    <3> QED  BY <1>0, <1>5, <2>1, <3>1
  <2>3. CASE Poll
    BY <1>0, <1>5, <2>1, <2>3 DEF Poll
  <2> QED  BY <2>2, <2>3
<1> QED  BY <1>4, <1>5

LEMMA ListeningStep ==
    ASSUME Types, Wire, Listening
    PROVE  /\ UNCHANGED <<elsewhere, connected, note, cursor>>
           /\ connected /\ ~listening /\ listening' = TRUE
           /\ \/ /\ cursor = 0 /\ queries = Listen /\ queries' = Newest
                 /\ UNCHANGED <<polling, requested, drain, from, batch>>
              \/ /\ cursor # 0 /\ polling' = TRUE /\ queries = Listen /\ drain = "idle"
                 /\ drain' = "asked" /\ from' = cursor /\ batch' = {} /\ requested' = FALSE
                 /\ queries' = Drain
              \/ /\ cursor # 0 /\ polling' = TRUE /\ queries = Both /\ drain = "asked"
                 /\ requested' = TRUE /\ UNCHANGED <<drain, from, batch>>
                 /\ queries' = Drain
<1>0. UNCHANGED <<elsewhere, connected, note, cursor>> /\ listening' = TRUE
  BY DEF Listening, elsewhere, database, refresh, history
<1>1. queries \in {Listen, Both}
  BY Queues DEF Listening, Types, None
<1>2. connected /\ ~listening
  BY <1>1 DEF Wire
<1>3. CASE cursor = 0
  <2>1. queries = Listen
    BY <1>1, <1>2, <1>3 DEF Wire
  <2> QED  BY <1>0, <1>2, <1>3, <2>1, Queues DEF Listening
<1>4. CASE cursor # 0
  <2>1. polling' = TRUE /\ RequestDrain(Tail(queries))
    BY <1>4 DEF Listening
  <2>2. CASE queries = Listen
    <3>1. drain = "idle"
      BY <1>2, <2>2, Queues DEF Wire, Types
    <3>2. /\ drain' = "asked" /\ from' = cursor /\ batch' = {} /\ requested' = FALSE
          /\ queries' = Append(None, "drain")
      BY <1>0, <1>2, <2>1, <2>2, <3>1, Queues DEF RequestDrain, Ask
    <3> QED  BY <1>0, <1>2, <1>4, <2>1, <2>2, <3>1, <3>2, Queues
  <2>3. CASE queries = Both
    <3>1. drain = "asked"
      BY <2>3 DEF Wire
    <3>2. requested' = TRUE /\ UNCHANGED <<drain, from, batch>> /\ queries' = Drain
      BY <2>1, <2>3, <3>1, Queues DEF RequestDrain
    <3> QED  BY <1>0, <1>2, <1>4, <2>1, <2>3, <3>1, <3>2
  <2> QED  BY <1>1, <2>2, <2>3
<1> QED  BY <1>3, <1>4

LEMMA LatestStep ==
    ASSUME Types, Wire, Latest
    PROVE  /\ UNCHANGED <<elsewhere, connected, listening, note, requested, drain, from, batch>>
           /\ queries = Newest /\ queries' = None /\ cursor = 0 /\ cursor' = LatestId
           /\ polling' = TRUE /\ drain = "idle" /\ connected /\ listening
<1>1. queries = Newest
  BY Queues DEF Latest, Types, None
<1>2. queries' = None /\ cursor' = LatestId /\ polling' = TRUE
  BY <1>1, Queues DEF Latest
<1>3. UNCHANGED <<elsewhere, connected, listening, note, requested, drain, from, batch>>
  BY DEF Latest, elsewhere, database, refresh, history
<1>4. drain = "idle" /\ connected /\ listening /\ cursor = 0
  BY <1>1, Queues DEF Wire, Types
<1> QED  BY <1>1, <1>2, <1>3, <1>4

LEMMA AnswerStep ==
    ASSUME Types, Wire, Answer
    PROVE  /\ UNCHANGED <<elsewhere, connected, listening, note, polling, cursor, requested, from>>
           /\ queries = Drain /\ queries' = None /\ drain = "asked" /\ drain' = "answered"
           /\ batch' = EventBatch(from) /\ connected /\ listening
<1>1. queries = Drain
  BY Queues DEF Answer, Types, None
<1>2. queries' = None /\ drain' = "answered" /\ batch' = EventBatch(from)
  BY <1>1, Queues DEF Answer
<1>3. UNCHANGED <<elsewhere, connected, listening, note, polling, cursor, requested, from>>
  BY DEF Answer, elsewhere, database, refresh, history
<1>4. drain = "asked" /\ connected /\ listening
  BY <1>1, Queues DEF Wire, Types
<1> QED  BY <1>1, <1>2, <1>3, <1>4

\* The loop goes on when the batch was full or somebody asked again.
LEMMA DeliverStep ==
    ASSUME Types, Wire, Deliver
    PROVE  /\ UNCHANGED <<log, open, connected, listening, note, polling, refreshing, work,
                          reading, seen, cache, lost, boot, faults>>
           /\ drain = "answered" /\ connected /\ listening /\ queries = None
           /\ \/ batch = {} /\ UNCHANGED <<pending, timer, delivered, cursor>>
              \/ batch # {} /\ Handle
           /\ \/ /\ Cardinality(batch) = BatchSize /\ requested' = requested
                 /\ queries' = Drain /\ drain' = "asked" /\ from' = cursor' /\ batch' = {}
              \/ /\ requested /\ requested' = FALSE
                 /\ queries' = Drain /\ drain' = "asked" /\ from' = cursor' /\ batch' = {}
              \/ /\ Cardinality(batch) # BatchSize /\ ~requested /\ requested' = requested
                 /\ queries' = None /\ drain' = "idle" /\ from' = 0 /\ batch' = {}
<1>1. drain = "answered" /\ connected /\ listening /\ queries = None
  BY DEF Deliver, Wire, Types
<1>2. UNCHANGED <<log, open, connected, listening, note, polling, refreshing, work,
                  reading, seen, cache, lost, boot, faults>>
  BY DEF Deliver, database
<1>3. \/ batch = {} /\ UNCHANGED <<pending, timer, delivered, cursor>>
      \/ batch # {} /\ Handle
  BY DEF Deliver
<1>4. \/ /\ Cardinality(batch) = BatchSize /\ requested' = requested
         /\ queries' = Drain /\ drain' = "asked" /\ from' = cursor' /\ batch' = {}
      \/ /\ requested /\ requested' = FALSE
         /\ queries' = Drain /\ drain' = "asked" /\ from' = cursor' /\ batch' = {}
      \/ /\ Cardinality(batch) # BatchSize /\ ~requested /\ requested' = requested
         /\ queries' = None /\ drain' = "idle" /\ from' = 0 /\ batch' = {}
  <2>1. CASE Cardinality(batch) = BatchSize
    BY <1>1, <2>1, Queues DEF Deliver, Ask
  <2>2. CASE Cardinality(batch) # BatchSize /\ requested
    BY <1>1, <2>2, Queues DEF Deliver, Ask
  <2>3. CASE Cardinality(batch) # BatchSize /\ ~requested
    BY <1>1, <2>3, Queues DEF Deliver
  <2> QED  BY <2>1, <2>2, <2>3
<1> QED  BY <1>1, <1>2, <1>3, <1>4
-----------------------------------------------------------------------------
(***************************************************************************)
(* The events.                                                             *)
(***************************************************************************)
LEMMA LogKept ==
    ASSUME log' = log
    PROVE  LatestId' = LatestId
  BY DEF LatestId, Ids

\* The event that is committed is the next one.
LEMMA CommitStep ==
    ASSUME Orderly, Events, NEW e \in open, Commit(e)
    PROVE  /\ log' = log \cup {e} /\ open' = open \ {e} /\ cursor > 0
           /\ e \in Event /\ e.id = LatestId + 1 /\ LatestId' = LatestId + 1
           /\ note' = (note \/ listening) /\ Ids(log') = 1..(LatestId + 1)
           /\ UNCHANGED <<connected, listening, queries, polling, drainLoop, refresh, history>>
<1>1. log' = log \cup {e} /\ open' = open \ {e} /\ cursor > 0 /\ e \in Event
      /\ note' = (note \/ listening)
      /\ UNCHANGED <<connected, listening, queries, polling, drainLoop, refresh, history>>
  BY DEF Commit, Settled, Orderly, Events
<1>2. \A f \in open : e.id <= f.id
  BY DEF Commit, Orderly
<1>3. LatestId \in Nat /\ Ids(log) = 1..LatestId
  BY DEF Events
<1>4. \A f \in log \cup open : f.id \in Nat
  BY Bounds DEF Events, Event, Id
<1>5. e.id > LatestId
  <2>1. CASE LatestId = 0
    BY <1>3, <2>1, Bounds DEF Events, Event, Id
  <2>2. CASE LatestId # 0
    <3>1. LatestId \in 1..LatestId
      BY <1>3, <2>2
    <3>2. PICK f \in log : f.id = LatestId
      BY <3>1, LogIds
    <3>3. f.id < e.id
      BY DEF Events
    <3> QED  BY <3>2, <3>3, <1>4
  <2> QED  BY <2>1, <2>2
<1>6. \A n \in Nat : LatestId < n /\ n <= e.id => \E f \in open : f.id = n
  <2> SUFFICES ASSUME NEW n \in Nat, LatestId < n, n <= e.id
               PROVE  \E f \in open : f.id = n
    OBVIOUS
  <2> DEFINE c == Cardinality(log \cup open)
  <2>1. c \in Nat
    BY FS_Union, FS_CardinalityType DEF Events
  <2>2. Ids(log \cup open) = 1..c
    BY DEF Events
  <2> HIDE DEF c
  <2>3. e.id \in 1..c
    BY <2>2 DEF Ids
  <2>4. n \in 1..c
    BY <2>1, <2>3, <1>3
  <2>5. PICK f \in log \cup open : f.id = n
    BY <2>2, <2>4 DEF Ids
  <2>6. f \notin log
    BY <2>5, <1>3, LogIds
  <2> QED  BY <2>5, <2>6
<1>7. e.id = LatestId + 1
  <2>1. PICK f \in open : f.id = LatestId + 1
    BY <1>3, <1>4, <1>5, <1>6
  <2> QED  BY <2>1, <1>2, <1>3, <1>4, <1>5
<1>8. Ids(log') = 1..(LatestId + 1)
  <2>1. Ids(log') = Ids(log) \cup {e.id}
    BY <1>1 DEF Ids
  <2> QED  BY <2>1, <1>3, <1>7
<1>9. LatestId' = LatestId + 1
  <2> DEFINE k == LatestId + 1
  <2>1. k \in Nat /\ Ids(log') = 1..k
    BY <1>3, <1>8
  <2> HIDE DEF k
  <2>2. Ids(log') \cup {0} \subseteq Nat /\ k \in Ids(log') \cup {0}
        /\ \A x \in Ids(log') \cup {0} : x <= k
    BY <2>1, <1>3 DEF k
  <2>3. Max(Ids(log') \cup {0}) = k
    BY <2>2, MaxOf
  <2> QED  BY <2>3 DEF LatestId, Ids, k
<1> QED  BY <1>1, <1>7, <1>8, <1>9

LEMMA EventsStep ==
    ASSUME Orderly, Events, [Next]_vars
    PROVE  Events'
<1>0. LatestId \in Nat /\ Ids(log) = 1..LatestId
  BY DEF Events
<1>1. ASSUME NEW t \in Table, Begin(t)
      PROVE  Events'
  <2> DEFINE all == log \cup open
             n == Cardinality(all)
             e == [id |-> n + 1, table |-> t]
  <2>1. IsFiniteSet(all) /\ n \in Nat
    BY FS_Union, FS_CardinalityType DEF Events
  <2>2. log' = log /\ open' = open \cup {e} /\ n < History + MaxWrites
    BY <1>1 DEF Begin
  <2>3. e \in Event /\ e.id = n + 1
    BY <2>1, <2>2, Bounds DEF Event, Id
  <2>4. Ids(all) = 1..n /\ (\A f, g \in all : f.id = g.id => f = g)
        /\ \A f \in all : f.id \in 1..n
    BY DEF Events, Ids
  <2>5. e \notin all
    <3> HIDE DEF e, all, n
    <3> QED  BY <2>1, <2>3, <2>4
  <2> HIDE DEF e
  <2>6. IsFiniteSet(log') /\ IsFiniteSet(open')
    BY <2>2, FS_AddElement DEF Events
  <2>7. (log \cup open)' = all \cup {e}
    BY <2>2
  <2> HIDE DEF all
  <2>8. Cardinality(all \cup {e}) = n + 1
    BY <2>1, <2>5, FS_AddElement
  <2> HIDE DEF n
  <2>9. Ids(all \cup {e}) = 1..(n + 1)
    <3>1. Ids(all \cup {e}) = Ids(all) \cup {n + 1}
      BY <2>3 DEF Ids
    <3>2. Ids(all) = 1..n /\ n \in Nat
      BY <2>1, <2>4
    <3>3. (1..n) \cup {n + 1} = 1..(n + 1)
      BY <3>2
    <3> QED  BY <3>1, <3>2, <3>3
  <2>10. \A f, g \in all \cup {e} : f.id = g.id => f = g
    BY <2>1, <2>3, <2>4
  <2>11. \A f \in log, g \in open' : f.id < g.id
    <3>1. \A f \in log : f.id < e.id
      BY <2>1, <2>3, <2>4 DEF all
    <3> QED  BY <3>1, <2>2 DEF Events
  <2>12. log' \subseteq Event /\ open' \subseteq Event
    BY <2>2, <2>3 DEF Events
  <2>13. LatestId' \in Nat /\ Ids(log)' = 1..LatestId'
    BY <1>0, <2>2, LogKept DEF Ids
  <2>14. Ids(log \cup open)' = 1..Cardinality(log \cup open)'
    BY <2>7, <2>8, <2>9 DEF Ids
  <2>15. \A f, g \in (log \cup open)' : f.id = g.id => f = g
    BY <2>7, <2>10
  <2>16. \A f \in log', g \in open' : f.id < g.id
    BY <2>2, <2>11
  <2> QED  BY <2>6, <2>12, <2>13, <2>14, <2>15, <2>16 DEF Events
<1>2. ASSUME NEW e \in open, Commit(e)
      PROVE  Events'
  <2>1. /\ log' = log \cup {e} /\ open' = open \ {e} /\ e \in Event
        /\ e.id = LatestId + 1 /\ LatestId' = LatestId + 1
        /\ Ids(log') = 1..(LatestId + 1)
    BY <1>2, CommitStep
  <2>2. (log \cup open)' = log \cup open
    BY <2>1
  <2>3. log' \subseteq Event /\ open' \subseteq Event
    BY <2>1 DEF Events
  <2>4. IsFiniteSet(log') /\ IsFiniteSet(open')
    BY <2>1, FS_AddElement, FS_RemoveElement DEF Events
  <2>5. LatestId' \in Nat /\ Ids(log)' = 1..LatestId'
    BY <1>0, <2>1 DEF Ids
  <2>6. Ids(log \cup open)' = 1..Cardinality(log \cup open)'
    BY <2>2 DEF Ids, Events
  <2>7. \A f, g \in (log \cup open)' : f.id = g.id => f = g
    BY <2>2 DEF Events
  <2>8. \A f \in log', g \in open' : f.id < g.id
    <3> SUFFICES ASSUME NEW f \in log', NEW g \in open'
                 PROVE  f.id < g.id
      OBVIOUS
    <3>1. g \in open /\ g # e
      BY <2>1
    <3>2. CASE f \in log
      BY <3>1, <3>2 DEF Events
    <3>3. CASE f = e
      <4>1. e.id <= g.id
        BY <1>2, <3>1 DEF Commit, Orderly
      <4>2. e.id # g.id
        BY <3>1 DEF Events
      <4>3. e.id \in Nat /\ g.id \in Nat
        BY <3>1, Bounds DEF Events, Event, Id
      <4> QED  BY <3>3, <4>1, <4>2, <4>3
    <3> QED  BY <2>1, <3>2, <3>3
  <2> QED  BY <2>3, <2>4, <2>5, <2>6, <2>7, <2>8 DEF Events
<1>3. ASSUME UNCHANGED <<log, open>>
      PROVE  Events'
  <2>1. LatestId' = LatestId
    BY <1>3, LogKept
  <2>2. (log \cup open)' = log \cup open
    BY <1>3
  <2> QED  BY <1>3, <2>1, <2>2 DEF Events, Ids
<1>4. CASE Notified \/ Poll
  BY <1>3, <1>4 DEF Notified, Poll, database
<1>5. CASE Listener
  BY <1>3, <1>5 DEF Listener, Connect, Listening, Latest, Answer, Deliver, database
<1>6. CASE Drop \/ Refresher \/ Fail
  BY <1>3, <1>6 DEF Drop, Refresher, Fire, Assign, Read, Fail, database
<1>7. CASE Restart \/ UNCHANGED vars
  BY <1>3, <1>7 DEF Restart, database, vars
<1> QED  BY <1>1, <1>2, <1>4, <1>5, <1>6, <1>7 DEF Next

\* What a delivered batch does: the position moves over it.
LEMMA DeliverMoves ==
    ASSUME Types, Events, Wire, Position, Batch, Deliver
    PROVE  \E n \in 0..BatchSize :
             /\ cursor' = cursor + n /\ cursor' <= LatestId /\ Cardinality(batch) = n
             /\ batch = Slice(cursor, cursor') /\ (n > 0 => cursor > 0)
             /\ n = BatchSize \/ note \/ requested \/ cursor' = LatestId
             /\ pending' = pending \cup Tables(batch)
             /\ delivered' \in [Id -> Nat]
             /\ \A i \in Id : delivered'[i] =
                    delivered[i] + IF cursor < i /\ i <= cursor' THEN 1 ELSE 0
<1>0. drain = "answered"
  BY DeliverStep
<1>1. PICK n \in 0..BatchSize :
         /\ Cardinality(batch) = n /\ cursor + n <= LatestId
         /\ batch = Slice(cursor, cursor + n)
         /\ n = BatchSize \/ note \/ requested \/ cursor + n = LatestId
  BY <1>0 DEF Batch, Slice
<1>2. cursor \in Nat /\ n \in Nat /\ LatestId \in Nat /\ BatchSize \in Nat
  BY Bounds DEF Position, Events
<1>3. delivered \in [Id -> Nat] /\ \A i \in Id : i \in Nat
  BY Bounds DEF Types, Id
<1>4. CASE n = 0
  <2>1. batch = {}
    <3>1. \A e \in log : e.id \in 1..LatestId
      BY LogIds
    <3> QED  BY <1>1, <1>2, <1>4, <3>1 DEF Slice
  <2>2. UNCHANGED <<pending, delivered, cursor>>
    BY <2>1, DeliverStep
  <2>3. cursor' = cursor + n /\ pending' = pending \cup Tables(batch)
    BY <1>2, <1>4, <2>1, <2>2 DEF Tables
  <2>4. \A i \in Id : delivered'[i] =
           delivered[i] + IF cursor < i /\ i <= cursor' THEN 1 ELSE 0
    BY <1>2, <1>3, <2>2
  <2> QED  BY <1>1, <1>2, <1>3, <1>4, <2>2, <2>3, <2>4
<1>5. CASE n > 0
  <2>1. Ids(batch) = (cursor + 1)..(cursor + n)
    <3>1. \A e \in batch : e.id \in (cursor + 1)..(cursor + n)
      <4>1. \A e \in log : e.id \in 1..LatestId
        BY LogIds
      <4> QED  BY <1>1, <1>2, <4>1 DEF Slice
    <3>2. \A i \in (cursor + 1)..(cursor + n) : \E e \in batch : e.id = i
      <4> TAKE i \in (cursor + 1)..(cursor + n)
      <4>1. i \in 1..LatestId
        BY <1>1, <1>2
      <4>2. PICK e \in log : e.id = i
        BY <4>1, LogIds
      <4>3. e \in batch
        BY <1>1, <1>2, <4>2 DEF Slice
      <4> QED  BY <4>2, <4>3
    <3> QED  BY <3>1, <3>2 DEF Ids
  <2>2. Max(Ids(batch)) = cursor + n
    <3>1. Ids(batch) \subseteq Nat /\ cursor + n \in Ids(batch)
          /\ \A x \in Ids(batch) : x <= cursor + n
      BY <2>1, <1>2, <1>5
    <3> QED  BY <3>1, MaxOf
  <2>3. cursor + n \in Ids(batch)
    BY <2>1, <1>2, <1>5
  <2>4. batch # {}
    BY <2>3 DEF Ids
  <2>5. Handle
    BY <2>4, DeliverStep
  <2>6. cursor' = cursor + n /\ pending' = pending \cup Tables(batch)
    BY <2>2, <2>5 DEF Handle
  <2>7. \A i \in Id : i \in Ids(batch) <=> cursor < i /\ i <= cursor'
    BY <1>2, <1>3, <2>1, <2>6
  <2>8. delivered' = [i \in Id |-> delivered[i] + IF i \in Ids(batch) THEN 1 ELSE 0]
    BY <2>5 DEF Handle
  <2>9. \A i \in Id : delivered'[i] =
           delivered[i] + IF cursor < i /\ i <= cursor' THEN 1 ELSE 0
    BY <2>7, <2>8
  <2>10. delivered' \in [Id -> Nat]
    BY <1>3, <2>8
  <2>11. cursor > 0
    <3>1. cursor = 0 => log = {}
      BY <1>0 DEF Wire
    <3>2. batch \subseteq log
      BY <1>1 DEF Slice
    <3> QED  BY <2>4, <3>1, <3>2, <1>2
  <2> QED  BY <1>1, <1>2, <2>6, <2>9, <2>10, <2>11
<1> QED  BY <1>2, <1>4, <1>5

-----------------------------------------------------------------------------
(***************************************************************************)
(* The invariant, part by part.                                            *)
(***************************************************************************)
\* Steps that leave what the node can see of the log to the node alone.
Still == UNCHANGED <<log, connection, drainLoop, delivered, boot>>

LEMMA StillStep ==
    ASSUME (\E t \in Table : Begin(t)) \/ Refresher \/ Fail \/ UNCHANGED vars
    PROVE  Still
  BY DEF Begin, Refresher, Fire, Assign, Read, Fail, vars, Still, database, history,
         connection, drainLoop

LEMMA WireStep ==
    ASSUME Orderly, Types, Events, Wire, Position, Batch, [Next]_vars
    PROVE  Wire'
<1>1. CASE Still
  BY <1>1 DEF Still, Wire, connection, drainLoop
<1>2. ASSUME NEW e \in open, Commit(e)
      PROVE  Wire'
  <2>1. /\ cursor > 0 /\ note' = (note \/ listening)
        /\ UNCHANGED <<connected, listening, queries, polling, drainLoop>>
    BY <1>2, CommitStep
  <2>2. /\ connected \in BOOLEAN /\ listening \in BOOLEAN /\ note \in BOOLEAN
        /\ cursor \in Nat /\ cursor' = cursor /\ drain' = drain
    BY <2>1 DEF Types, Position, Events, drainLoop
  <2> QED  BY <2>1, <2>2 DEF Wire, drainLoop
<1>3. CASE Notified \/ Poll
  <2>1. /\ UNCHANGED <<log, connected, listening, polling, cursor>>
        /\ note' = note \/ note' = FALSE
    BY <1>3, RequestStep DEF elsewhere
  <2>2. CASE UNCHANGED <<queries, drain>>
    BY <2>1, <2>2 DEF Wire
  <2>3. CASE /\ drain = "idle" /\ connected /\ (cursor = 0 => listening /\ log = {})
             /\ \/ queries = None /\ queries' = Drain
                \/ queries = Listen /\ queries' = Both
             /\ drain' = "asked"
    BY <2>1, <2>3, Queues DEF Wire
  <2> QED  BY <1>3, <2>2, <2>3, RequestStep
<1>4. CASE Connect
  BY <1>4, Queues DEF Connect, Wire, database, drainLoop, Types, Listen
<1>5. CASE Listening
  <2>1. /\ UNCHANGED <<log, connected, note, cursor>>
        /\ connected /\ ~listening /\ listening' = TRUE
    BY <1>5, ListeningStep DEF elsewhere
  <2>2. CASE cursor = 0 /\ queries = Listen /\ queries' = Newest /\ UNCHANGED <<polling, drain>>
    BY <2>1, <2>2, Queues DEF Wire
  <2>3. CASE cursor # 0 /\ queries' = Drain /\ drain' = "asked"
    BY <2>1, <2>3, Queues DEF Wire
  <2> QED  BY <1>5, <2>2, <2>3, ListeningStep
<1>6. CASE Latest
  <2>1. /\ UNCHANGED <<log, connected, listening, note, drain>>
        /\ queries' = None /\ cursor = 0 /\ cursor' = LatestId
        /\ drain = "idle" /\ connected /\ listening
    BY <1>6, LatestStep DEF elsewhere
  <2>2. cursor' = 0 => log = {}
    BY <2>1, LogIds
  <2> QED  BY <2>1, <2>2, Queues DEF Wire
<1>7. CASE Answer
  <2>1. /\ UNCHANGED <<log, connected, listening, note, polling, cursor>>
        /\ queries' = None /\ drain = "asked" /\ drain' = "answered" /\ connected /\ listening
    BY <1>7, AnswerStep DEF elsewhere
  <2> QED  BY <2>1, Queues DEF Wire
<1>8. CASE Deliver
  <2>1. /\ UNCHANGED <<log, connected, listening, note, polling>>
        /\ drain = "answered" /\ connected /\ listening
        /\ (queries' = Drain /\ drain' = "asked") \/ (queries' = None /\ drain' = "idle")
    BY <1>8, DeliverStep
  <2>2. cursor' = 0 => cursor = 0
    BY <1>8, DeliverMoves DEF Position, Events
  <2>3. CASE queries' = Drain /\ drain' = "asked"
    BY <2>1, <2>2, <2>3, Queues DEF Wire
  <2>4. CASE queries' = None /\ drain' = "idle"
    BY <2>1, <2>2, <2>4, Queues DEF Wire
  <2> QED  BY <2>1, <2>3, <2>4
<1>9. CASE Drop
  <2>1. cursor # 0
    BY <1>9 DEF Drop, Settled, Orderly, Position
  <2> QED  BY <1>9, <2>1, Queues DEF Drop, Wire, None
<1>10. CASE Restart
  BY <1>10, Queues DEF Restart, Wire, None
<1> QED
  BY <1>1, <1>2, <1>3, <1>4, <1>5, <1>6, <1>7, <1>8, <1>9, <1>10, StillStep
  DEF Next, Listener

LEMMA PositionStep ==
    ASSUME Orderly, Types, Events, Wire, Position, Batch, [Next]_vars
    PROVE  Position'
<1>0. LatestId \in Nat /\ cursor \in Nat /\ boot \in Nat
  BY DEF Position, Events
<1>1. CASE Still
  BY <1>1, LogKept DEF Still, Position, drainLoop
<1>2. ASSUME NEW e \in open, Commit(e)
      PROVE  Position'
  <2>1. /\ cursor > 0 /\ LatestId' = LatestId + 1
        /\ cursor' = cursor /\ from' = from /\ drain' = drain /\ boot' = boot
    BY <1>2, CommitStep DEF drainLoop, history
  <2> QED  BY <2>1, <1>0 DEF Position
<1>3. CASE Notified \/ Poll
  <2>1. log' = log /\ cursor' = cursor /\ boot' = boot
        /\ (from' = cursor \/ (from' = from /\ drain' = drain))
    BY <1>3, RequestStep DEF elsewhere
  <2> QED  BY <2>1, LogKept DEF Position
<1>4. CASE Connect
  BY <1>4, LogKept DEF Connect, Position, database, drainLoop, history
<1>5. CASE Listening
  <2>1. log' = log /\ cursor' = cursor /\ boot' = boot
        /\ (from' = cursor \/ (from' = from /\ drain' = drain))
    BY <1>5, ListeningStep DEF elsewhere
  <2> QED  BY <2>1, LogKept DEF Position
<1>6. CASE Latest
  <2>1. log' = log /\ cursor = 0 /\ cursor' = LatestId /\ boot' = boot
        /\ from' = from /\ drain' = drain /\ drain = "idle"
    BY <1>6, LatestStep DEF elsewhere
  <2> QED  BY <2>1, <1>0, LogKept DEF Position
<1>7. CASE Answer
  <2>1. log' = log /\ cursor' = cursor /\ boot' = boot /\ from' = from /\ drain = "asked"
    BY <1>7, AnswerStep DEF elsewhere
  <2> QED  BY <2>1, LogKept DEF Position
<1>8. CASE Deliver
  <2>1. log' = log /\ boot' = boot /\ (from' = cursor' \/ (from' = 0 /\ drain' = "idle"))
    BY <1>8, DeliverStep
  <2>2. PICK n \in 0..BatchSize : /\ cursor' = cursor + n /\ cursor' <= LatestId
                                  /\ n > 0 => cursor > 0
    BY <1>8, DeliverMoves
  <2>3. cursor' \in 0..LatestId /\ cursor <= cursor' /\ (cursor' # 0 => cursor # 0)
    BY <2>2, <1>0, Bounds
  <2> QED  BY <2>1, <2>3, <1>0, LogKept DEF Position
<1>9. CASE Drop
  BY <1>9, LogKept DEF Drop, Position, database
<1>10. CASE Restart
  <2>1. log' = log /\ cursor' = 0 /\ from' = 0 /\ boot' = LatestId
    BY <1>10 DEF Restart, database
  <2> QED  BY <2>1, <1>0, LogKept DEF Position
<1> QED
  BY <1>1, <1>2, <1>3, <1>4, <1>5, <1>6, <1>7, <1>8, <1>9, <1>10, StillStep
  DEF Next, Listener

LEMMA BatchStep ==
    ASSUME Orderly, Types, Events, Wire, Position, Batch, [Next]_vars
    PROVE  Batch'
<1>0. LatestId \in Nat /\ cursor \in Nat /\ BatchSize \in Nat
  BY Bounds DEF Position, Events
<1>1. CASE Still
  BY <1>1, LogKept DEF Still, Batch, connection, drainLoop
<1>2. ASSUME NEW e \in open, Commit(e)
      PROVE  Batch'
  <2>1. /\ log' = log \cup {e} /\ LatestId' = LatestId + 1 /\ e.id = LatestId + 1
        /\ note' = (note \/ listening)
        /\ UNCHANGED <<cursor, requested, drain, batch>>
    BY <1>2, CommitStep DEF drainLoop
  <2>2. CASE drain # "answered"
    BY <2>1, <2>2 DEF Batch
  <2>3. CASE drain = "answered"
    <3>1. note'
      BY <2>1, <2>3 DEF Wire, Types
    <3>2. PICK n \in 0..BatchSize :
            /\ Cardinality(batch) = n /\ cursor + n <= LatestId
            /\ batch = {f \in log : cursor < f.id /\ f.id <= cursor + n}
      BY <2>3 DEF Batch
    <3>3. batch' = {f \in log' : cursor' < f.id /\ f.id <= cursor' + n}
      BY <2>1, <3>2, <1>0
    <3>4. Cardinality(batch') = n /\ cursor' + n <= LatestId'
      BY <2>1, <3>2, <1>0
    <3> QED  BY <2>1, <2>3, <3>1, <3>3, <3>4 DEF Batch
  <2> QED  BY <2>2, <2>3
<1>3. CASE Notified \/ Poll
  <2>1. /\ log' = log /\ cursor' = cursor
        /\ \/ drain' = "asked" /\ batch' = {}
           \/ requested' = TRUE /\ UNCHANGED <<drain, batch>>
    BY <1>3, RequestStep DEF elsewhere
  <2> QED  BY <2>1, LogKept DEF Batch
<1>4. CASE Connect
  BY <1>4, LogKept DEF Connect, Batch, database, drainLoop
<1>5. CASE Listening
  <2>1. drain' # "answered" /\ (batch' = {} \/ (batch' = batch /\ drain # "answered"))
    BY <1>5, ListeningStep DEF Wire, Types
  <2> QED  BY <2>1 DEF Batch
<1>6. CASE Latest
  BY <1>6, LatestStep DEF Batch
<1>7. CASE Answer
  <2>1. /\ log' = log /\ cursor' = cursor /\ from = cursor /\ drain' = "answered"
        /\ batch' = EventBatch(cursor)
    BY <1>7, AnswerStep DEF elsewhere, Position
  <2>2. PICK n \in 0..BatchSize :
          /\ cursor + n <= LatestId /\ EventBatch(cursor) = Slice(cursor, cursor + n)
          /\ Cardinality(EventBatch(cursor)) = n
          /\ n = BatchSize \/ cursor + n = LatestId
    BY NextBatch DEF Position
  <2>3. batch' = {e \in log' : cursor' < e.id /\ e.id <= cursor' + n}
    BY <2>1, <2>2 DEF Slice
  <2>4. /\ Cardinality(batch') = n /\ cursor' + n <= LatestId'
        /\ n = BatchSize \/ cursor' + n = LatestId'
    BY <2>1, <2>2, LogKept
  <2> QED  BY <2>1, <2>3, <2>4 DEF Batch
<1>8. CASE Deliver
  BY <1>8, DeliverStep DEF Batch
<1>9. CASE Drop
  BY <1>9 DEF Drop, Batch
<1>10. CASE Restart
  BY <1>10 DEF Restart, Batch
<1> QED
  BY <1>1, <1>2, <1>3, <1>4, <1>5, <1>6, <1>7, <1>8, <1>9, <1>10, StillStep
  DEF Next, Listener

LEMMA OnceStep ==
    ASSUME Orderly, Types, Events, Wire, Position, Batch, ExactlyOnce, [Next]_vars
    PROVE  ExactlyOnce'
<1>0. /\ LatestId \in Nat /\ cursor \in Nat /\ boot \in Nat
      /\ \A i \in Id : i \in Nat
  BY Bounds DEF Position, Events, Id
<1>1. CASE UNCHANGED <<cursor, delivered, boot>>
  BY <1>1 DEF ExactlyOnce
<1>2. ASSUME NEW e \in open, Commit(e)
      PROVE  ExactlyOnce'
  BY <1>1, <1>2 DEF Commit, drainLoop, history
<1>3. CASE Notified \/ Poll \/ Connect \/ Listening \/ Answer \/ Drop
  BY <1>1, <1>3 DEF Notified, Poll, Connect, Listening, Answer, Drop, history, drainLoop
<1>4. CASE Latest
  <2>1. boot = LatestId /\ cursor = 0 /\ cursor' = LatestId /\ UNCHANGED <<delivered, boot>>
    BY <1>4, LatestStep DEF Position, elsewhere
  <2>2. \A i \in Id : ~(boot < i /\ i <= cursor) /\ ~(boot' < i /\ i <= cursor')
    BY <1>0, <2>1
  <2> QED  BY <2>1, <2>2 DEF ExactlyOnce
<1>5. CASE Deliver
  <2>1. PICK n \in 0..BatchSize :
          /\ cursor' = cursor + n /\ (n > 0 => cursor > 0)
          /\ \A i \in Id : delivered'[i] =
                 delivered[i] + IF cursor < i /\ i <= cursor' THEN 1 ELSE 0
    BY <1>5, DeliverMoves
  <2>2. boot' = boot /\ (n > 0 => boot <= cursor) /\ n \in Nat
    BY <1>0, <1>5, <2>1, Bounds, DeliverStep DEF Position
  <2>3. \A i \in Id : delivered'[i] = IF boot < i /\ i <= cursor' THEN 1 ELSE 0
    <3> TAKE i \in Id
    <3>1. i \in Nat /\ cursor' \in Nat
      BY <1>0, <2>1, <2>2
    <3>2. delivered[i] = IF boot < i /\ i <= cursor THEN 1 ELSE 0
      BY DEF ExactlyOnce
    <3> QED  BY <1>0, <2>1, <2>2, <3>1, <3>2
  <2> QED  BY <2>2, <2>3 DEF ExactlyOnce
<1>6. CASE Restart
  <2>1. /\ cursor' = 0 /\ \A i \in Id : delivered'[i] = 0
        /\ boot' = LatestId /\ log' = log
    BY <1>6 DEF Restart, database
  <2> QED  BY <1>0, <2>1, LogKept DEF ExactlyOnce
<1>7. CASE Still
  BY <1>1, <1>7 DEF Still, drainLoop
<1> QED  BY <1>2, <1>3, <1>4, <1>5, <1>6, <1>7, StillStep DEF Next, Listener

LEMMA AwakeStep ==
    ASSUME Orderly, Types, Events, Wire, Position, Batch, Awake, [Next]_vars
    PROVE  Awake'
<1>0. LatestId \in Nat /\ cursor \in Nat
  BY DEF Position, Events
<1>1. CASE Still
  BY <1>1, LogKept DEF Still, Awake, connection, drainLoop
<1>2. ASSUME NEW e \in open, Commit(e)
      PROVE  Awake'
  <2>1. note' = (note \/ listening) /\ listening' = listening
    BY <1>2, CommitStep
  <2> QED  BY <2>1 DEF Awake, Types
<1>3. CASE Notified \/ Poll
  <2>1. /\ log' = log /\ UNCHANGED <<listening, cursor>>
        /\ (drain' # "idle" \/ (drain' = drain /\ note' = note /\ queries' = queries))
    BY <1>3, RequestStep DEF elsewhere
  <2> QED  BY <2>1, LogKept DEF Awake
<1>4. CASE Connect
  BY <1>4 DEF Connect, Awake, Wire
<1>5. CASE Listening
  <2>1. drain' # "idle" \/ queries' = Newest
    BY <1>5, ListeningStep
  <2> QED  BY <2>1 DEF Awake, Newest
<1>6. CASE Latest
  <2>1. cursor' = LatestId' /\ LatestId' \in Nat
    BY <1>0, <1>6, LatestStep, LogKept DEF elsewhere
  <2> QED  BY <2>1 DEF Awake
<1>7. CASE Answer
  BY <1>7, AnswerStep DEF Awake
<1>8. CASE Deliver
  <2>1. PICK n \in 0..BatchSize :
          /\ Cardinality(batch) = n
          /\ n = BatchSize \/ note \/ requested \/ cursor' = LatestId
    BY <1>8, DeliverMoves
  <2>2. /\ log' = log /\ note' = note
        /\ drain' = "asked" \/ (Cardinality(batch) # BatchSize /\ ~requested)
    BY <1>8, DeliverStep
  <2> QED  BY <1>0, <2>1, <2>2, LogKept DEF Awake
<1>9. CASE Drop \/ Restart
  BY <1>9 DEF Drop, Restart, Awake
<1> QED
  BY <1>1, <1>2, <1>3, <1>4, <1>5, <1>6, <1>7, <1>8, <1>9, StillStep
  DEF Next, Listener

LEMMA CurrentStep ==
    ASSUME Orderly, Types, Events, Wire, Position, Batch, Current, [Next]_vars
    PROVE  Current'
<1>0. /\ LatestId \in Nat /\ cursor \in Nat
      /\ \A e \in log : e.id \in 1..LatestId
      /\ NoTable \notin Table /\ reading \in Table \cup {NoTable}
      /\ cache \in [Table -> Nat]
  BY LogIds, Bounds DEF Position, Events, Types
<1>1. CASE UNCHANGED <<log, cursor, refresh>>
  BY <1>1 DEF refresh, Current
<1>2. ASSUME NEW e \in open, Commit(e)
      PROVE  Current'
  <2>1. /\ log' = log \cup {e} /\ cursor > 0 /\ e.id = LatestId + 1
        /\ cursor' = cursor /\ UNCHANGED refresh
    BY <1>2, CommitStep DEF drainLoop
  <2>2. e.id > cursor
    BY <1>0, <2>1 DEF Position
  <2>3. \A t : t # e.table => Count(log', t) = Count(log, t)
    <3> TAKE t
    <3> HAVE t # e.table
    <3>1. {f \in log' : f.table = t} = {f \in log : f.table = t}
      BY <2>1
    <3> QED  BY <3>1 DEF Count
  <2>4. Unread(log', cursor', e.table)
    BY <1>0, <2>1, <2>2 DEF Unread
  <2>5. \A t : Unread(log, cursor, t) => Unread(log', cursor', t)
    BY <2>1 DEF Unread
  <2>6. reading' # NoTable =>
          /\ reading' \in work'
          /\ \/ seen' = Count(log', reading') \/ reading' \in pending'
             \/ Unread(log', cursor', reading')
    BY <2>1, <2>3, <2>4, <2>5 DEF Current, refresh
  <2>7. \A t \in Table \ lost' :
          \/ cache'[t] = Count(log', t) \/ t \in pending' \/ t \in work'
          \/ Unread(log', cursor', t)
    BY <2>1, <2>3, <2>4, <2>5 DEF Current, refresh
  <2> QED  BY <2>1, <2>6, <2>7 DEF Current, refresh
<1>3. CASE (\E t \in Table : Begin(t)) \/ Notified \/ Poll \/ Connect \/ Listening \/ Answer
           \/ Drop \/ UNCHANGED vars
  <2>1. UNCHANGED <<log, cursor, refresh>>
    BY <1>3 DEF Begin, Notified, Poll, Connect, Listening, Answer, Drop, vars, drainLoop,
                refresh, database
  <2> QED  BY <1>1, <2>1
<1>4. CASE Latest
  <2>1. cursor = 0 /\ log' = log /\ UNCHANGED refresh
    BY <1>4, LatestStep DEF elsewhere, refresh
  <2>2. \A t : ~Unread(log, cursor, t)
    BY <2>1 DEF Unread
  <2> QED  BY <2>1, <2>2 DEF Current, refresh
<1>5. CASE Deliver
  <2>1. PICK n \in 0..BatchSize :
          /\ cursor' = cursor + n /\ (n > 0 => cursor > 0)
          /\ batch = Slice(cursor, cursor') /\ pending' = pending \cup Tables(batch)
    BY <1>5, DeliverMoves
  <2>2. log' = log /\ UNCHANGED <<refreshing, work, reading, seen, cache, lost>>
    BY <1>5, DeliverStep
  <2>3. \A t : Unread(log, cursor, t) => t \in pending' \/ Unread(log', cursor', t)
    <3> SUFFICES ASSUME NEW t, Unread(log, cursor, t)
                 PROVE  t \in pending' \/ Unread(log', cursor', t)
      OBVIOUS
    <3>1. PICK e \in log : e.id > cursor /\ e.table = t /\ cursor # 0
      BY DEF Unread
    <3>2. cursor' \in Nat /\ cursor' # 0 /\ e.id \in Nat
      BY <1>0, <2>1, <3>1, Bounds
    <3>3. CASE e.id <= cursor'
      <4>1. e \in batch
        BY <1>0, <2>1, <3>1, <3>2, <3>3 DEF Slice
      <4> QED  BY <2>1, <3>1, <4>1 DEF Tables
    <3>4. CASE e.id > cursor'
      BY <2>2, <3>1, <3>2, <3>4 DEF Unread
    <3> QED  BY <1>0, <3>2, <3>3, <3>4
  <2>4. pending \subseteq pending'
    BY <2>1
  <2> QED  BY <2>2, <2>3, <2>4 DEF Current
<1>6. CASE Fire
  <2>1. log' = log /\ UNCHANGED <<cursor, reading, seen, cache>>
    BY <1>6 DEF Fire, database, drainLoop
  <2>2. CASE UNCHANGED <<work, pending, lost, refreshing>>
    BY <2>1, <2>2 DEF Current
  <2>3. CASE ~refreshing /\ TakePending
    <3>1. /\ work' = pending /\ pending' = {} /\ lost' = lost \ pending /\ refreshing'
          /\ work = {} /\ reading = NoTable
      BY <2>3 DEF TakePending, Current
    <3> QED  BY <2>1, <3>1 DEF Current
  <2> QED  BY <1>6, <2>2, <2>3 DEF Fire
<1>7. ASSUME NEW t \in Table, Read(t)
      PROVE  Current'
  <2>1. /\ log' = log /\ UNCHANGED <<cursor, pending, refreshing, work, cache, lost>>
        /\ t \in work /\ reading' = t /\ seen' = Count(log, t)
    BY <1>7 DEF Read, database, drainLoop, Version, Count
  <2> QED  BY <2>1 DEF Current
<1>8. CASE Assign
  <2>1. /\ log' = log /\ cursor' = cursor /\ reading' = NoTable
        /\ reading # NoTable /\ reading \in Table
        /\ cache' = [cache EXCEPT ![reading] = seen]
    BY <1>0, <1>8 DEF Assign, database, drainLoop
  <2>2. reading \in work
    BY <2>1 DEF Current
  <2>3. \A t \in Table \ lost : t # reading \/ t \in pending =>
          \/ cache'[t] = Count(log, t) \/ t \in pending \/ t \in work \ {reading}
          \/ Unread(log, cursor, t)
    BY <1>0, <2>1 DEF Current
  <2>4. \/ cache'[reading] = Count(log, reading) \/ reading \in pending
        \/ Unread(log, cursor, reading)
    BY <1>0, <2>1 DEF Current
  <2>5. \A t \in Table \ lost :
          \/ cache'[t] = Count(log, t) \/ t \in pending \/ t \in work \ {reading}
          \/ Unread(log, cursor, t)
    BY <2>3, <2>4
  <2>6. CASE work # {reading}
    <3>1. work' = work \ {reading} /\ UNCHANGED <<pending, refreshing, lost>>
      BY <1>8, <2>6 DEF Assign
    <3> QED  BY <2>1, <2>2, <2>5, <3>1 DEF Current
  <2>7. CASE work = {reading} /\ pending = {}
    <3>1. refreshing' = FALSE /\ UNCHANGED <<pending, lost>> /\ work' = {}
      BY <1>8, <2>7 DEF Assign, RoundEnds
    <3> QED  BY <2>1, <2>5, <2>7, <3>1 DEF Current
  <2>8. CASE work = {reading} /\ pending # {}
    <3>1. refreshing' = TRUE /\ pending' = {} /\ lost' = lost \ pending /\ work' = pending
      BY <1>8, <2>8 DEF Assign, RoundEnds
    <3> QED  BY <2>1, <2>5, <2>8, <3>1 DEF Current
  <2> QED  BY <2>6, <2>7, <2>8
<1>9. CASE Fail
  <2>1. /\ log' = log /\ UNCHANGED <<cursor, pending, cache>> /\ reading' = NoTable
        /\ lost' = lost \cup work \cup pending /\ work' = {} /\ refreshing' = FALSE
    BY <1>9 DEF Fail, database, drainLoop
  <2> QED  BY <2>1 DEF Current
<1>10. CASE Restart
  <2>1. /\ log' = log /\ reading' = NoTable /\ work' = {}
        /\ cache' = [t \in Table |-> Count(log, t)]
    BY <1>10 DEF Restart, database, Version, Count
  <2> QED  BY <2>1 DEF Current
<1> QED
  BY <1>2, <1>3, <1>4, <1>5, <1>6, <1>7, <1>8, <1>9, <1>10
  DEF Next, Listener, Refresher

LEMMA TypesStep ==
    ASSUME Orderly, Types, Events, Wire, Position, Batch, [Next]_vars
    PROVE  Types'
<1>0. \A t : Count(log, t) \in Nat
  BY CountType
<1>faults. ASSUME NEW kind, Fault(kind)
            PROVE  faults' \in 0..MaxFaults
  BY <1>faults, Bounds DEF Fault, Types
<1>1. ASSUME NEW e \in open, Commit(e)
      PROVE  Types'
  BY <1>1, CommitStep DEF Types, drainLoop, refresh, history
<1>2. CASE (\E t \in Table : Begin(t)) \/ UNCHANGED vars
  BY <1>2 DEF Begin, vars, Types, connection, drainLoop, refresh, history
<1>3. CASE Notified \/ Poll
  <2>1. /\ note' \in BOOLEAN /\ requested' \in BOOLEAN /\ queries' \in {None, Listen, Newest, Drain, Both}
        /\ drain' \in {"idle", "asked", "answered"}
    BY <1>3, RequestStep DEF Types
  <2> QED  BY <1>3, <2>1, RequestStep DEF Types, elsewhere
<1>4. CASE Connect
  BY <1>4 DEF Connect, Types, drainLoop, refresh, history, Listen
<1>5. CASE Listening
  <2>1. /\ polling' \in BOOLEAN /\ requested' \in BOOLEAN
        /\ queries' \in {None, Listen, Newest, Drain, Both}
        /\ drain' \in {"idle", "asked", "answered"}
    BY <1>5, ListeningStep DEF Types
  <2> QED  BY <1>5, <2>1, ListeningStep DEF Types, elsewhere
<1>6. CASE Latest
  BY <1>6, LatestStep DEF Types, elsewhere
<1>7. CASE Answer
  BY <1>7, AnswerStep DEF Types, elsewhere
<1>8. CASE Deliver
  <2>1. /\ UNCHANGED <<connected, listening, note, polling, refreshing, work,
                       reading, seen, cache, lost, faults>>
        /\ requested' \in BOOLEAN /\ queries' \in {None, Listen, Newest, Drain, Both}
        /\ drain' \in {"idle", "asked", "answered"}
    BY <1>8, DeliverStep DEF Types
  <2>2. timer' \in BOOLEAN
    BY <1>8, DeliverStep DEF Types, Handle
  <2>3. delivered' \in [Id -> Nat] /\ pending' = pending \cup Tables(batch)
        /\ batch \subseteq log
    BY <1>8, DeliverMoves DEF Slice
  <2>4. pending' \subseteq Table
    <3>1. \A e \in batch : e.table \in Table
      BY <2>3 DEF Events, Event
    <3> QED  BY <2>3, <3>1 DEF Tables, Types
  <2> QED  BY <2>1, <2>2, <2>3, <2>4 DEF Types
<1>9. CASE Drop
  <2>1. faults' \in 0..MaxFaults
    BY <1>9, <1>faults DEF Drop
  <2> QED  BY <1>9, <2>1 DEF Drop, Types, refresh, None
<1>10. CASE Fire
  <2>1. UNCHANGED <<connection, drainLoop, reading, seen, cache, delivered, faults>>
    BY <1>10 DEF Fire, history
  <2>2. /\ timer' \in BOOLEAN /\ refreshing' \in BOOLEAN
        /\ work' \subseteq Table /\ pending' \subseteq Table /\ lost' \subseteq Table
    BY <1>10 DEF Fire, TakePending, Types
  <2> QED  BY <2>1, <2>2 DEF Types, connection, drainLoop
<1>11. ASSUME NEW t \in Table, Read(t)
       PROVE  Types'
  <2>1. seen' \in Nat
    BY <1>0, <1>11 DEF Read, Version, Count
  <2> QED  BY <1>11, <2>1 DEF Read, Types, connection, drainLoop, history
<1>12. CASE Assign
  <2>1. cache' \in [Table -> Nat] /\ seen' \in Nat /\ reading' \in Table \cup {NoTable}
    BY <1>12 DEF Assign, Types
  <2>2. /\ refreshing' \in BOOLEAN /\ pending' \subseteq Table
        /\ work' \subseteq Table /\ lost' \subseteq Table
    BY <1>12 DEF Assign, RoundEnds, Types
  <2> QED  BY <1>12, <2>1, <2>2 DEF Assign, Types, connection, drainLoop, history
<1>13. CASE Fail
  <2>1. faults' \in 0..MaxFaults
    BY <1>13, <1>faults DEF Fail
  <2> QED  BY <1>13, <2>1 DEF Fail, Types, connection, drainLoop
<1>14. CASE Restart
  <2>1. cache' \in [Table -> Nat] /\ delivered' \in [Id -> Nat]
    BY <1>0, <1>14 DEF Restart, Version, Count
  <2>2. faults' \in 0..MaxFaults
    BY <1>14, <1>faults DEF Restart
  <2> QED  BY <1>14, <2>1, <2>2 DEF Restart, Types, None
<1> QED
  BY <1>1, <1>2, <1>3, <1>4, <1>5, <1>6, <1>7, <1>8, <1>9, <1>10, <1>11, <1>12, <1>13, <1>14
  DEF Next, Listener, Refresher

\* The first boot: the history is there, and every cache has been loaded.
LEMMA InitIInv ==
    ASSUME Init
    PROVE  IInv
<1>0. PICK f \in [1..History -> Table] :
         log = {[id |-> i, table |-> f[i]] : i \in 1..History}
  BY DEF Init
<1>1. open = {} /\ History \in Nat /\ MaxWrites \in Nat
  BY Bounds DEF Init
<1>2. log \subseteq Event
  BY <1>0, <1>1 DEF Event, Id
<1>3. Ids(log) = 1..History
  <2>1. \A e \in log : e.id \in 1..History
    BY <1>0
  <2>2. \A i \in 1..History : \E e \in log : e.id = i
    <3> TAKE i \in 1..History
    <3>1. [id |-> i, table |-> f[i]] \in log
      BY <1>0
    <3> QED  BY <3>1
  <2> QED  BY <2>1, <2>2 DEF Ids
<1>4. \A e, g \in log : e.id = g.id => e = g
  BY <1>0
<1>5. LatestId = History
  BY <1>1, <1>3, LatestOf
<1>6. IsFiniteSet(log) /\ Cardinality(log) = History
  <2> DEFINE g == [i \in 1..History |-> [id |-> i, table |-> f[i]]]
  <2>1. g \in [1..History -> log] /\ DOMAIN g = 1..History
    BY <1>0
  <2>2. \A i, j \in 1..History : g[i] = g[j] => i = j
    OBVIOUS
  <2>3. \A e \in log : \E i \in 1..History : g[i] = e
    BY <1>0
  <2> HIDE DEF g
  <2>4. g \in Injection(1..History, log)
    BY <2>1, <2>2, Zenon DEF Injection, IsInjective
  <2>5. g \in Surjection(1..History, log)
    BY <2>1, <2>3, Zenon DEF Surjection
  <2>6. ExistsBijection(1..History, log)
    BY <2>4, <2>5 DEF Bijection, ExistsBijection
  <2>7. IsFiniteSet(1..History) /\ Cardinality(1..History) = History
    <3>1. 1 \in Int /\ History \in Int
      BY <1>1
    <3>2. IsFiniteSet(1..History)
          /\ Cardinality(1..History) = IF 1 > History THEN 0 ELSE History - 1 + 1
      BY <3>1, FS_Interval
    <3> QED  BY <3>2, <1>1
  <2> QED  BY <2>6, <2>7, FS_Bijection
<1>7. Events
  <2>1. IsFiniteSet(open)
    BY <1>1, FS_EmptySet
  <2>2. log \cup open = log
    BY <1>1
  <2> QED  BY <1>1, <1>2, <1>3, <1>4, <1>5, <1>6, <2>1, <2>2 DEF Events
<1>8. \A t : Count(log, t) \in Nat
  BY <1>7, CountType
<1>9. cache = [t \in Table |-> Count(log, t)]
  BY DEF Init, Version, Count
<1>10. Types
  <2>1. cache \in [Table -> Nat] /\ delivered \in [Id -> Nat]
    BY <1>8, <1>9 DEF Init
  <2>2. /\ queries = <<>> /\ seen = 0 /\ faults = 0 /\ drain = "idle"
        /\ pending = {} /\ work = {} /\ lost = {} /\ reading = NoTable
        /\ {connected, listening, note, polling, requested, timer, refreshing} \subseteq {FALSE}
    BY DEF Init
  <2>3. faults \in 0..MaxFaults /\ seen \in Nat
    BY <2>2, Bounds
  <2> QED  BY <2>1, <2>2, <2>3 DEF Types, None
<1>11. Wire
  BY Queues DEF Init, Wire, None
<1>12. Position
  BY <1>1, <1>5 DEF Init, Position
<1>13. Batch /\ Awake
  BY DEF Init, Batch, Awake
<1>14. Current
  BY <1>9 DEF Init, Current
<1>15. ExactlyOnce
  <2>1. \A i \in Id : delivered[i] = 0 /\ i \in Nat
    BY Bounds DEF Init, Id
  <2>2. boot = History /\ cursor = 0
    BY <1>5 DEF Init
  <2> QED  BY <1>1, <2>1, <2>2 DEF ExactlyOnce
<1> QED  BY <1>7, <1>10, <1>11, <1>12, <1>13, <1>14, <1>15 DEF IInv

LEMMA IInvStep ==
    ASSUME Orderly, IInv, [Next]_vars
    PROVE  IInv'
<1>1. Types /\ Events /\ Wire /\ Position /\ Batch /\ ExactlyOnce /\ Awake /\ Current
  BY DEF IInv
<1>2. Types'
  BY <1>1, TypesStep
<1>3. Events'
  BY <1>1, EventsStep
<1>4. Wire'
  BY <1>1, WireStep
<1>5. Position'
  BY <1>1, PositionStep
<1>6. Batch'
  BY <1>1, BatchStep
<1>7. ExactlyOnce'
  BY <1>1, OnceStep
<1>8. Awake'
  BY <1>1, AwakeStep
<1>9. Current'
  BY <1>1, CurrentStep
<1> QED  BY <1>2, <1>3, <1>4, <1>5, <1>6, <1>7, <1>8, <1>9 DEF IInv

LEMMA Invariant ==
    ASSUME Orderly
    PROVE  Spec => []IInv
<1>1. Init => IInv
  BY InitIInv
<1>2. IInv /\ [Next]_vars => IInv'
  BY IInvStep
<1> QED  BY <1>1, <1>2, PTL DEF Spec
-----------------------------------------------------------------------------
(***************************************************************************)
(* The properties.                                                         *)
(***************************************************************************)
LEMMA IInvImpliesTypeOK ==
    ASSUME IInv
    PROVE  TypeOK
<1>1. log \subseteq Event /\ open \subseteq Event
  BY DEF IInv, Events
<1>2. {connected, listening, note, polling, requested, timer, refreshing} \subseteq BOOLEAN
  BY DEF IInv, Types
<1>3. queries \in Seq(Query) /\ Len(queries) <= 3
  <2>1. None \in Seq(Query) /\ Len(None) <= 3
    BY DEF None
  <2>2. Listen \in Seq(Query) /\ Len(Listen) <= 3
    BY DEF Listen, Query
  <2>3. Newest \in Seq(Query) /\ Len(Newest) <= 3
    BY DEF Newest, Query
  <2>4. Drain \in Seq(Query) /\ Len(Drain) <= 3
    BY DEF Drain, Query
  <2>5. Both \in Seq(Query) /\ Len(Both) <= 3
    BY DEF Both, Query
  <2> QED  BY <2>1, <2>2, <2>3, <2>4, <2>5 DEF IInv, Types
<1>4. {cursor, from, boot} \subseteq 0..(History + MaxWrites)
  <2>1. LatestId \in Nat /\ LatestId <= History + MaxWrites
    <3>1. CASE LatestId = 0
      BY <3>1, Bounds
    <3>2. CASE LatestId # 0
      <4>1. LatestId \in 1..LatestId
        BY <3>2 DEF IInv, Events
      <4>2. PICK e \in log : e.id = LatestId
        BY <4>1, LogIds DEF IInv
      <4> QED  BY <1>1, <4>2, Bounds DEF Event, Id
    <3> QED  BY <3>1, <3>2
  <2> QED  BY <2>1, Bounds DEF IInv, Position
<1>5. batch \subseteq Event /\ Cardinality(batch) <= BatchSize
  <2>1. CASE drain # "answered"
    BY <2>1, FS_EmptySet, Bounds DEF IInv, Batch
  <2>2. CASE drain = "answered"
    BY <1>1, <2>2, Bounds DEF IInv, Batch
  <2> QED  BY <2>1, <2>2
<1>6. {pending, work, lost} \subseteq SUBSET Table
  BY DEF IInv, Types
<1> QED  BY <1>1, <1>2, <1>3, <1>4, <1>5, <1>6 DEF IInv, Types, TypeOK

\* Every variable keeps its type; the connection never has more than two queries
\* to answer, and a batch never more than BatchSize rows.
THEOREM TypeCorrect ==
    ASSUME Orderly
    PROVE  Spec => []TypeOK
<1>1. IInv => TypeOK
  BY IInvImpliesTypeOK
<1> QED  BY <1>1, Invariant, PTL

\* The drain loop hands each event after the boot to the node once and in order,
\* and none from before it, through lost connections and restarts.
THEOREM EventsOnce ==
    ASSUME Orderly
    PROVE  Spec => []ExactlyOnce
<1>1. IInv => ExactlyOnce
  BY DEF IInv
<1> QED  BY <1>1, Invariant, PTL

\* A listener that has nothing to wait for has read the whole log: requestDrain
\* loses no request, and the poll timer is a safety net only.
THEOREM IdleDrained ==
    ASSUME Orderly
    PROVE  Spec => []IdleMeansDrained
<1>1. IInv => IdleMeansDrained
  <2> SUFFICES ASSUME IInv, listening, queries = <<>>, ~note, drain = "idle"
               PROVE  cursor = LatestId
    BY DEF IdleMeansDrained
  <2>1. queries # Newest
    BY Queues DEF None
  <2>2. ~(cursor < LatestId)
    BY <2>1 DEF IInv, Awake
  <2> QED  BY <2>2 DEF IInv, Position, Events
<1> QED  BY <1>1, Invariant, PTL

\* A node that has seen the last event and refreshes nothing has the contents of
\* every table whose last refresh did not fail.
THEOREM QuietCurrent ==
    ASSUME Orderly
    PROVE  Spec => []QuietMeansCurrent
<1>1. IInv => QuietMeansCurrent
  <2> SUFFICES ASSUME IInv, cursor = LatestId, pending = {}, ~refreshing,
                      NEW t \in Table \ lost
               PROVE  cache[t] = Version(t)
    BY DEF QuietMeansCurrent
  <2>1. work = {}
    BY DEF IInv, Current
  <2>2. ~Unread(log, cursor, t)
    <3>1. \A e \in log : e.id \in 1..LatestId
      BY LogIds DEF IInv
    <3> QED  BY <3>1 DEF Unread, IInv, Events
  <2>3. cache[t] = Count(log, t)
    BY <2>1, <2>2 DEF IInv, Current
  <2> QED  BY <2>3 DEF Version, Count
<1> QED  BY <1>1, Invariant, PTL
=============================================================================
