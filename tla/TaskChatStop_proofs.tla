----------------------- MODULE TaskChatStop_proofs -----------------------
(***************************************************************************)
(* Proofs about TaskChatStop, for every concurrency of the worker and      *)
(* every number of turns, prompts, stops and faults.                       *)
(*                                                                         *)
(* Types is inductive: what it adds to TypeOK is that a prompt has a new   *)
(* number, of which a turn takes at most MaxPrompts.  The invariants of    *)
(* the properties are stated each before its proof.                        *)
(***************************************************************************)
EXTENDS TaskChatStop, FiniteSetTheorems, SequenceTheorems, TLAPS

Early == {"setup", "read", "saved", "bound"}

\* The prompts of a turn have numbers of their own.
Turns ==
    /\ phase \in Phase /\ turn \in 0..MaxTurns /\ base \in Nat
    /\ slot \in BOOLEAN /\ reason \in BOOLEAN /\ aborted \in BOOLEAN
    /\ asked \in BOOLEAN /\ thrown \in BOOLEAN /\ late \in BOOLEAN
    /\ prompts \in 0..MaxPrompts
    /\ phase \in Early => prompts = 0
    /\ phase = "ready" => prompts < MaxPrompts
    /\ turn = 0 => phase = "none"
    /\ request \in Nat
    /\ phase \in {"registering", "waiting"} => request > 0

Numbers ==   \* of prompts
    /\ turn = 0 => request = 0
    /\ turn > 0 => request <= turn * MaxPrompts - MaxPrompts + prompts

Stati == {"idle", "busy", "stopped", "lost", "ended"}
Rows ==
    /\ row \in [seq : Nat, st : Stati, by : 0..turn]
    /\ records \subseteq [id : Prompt, seq : Nat, turn : 1..turn]
    /\ relay \in {"none", "hit", "miss"}

Message == [type : {"request", "cancel"}, id : Prompt]
Net ==
    /\ epoch \in Nat /\ sock \in 0..epoch /\ link \in 0..epoch /\ conn \in 0..epoch
    /\ captured \in 0..epoch /\ closing \subseteq 1..epoch
    /\ down \in Seq(Message) /\ outbox \in Seq(Prompt)

Work ==
    /\ queue \in Seq(Prompt)
    /\ agents \subseteq Prompt \cup {0} /\ running \subseteq Prompt \cup {0}
    /\ known \subseteq agents /\ told \subseteq agents

Counts == stops \in 0..MaxStops /\ faults \in 0..MaxFaults
Strays == stray \subseteq Prompt

Types == Turns /\ Numbers /\ Rows /\ Net /\ Work /\ Counts /\ Strays

USE DEF Phase, Early
-----------------------------------------------------------------------------
(***************************************************************************)
(* Numbers and sets.                                                       *)
(***************************************************************************)
LEMMA Bounds ==
    /\ MaxTurns \in Nat /\ MaxStops \in Nat /\ MaxFaults \in Nat
    /\ Capacity \in Nat /\ Capacity > 0 /\ MaxPrompts \in Nat /\ MaxPrompts > 0
    /\ MaxTurns * MaxPrompts \in Nat
  BY StopAssumption

LEMMA Products ==
    ASSUME NEW t \in Nat, NEW m \in Nat, t <= m
    PROVE  /\ t * MaxPrompts \in Nat
           /\ (t + 1) * MaxPrompts = t * MaxPrompts + MaxPrompts
           /\ t * MaxPrompts <= m * MaxPrompts
<1>1. MaxPrompts \in Nat
  BY Bounds
<1> QED
  BY <1>1

LEMMA FiniteIds ==
    ASSUME NEW S \in SUBSET (Prompt \cup {0})
    PROVE  IsFiniteSet(S) /\ Cardinality(S) \in Nat
<1>1. IsFiniteSet(0..(MaxTurns * MaxPrompts))
  BY Bounds, FS_Interval
<1>2. S \subseteq 0..(MaxTurns * MaxPrompts)
  BY Bounds DEF Prompt
<1> QED
  BY <1>1, <1>2, FS_Subset, FS_CardinalityType
-----------------------------------------------------------------------------
(***************************************************************************)
(* What the operators of the model do.                                     *)
(***************************************************************************)
\* Draining starts the first prompts of the queue, as many as places are free.
LEMMA StartedBounds ==
    ASSUME NEW q \in Seq(Prompt), NEW run \in SUBSET (Prompt \cup {0})
    PROVE  /\ Started(q, run) \in 0..Len(q)
           /\ Started(q, run) = 0 \/ Started(q, run) <= Capacity - Cardinality(run)
<1> DEFINE free == Capacity - Cardinality(run)
<1>1. free \in Int
  BY FiniteIds, Bounds
<1>2. Len(q) \in Nat
  BY LenProperties
<1>3. Started(q, run) = IF free < 0 THEN 0 ELSE IF free < Len(q) THEN free ELSE Len(q)
  BY DEF Started
<1>4. Started(q, run) \in 0..Len(q) /\ (Started(q, run) = 0 \/ Started(q, run) <= free)
  <2> HIDE DEF free
  <2> QED
    BY <1>1, <1>2, <1>3
<1> QED
  BY <1>4

LEMMA Heads ==
    ASSUME NEW q \in Seq(Prompt), NEW n \in 0..Len(q)
    PROVE  /\ SubSeq(q, n + 1, Len(q)) \in Seq(Prompt)
           /\ Len(SubSeq(q, n + 1, Len(q))) = Len(q) - n
           /\ \A i \in 1..(Len(q) - n) : SubSeq(q, n + 1, Len(q))[i] = q[n + i]
           /\ {q[i] : i \in 1..n} \subseteq Prompt
<1>1. Len(q) \in Nat /\ \A i \in 1..Len(q) : q[i] \in Prompt
  BY LenProperties, ElementOfSeq
<1>2. \A i \in (n + 1)..Len(q) : q[i] \in Prompt
  BY <1>1
<1>3. SubSeq(q, n + 1, Len(q)) \in Seq(Prompt)
  BY <1>1, <1>2, SubSeqProperties
<1>4. Len(SubSeq(q, n + 1, Len(q))) = Len(q) - n
  BY <1>1, SubSeqProperties
<1>5. \A i \in 1..(Len(q) - n) : SubSeq(q, n + 1, Len(q))[i] = q[n + i]
  BY <1>1, SubSeqProperties
<1>6. {q[i] : i \in 1..n} \subseteq Prompt
  BY <1>1
<1> QED
  BY <1>3, <1>4, <1>5, <1>6

LEMMA Drained ==
    ASSUME NEW q \in Seq(Prompt), NEW run \in SUBSET (Prompt \cup {0})
    PROVE  /\ SubSeq(q, Started(q, run) + 1, Len(q)) \in Seq(Prompt)
           /\ {q[i] : i \in 1..Started(q, run)} \subseteq Prompt
  BY StartedBounds, Heads

\* f is the place that is taken out, or behind the end.
LEMMA Dequeued ==
    ASSUME queue \in Seq(Prompt), NEW id
    PROVE  \E f \in 1..(Len(queue) + 1) :
             /\ NotQueued(id) \in Seq(Prompt)
             /\ Len(NotQueued(id)) = IF f <= Len(queue) THEN Len(queue) - 1 ELSE Len(queue)
             /\ f <= Len(queue) => queue[f] = id
             /\ f > Len(queue) => \A i \in 1..Len(queue) : queue[i] # id
             /\ \A i \in 1..Len(NotQueued(id)) :
                  NotQueued(id)[i] = queue[IF i < f THEN i ELSE i + 1]
<1> DEFINE at == {i \in 1..Len(queue) : queue[i] = id}
           n == CHOOSE i \in at : TRUE
           s == [i \in 1..(Len(queue) - 1) |-> queue[IF i < n THEN i ELSE i + 1]]
<1>0. Len(queue) \in Nat /\ \A i \in 1..Len(queue) : queue[i] \in Prompt
  BY LenProperties, ElementOfSeq
<1>1. CASE at = {}
  <2>1. NotQueued(id) = queue
    BY <1>1 DEF NotQueued
  <2>2. \A i \in 1..Len(queue) : queue[i] # id
    BY <1>1
  <2> QED
    BY <2>1, <2>2, <1>0
<1>2. CASE at # {}
  <2>1. NotQueued(id) = s
    BY <1>2 DEF NotQueued
  <2>2. n \in 1..Len(queue) /\ queue[n] = id
    BY <1>2
  <2> HIDE DEF n
  <2>3. \A i \in 1..(Len(queue) - 1) : (IF i < n THEN i ELSE i + 1) \in 1..Len(queue)
    BY <1>0, <2>2
  <2>4. s \in [1..(Len(queue) - 1) -> Prompt] /\ Len(queue) - 1 \in Nat
    BY <1>0, <2>3, <2>2
  <2>5. s \in Seq(Prompt) /\ Len(s) = Len(queue) - 1
    BY <2>4, IsASeq, LenProperties
  <2> QED
    BY <2>1, <2>2, <2>5, <1>0
<1> QED
  BY <1>1, <1>2

LEMMA LastPrompt ==
    ASSUME Turns, Numbers, request > 0
    PROVE  request \in Prompt
<1>1. turn \in Nat /\ turn <= MaxTurns /\ turn > 0 /\ prompts \in Nat /\ request \in Nat
      /\ prompts <= MaxPrompts
  BY StopAssumption DEF Turns, Numbers
<1>2. turn * MaxPrompts \in Nat /\ turn * MaxPrompts <= MaxTurns * MaxPrompts
  BY <1>1, Bounds, Products
<1>3. request <= turn * MaxPrompts - MaxPrompts + prompts
  BY <1>1 DEF Numbers
<1> HIDE DEF Turns, Numbers
<1> QED
  BY <1>1, <1>2, <1>3, Bounds DEF Prompt

LEMMA NextPrompt ==
    ASSUME Turns, Numbers, phase = "ready"
    PROVE  request + 1 \in Prompt /\ request + 1 <= turn * MaxPrompts - MaxPrompts + prompts + 1
<1>1. turn \in Nat /\ turn <= MaxTurns /\ turn > 0 /\ prompts \in Nat /\ request \in Nat
  BY Bounds DEF Turns, Numbers
<1>2. prompts + 1 <= MaxPrompts /\ request <= turn * MaxPrompts - MaxPrompts + prompts
  BY <1>1, Bounds DEF Turns, Numbers
<1>3. turn * MaxPrompts \in Nat /\ turn * MaxPrompts <= MaxTurns * MaxPrompts
  BY <1>1, Bounds, Products
<1> HIDE DEF Turns, Numbers
<1> QED
  BY <1>1, <1>2, <1>3, Bounds DEF Prompt

LEMMA Appended ==
    ASSUME down \in Seq(Message), NEW m \in Message, NEW s, SendOn(s, m)
    PROVE  down' \in Seq(Message)
  BY AppendProperties DEF SendOn

\* What a response does: it answers the prompt that waits, is of no use, or is
\* recovered into the row.
LEMMA Responded ==
    ASSUME NEW id, Respond(id)
    PROVE  /\ records' = {r \in records : r.id # id}
           /\ \/ Pending(id) /\ phase' = "answered" /\ row' = row
              \/ ~Pending(id) /\ phase' = phase /\ row' = row
              \/ /\ ~Pending(id) /\ phase' = phase
                 /\ \E r \in records : r.id = id /\ Applies(r)
                 /\ \E r \in records : r.id = id /\
                      row' = After("ended", r.turn)
<1>1. records' = {r \in records : r.id # id}
  BY DEF Respond, Without
<1>2. CASE Pending(id)
  BY <1>1, <1>2 DEF Respond, Goto
<1>3. CASE ~Pending(id) /\ \E r \in records : r.id = id /\ Applies(r)
  BY <1>1, <1>3 DEF Respond
<1>4. CASE ~Pending(id) /\ ~\E r \in records : r.id = id /\ Applies(r)
  BY <1>1, <1>4 DEF Respond
<1> QED
  BY <1>2, <1>3, <1>4

LEMMA Rejected ==
    ASSUME RejectPending
    PROVE  /\ records' \subseteq records
           /\ \/ phase = "waiting" /\ phase' = "rejected" /\ records' = {r \in records : r.id # request}
              \/ phase # "waiting" /\ phase' = phase /\ records' = records
  BY DEF RejectPending, Goto, Without

\* The server notices that a connection is closed: it rejects the prompt, or not.
LEMMA Noticed ==
    ASSUME ServerNotices
    PROVE  /\ UNCHANGED <<row, relay, down, session, sent, worker, epoch, link, conn, outbox>>
           /\ sock' \in {sock, 0} /\ closing' \subseteq closing \cup ({sock} \ {0})
           /\ records' \subseteq records
           /\ phase' = phase \/ (phase = "waiting" /\ phase' = "rejected")
<1>1. CASE SocketCloses \/ HeartbeatTimeout
  BY <1>1, Rejected DEF SocketCloses, HeartbeatTimeout, network
<1>2. CASE \E s \in closing : LateClose(s)
  BY <1>2, Rejected DEF LateClose
<1> QED
  BY <1>1, <1>2 DEF ServerNotices

LEMMA Stopped ==
    ASSUME stopTaskChatExecution, reason \in BOOLEAN, aborted \in BOOLEAN, asked \in BOOLEAN
    PROVE  /\ reason' \in BOOLEAN /\ aborted' \in BOOLEAN /\ asked' \in BOOLEAN
           /\ records' \subseteq records
           /\ \/ /\ phase = "waiting" /\ phase' = "rejected"
                 /\ SendOn(captured, [type |-> "cancel", id |-> request])
              \/ phase' = phase /\ down' = down /\ records' = records
<1>1. reason' \in BOOLEAN /\ aborted' \in BOOLEAN /\ asked' \in BOOLEAN
  BY Zenon DEF stopTaskChatExecution
<1>2. CASE phase = "waiting" /\ ~aborted
  BY <1>1, <1>2 DEF stopTaskChatExecution, AbortPrompt, Goto, Without
<1>3. CASE ~(phase = "waiting" /\ ~aborted)
  BY <1>1, <1>3 DEF stopTaskChatExecution
<1> QED
  BY <1>2, <1>3
-----------------------------------------------------------------------------
(***************************************************************************)
(* Who writes what.                                                        *)
(***************************************************************************)
LEMMA Frames ==
    ASSUME [Next]_vars
    PROVE  /\ \/ BeginTurn \/ Capture
              \/ UNCHANGED <<turn, prompts, request>>
           /\ \/ ReceiveRequest \/ ReceiveCancel \/ WorkerNotices \/ WorkerRestarts
              \/ \E id \in agents : Finish(id)
              \/ UNCHANGED <<queue, running, agents, known, told>>
           /\ \/ Capture \/ Send \/ LocalStop \/ RelayStop \/ ReceiveRequest \/ ReceiveCancel
              \/ Flush \/ Break \/ WorkerNotices \/ ServerNotices \/ Connect
              \/ WorkerRestarts \/ ServerRestarts \/ \E id \in agents : Finish(id)
              \/ UNCHANGED <<epoch, sock, link, conn, captured, closing, down, outbox>>
           /\ \/ SavePending \/ Prepare \/ Capture \/ Retry \/ SaveAnswer \/ Save \/ LocalStop
              \/ RelayStop \/ RelayReturns \/ ReceiveRequest \/ Flush \/ ServerNotices \/ Connect
              \/ ServerRestarts \/ BeginTurn \/ \E id \in agents : Finish(id)
              \/ UNCHANGED <<row, records, relay, turn>>
<1> USE DEF Next, ServerStep, Stop, Worker, Connection, vars, session, sent, worker, network,
       BeginTurn, Expire,
       ReadSession, SavePending, Bind, GiveUp, Prepare, Capture, Send, Retry, SaveAnswer, Conclude,
       ConcludeIf, Save, Release, Throw, LocalStop, RelayStop, RelayReturns, ReceiveRequest,
       ReceiveCancel, Flush, Finish, Break, WorkerNotices, ServerNotices,
       SocketCloses, HeartbeatTimeout, LateClose, Connect, WorkerRestarts, ServerRestarts
<1>1. \/ BeginTurn \/ Capture
      \/ UNCHANGED <<turn, prompts, request>>
  OBVIOUS
<1>2. \/ ReceiveRequest \/ ReceiveCancel \/ WorkerNotices \/ WorkerRestarts
      \/ \E id \in agents : Finish(id)
      \/ UNCHANGED <<queue, running, agents, known, told>>
  OBVIOUS
<1>3. \/ Capture \/ Send \/ LocalStop \/ RelayStop \/ ReceiveRequest \/ ReceiveCancel
      \/ Flush \/ Break \/ WorkerNotices \/ ServerNotices \/ Connect
      \/ WorkerRestarts \/ ServerRestarts \/ \E id \in agents : Finish(id)
      \/ UNCHANGED <<epoch, sock, link, conn, captured, closing, down, outbox>>
  OBVIOUS
<1>4. \/ SavePending \/ Prepare \/ Capture \/ Retry \/ SaveAnswer \/ Save \/ LocalStop
      \/ RelayStop \/ RelayReturns \/ ReceiveRequest \/ Flush \/ ServerNotices \/ Connect
      \/ ServerRestarts \/ BeginTurn \/ \E id \in agents : Finish(id)
      \/ UNCHANGED <<row, records, relay, turn>>
  OBVIOUS
<1> QED
  BY <1>1, <1>2, <1>3, <1>4
-----------------------------------------------------------------------------
(***************************************************************************)
(* The types.                                                              *)
(***************************************************************************)
LEMMA NumbersStep ==
    ASSUME Turns, Numbers, [Next]_vars
    PROVE  Numbers'
<1>1. CASE BeginTurn
  <2>1. turn' = turn + 1 /\ prompts' = 0 /\ request' = request /\ turn \in Nat /\ prompts \in 0..MaxPrompts
    BY <1>1 DEF BeginTurn, Turns
  <2>0. request \in Nat
    BY DEF Turns
  <2>2. turn \in 0..MaxTurns /\ turn * MaxPrompts \in Nat
        /\ (turn + 1) * MaxPrompts = turn * MaxPrompts + MaxPrompts
    BY Products, Bounds DEF Turns
  <2>3. request' <= turn' * MaxPrompts - MaxPrompts + prompts'
    BY <2>0, <2>1, <2>2, Bounds DEF Numbers
  <2> QED
    BY <2>1, <2>3 DEF Numbers
<1>2. CASE Capture
  <2>1. CASE UNCHANGED <<turn, prompts, request>>
    BY <2>1 DEF Numbers
  <2>2. CASE turn' = turn /\ prompts' = prompts + 1 /\ request' = request + 1
    <3>1. turn \in Nat /\ turn > 0
      BY <1>2 DEF Capture, Turns
    <3>2. request + 1 <= turn * MaxPrompts - MaxPrompts + prompts + 1
      BY <1>2, NextPrompt DEF Capture
    <3> DEFINE m == turn * MaxPrompts - MaxPrompts
    <3>3. m \in Int /\ prompts \in Nat
      BY <3>1, Bounds, Products DEF Turns
    <3>4. request + 1 <= m + prompts + 1
      BY <3>2
    <3>5. request + 1 <= m + (prompts + 1)
      <4> HIDE DEF m
      <4> QED
        BY <3>3, <3>4 DEF Numbers
    <3> QED
      BY <2>2, <3>1, <3>5 DEF Numbers
  <2> QED
    BY <1>2, <2>1, <2>2 DEF Capture, sent, session
<1>3. CASE UNCHANGED <<turn, prompts, request>>
  BY <1>3 DEF Numbers
<1> QED
  BY <1>1, <1>2, <1>3, Frames

LEMMA TurnsStep ==
    ASSUME Turns, row.seq \in Nat, [Next]_vars
    PROVE  Turns'
<1> USE DEF Turns
<1>1. CASE BeginTurn
  <2>1. turn' \in 0..MaxTurns /\ turn' # 0 /\ prompts' = 0 /\ 0 \in 0..MaxPrompts
    BY <1>1, StopAssumption DEF BeginTurn
  <2> QED
    BY <1>1, <2>1 DEF BeginTurn, Goto
<1>2. CASE Expire
  BY <1>2 DEF Expire, session, sent
<1>3. CASE ReadSession
  BY <1>3 DEF ReadSession, Goto, session, sent
<1>4. CASE SavePending
  BY <1>4 DEF SavePending, Goto, Busy, session, sent
<1>5. CASE Bind
  BY <1>5 DEF Bind, Goto, session, sent
<1>6. CASE GiveUp
  BY <1>6 DEF GiveUp, Goto, session, sent
<1>7. CASE Prepare
  BY <1>7, Bounds DEF Prepare, Goto, Busy, session, sent
<1>8. CASE Capture
  BY <1>8, NextPrompt, Bounds DEF Capture, Goto, session, sent
<1>9. CASE Send
  BY <1>9 DEF Send, Goto, session, sent
<1>10. CASE Retry
  BY <1>10 DEF Retry, Goto, Busy, session, sent
<1>11. CASE SaveAnswer
  BY <1>11 DEF SaveAnswer, Goto, Busy, session, sent
<1>12. CASE Conclude
  <2>1. base' \in Nat
    BY <1>12 DEF Conclude, ConcludeIf
  <2>2. phase' \in {"saving", "closing"} /\ turn > 0 /\ turn' = turn
    BY <1>12 DEF Conclude, ConcludeIf, Goto
  <2> QED
    BY <1>12, <2>1, <2>2 DEF Conclude, ConcludeIf, sent
<1>13. CASE Save
  BY <1>13 DEF Save, Goto, session, sent
<1>14. CASE Release
  BY <1>14 DEF Release, Goto, FreeSlot, session, sent
<1>15. CASE Throw
  BY <1>15 DEF Throw, Goto, session, sent
<1>16. CASE LocalStop
  BY <1>16, Stopped DEF LocalStop, Mark, session, sent
<1>17. CASE RelayStop
  BY <1>17, Stopped DEF RelayStop, session, sent
<1>18. CASE RelayReturns
  BY <1>18 DEF RelayReturns, Mark, session, sent
<1>19. CASE ReceiveRequest
  <2>1. phase' = phase \/ (phase = "waiting" /\ phase' = "answered")
    BY <1>19, Responded DEF ReceiveRequest, Pending
  <2> QED
    BY <1>19, <2>1 DEF ReceiveRequest, session, sent
<1>20. CASE ReceiveCancel
  BY <1>20 DEF ReceiveCancel, session, sent
<1>21. CASE Flush
  <2>1. phase' = phase \/ (phase = "waiting" /\ phase' = "answered")
    BY <1>21, Responded DEF Flush, Pending
  <2> QED
    BY <1>21, <2>1 DEF Flush, session, sent
<1>22. CASE Break
  BY <1>22 DEF Break, Strike, Cut, session, sent
<1>23. CASE WorkerNotices
  BY <1>23 DEF WorkerNotices, abortActivePrompts, session, sent
<1>24. CASE ServerNotices
  BY <1>24, Noticed DEF session, sent
<1>25. CASE Connect
  BY <1>25, Rejected DEF Connect, session, sent
<1>26. CASE WorkerRestarts
  BY <1>26 DEF WorkerRestarts, Strike, Cut, session, sent
<1>27. CASE ServerRestarts
  BY <1>27 DEF ServerRestarts, Strike, Cut, Recovered, Goto, session, sent
<1>28. CASE \E id \in agents : Finish(id)
  <2>1. phase' = phase \/ (phase = "waiting" /\ phase' = "answered")
    BY <1>28, Responded DEF Finish, Pending
  <2> QED
    BY <1>28, <2>1 DEF Finish, session, sent
<1>29. CASE UNCHANGED vars
  BY <1>29 DEF vars, session, sent
<1> QED
  BY <1>1, <1>2, <1>3, <1>4, <1>5, <1>6, <1>7, <1>8, <1>9, <1>10, <1>11, <1>12, <1>13,
     <1>14, <1>15, <1>16, <1>17, <1>18, <1>19, <1>20, <1>21, <1>22, <1>23, <1>24, <1>25,
     <1>26, <1>27, <1>28, <1>29 DEF Next, ServerStep, Stop, Worker, Connection

\* Rows and records of a response are those of before, but for a recovered one.
LEMMA RespondedRows ==
    ASSUME Rows, NEW id, Respond(id), turn' = turn, relay' = relay
    PROVE  Rows'
<1>1. records' \subseteq records
  BY Responded
<1>2. row' = row \/ \E r \in records : row' = After("ended", r.turn)
  BY Responded
<1>3. \A r \in records : r.turn \in 0..turn /\ row.seq + 1 \in Nat
  BY DEF Rows
<1> QED
  BY <1>1, <1>2, <1>3 DEF Rows, Stati, After

LEMMA RowsStep ==
    ASSUME Turns, Numbers, Rows, [Next]_vars
    PROVE  Rows'
<1>0. turn \in Nat /\ turn \in 0..turn /\ base \in Nat
  BY DEF Turns
<1>1. row.seq \in Nat /\ row.st \in Stati /\ row.by \in 0..turn
      /\ row = [seq |-> row.seq, st |-> row.st, by |-> row.by]
  BY DEF Rows
<1>2. CASE BeginTurn
  <2>1. 0..turn \subseteq 0..(turn + 1) /\ 1..turn \subseteq 1..(turn + 1)
    BY <1>0
  <2>2. row' = row /\ records' = records /\ relay' = relay /\ turn' = turn + 1
    BY <1>2 DEF BeginTurn
  <2>3. row' \in [seq : Nat, st : Stati, by : 0..turn']
    BY <2>1, <2>2, <1>1
  <2>4. records' \subseteq [id : Prompt, seq : Nat, turn : 1..turn']
    BY <2>1, <2>2 DEF Rows
  <2> QED
    BY <2>2, <2>3, <2>4 DEF Rows
<1>3. Busy(base) \in [seq : Nat, st : Stati, by : 0..turn]
  BY <1>0 DEF Busy, Stati
<1>4. CASE SavePending \/ Prepare \/ Retry \/ SaveAnswer
  BY <1>3, <1>4 DEF SavePending, Prepare, Retry, SaveAnswer, Rows, session
<1>5. CASE Capture
  <2>1. UNCHANGED <<row, turn, relay>> /\ records' \subseteq records \cup {[id |-> request + 1, seq |-> base, turn |-> turn]}
    BY <1>5 DEF Capture, session
  <2>2. request + 1 \in Prompt /\ turn > 0
    BY <1>5, NextPrompt DEF Capture, Turns
  <2>3. [id |-> request + 1, seq |-> base, turn |-> turn] \in [id : Prompt, seq : Nat, turn : 1..turn]
    BY <2>2, <1>0
  <2> QED
    BY <2>1, <2>3 DEF Rows
<1>6. CASE Save
  <2>1. row' = row \/ row' = [seq |-> base, st |-> "ended", by |-> turn]
    BY <1>6 DEF Save
  <2> QED
    BY <1>6, <1>0, <2>1 DEF Save, Rows, Stati, session
<1>7. \A st \in {"stopped", "lost"} :
        After(st, row.by) \in [seq : Nat, st : Stati, by : 0..turn]
  BY <1>1 DEF Stati, After
<1>8. CASE LocalStop \/ RelayStop
  <2>1. records' \subseteq records
    BY <1>8, Stopped DEF LocalStop, RelayStop, Turns
  <2>2. row' = row \/ row' = After("stopped", row.by)
    BY <1>8 DEF LocalStop, RelayStop, Mark
  <2>3. relay' \in {"none", "hit", "miss"} /\ turn' = turn
    BY <1>8 DEF LocalStop, RelayStop, Rows
  <2> QED
    BY <1>7, <2>1, <2>2, <2>3 DEF Rows
<1>9. CASE RelayReturns
  BY <1>7, <1>9 DEF RelayReturns, Mark, Rows, session
<1>10. CASE ReceiveRequest
  <2>1. turn' = turn /\ relay' = relay
    BY <1>10 DEF ReceiveRequest, session
  <2>2. \/ \E id : Respond(id)
        \/ UNCHANGED <<row, records>>
    BY <1>10 DEF ReceiveRequest
  <2> QED
    BY <2>1, <2>2, RespondedRows DEF Rows
<1>11. CASE Flush \/ \E id \in agents : Finish(id)
  <2>1. turn' = turn /\ relay' = relay
    BY <1>11 DEF Flush, Finish, session
  <2>2. \/ \E id : Respond(id)
        \/ UNCHANGED <<row, records>>
    BY <1>11 DEF Flush, Finish
  <2> QED
    BY <2>1, <2>2, RespondedRows DEF Rows
<1>12. CASE ServerNotices \/ Connect
  <2>1. UNCHANGED <<row, relay, turn>> /\ records' \subseteq records
    BY <1>12, Noticed, Rejected DEF Connect, session
  <2> QED
    BY <2>1 DEF Rows
<1>13. CASE ServerRestarts
  BY <1>7, <1>13 DEF ServerRestarts, Recovered, Rows
<1>14. CASE UNCHANGED <<row, records, relay, turn>>
  BY <1>14 DEF Rows
<1> QED
  BY <1>2, <1>4, <1>5, <1>6, <1>8, <1>9, <1>10, <1>11, <1>12, <1>13, <1>14, Frames

LEMMA NetStep ==
    ASSUME Turns, Numbers, Net, Work, [Next]_vars
    PROVE  Net'
<1> USE DEF Net
<1>1. CASE Capture
  BY <1>1 DEF Capture, network, sent
<1>2. CASE Send
  <2>1. request \in Prompt
    BY <1>2, LastPrompt DEF Send, Turns
  <2>2. [type |-> "request", id |-> request] \in Message
    BY <2>1 DEF Message
  <2> QED
    BY <1>2, <2>2, Appended DEF Send, network
<1>3. CASE LocalStop \/ RelayStop
  <2>1. UNCHANGED <<epoch, sock, link, conn, captured, closing, outbox>>
    BY <1>3 DEF LocalStop, RelayStop, sent, network
  <2>2. stopTaskChatExecution
    BY <1>3 DEF LocalStop, RelayStop
  <2>3. CASE phase = "waiting" /\ SendOn(captured, [type |-> "cancel", id |-> request])
    <3>1. request \in Prompt
      BY <2>3, LastPrompt DEF Turns
    <3>2. [type |-> "cancel", id |-> request] \in Message
      BY <3>1 DEF Message
    <3> QED
      BY <2>1, <2>3, <3>2, Appended
  <2> QED
    BY <2>1, <2>2, <2>3, Stopped DEF Turns
<1>4. CASE ReceiveRequest \/ ReceiveCancel
  <2>1. down' = Tail(down) /\ down # <<>>
    BY <1>4 DEF ReceiveRequest, ReceiveCancel, Receive
  <2>2. down' \in Seq(Message)
    BY <2>1, HeadTailProperties
  <2> QED
    BY <1>4, <2>2 DEF ReceiveRequest, ReceiveCancel, network, sent
<1>5. CASE Flush
  <2>1. outbox' \in Seq(Prompt)
    BY <1>5, HeadTailProperties DEF Flush
  <2> QED
    BY <1>5, <2>1 DEF Flush, sent
<1>6. ASSUME NEW id \in agents, Finish(id)
      PROVE  Net'
  <2>1. outbox' \in Seq(Prompt)
    BY <1>6, AppendProperties DEF Finish, Work
  <2> QED
    BY <1>6, <2>1 DEF Finish, sent
<1>7. CASE WorkerNotices
  BY <1>7 DEF WorkerNotices, sent, network
<1>11. CASE ServerNotices
  <2>1. /\ UNCHANGED <<epoch, link, conn, captured, down, outbox>>
        /\ sock' \in {sock, 0} /\ closing' \subseteq closing \cup ({sock} \ {0})
    BY <1>11, Noticed DEF sent
  <2>2. {sock} \ {0} \subseteq 1..epoch
    OBVIOUS
  <2> QED
    BY <2>1, <2>2
<1>8. CASE Connect
  <2>1. epoch' = epoch + 1 /\ link' = epoch' /\ conn' = epoch' /\ sock' = epoch'
        /\ UNCHANGED <<captured, closing, down, outbox>>
    BY <1>8 DEF Connect, sent
  <2>2. 0..epoch \subseteq 0..epoch' /\ 1..epoch \subseteq 1..epoch'
    BY <2>1
  <2> QED
    BY <2>1, <2>2
<1>9. CASE Break \/ WorkerRestarts \/ ServerRestarts
  <2>1. link' = 0 /\ down' = <<>> /\ <<>> \in Seq(Message) /\ <<>> \in Seq(Prompt)
    BY <1>9, EmptySeq DEF Break, WorkerRestarts, ServerRestarts, Cut
  <2>2. UNCHANGED <<epoch, captured>> /\ closing' \in {closing, {}} /\ conn' \in {conn, 0} /\ sock' \in {sock, 0}
        /\ outbox' \in {outbox, <<>>}
    BY <1>9 DEF Break, WorkerRestarts, ServerRestarts, sent
  <2>3. conn' \in 0..epoch /\ sock' \in 0..epoch /\ link' \in 0..epoch
    BY <2>1, <2>2
  <2>4. outbox' \in Seq(Prompt) /\ down' \in Seq(Message)
    BY <2>1, <2>2
  <2> QED
    BY <2>2, <2>3, <2>4
<1>10. CASE UNCHANGED <<epoch, sock, link, conn, captured, closing, down, outbox>>
  BY <1>10
<1> QED
  BY <1>1, <1>2, <1>3, <1>4, <1>5, <1>6, <1>7, <1>8, <1>9, <1>10, <1>11, Frames

LEMMA WorkStep ==
    ASSUME Net, Work, [Next]_vars
    PROVE  Work'
<1> USE DEF Work
<1>1. CASE ReceiveRequest
  <2>0. Head(down) \in Message
    BY <1>1, HeadTailProperties DEF ReceiveRequest, Receive, Net
  <2>1. CASE UNCHANGED worker
    BY <2>1 DEF worker
  <2>2. CASE Drain(Append(queue, Head(down).id), running, agents, known) /\ told' = told
    <3>1. Append(queue, Head(down).id) \in Seq(Prompt)
      BY <2>0, AppendProperties DEF Message
    <3> QED
      BY <2>2, <3>1, Drained DEF Drain
  <2> QED
    BY <1>1, <2>1, <2>2 DEF ReceiveRequest
<1>2. CASE ReceiveCancel
  <2> DEFINE id == Head(down).id
  <2>0. Cancelled(id) /\ NotQueued(id) \in Seq(Prompt)
    BY <1>2, Dequeued DEF ReceiveCancel
  <2>1. CASE id \in known
    BY <2>0, <2>1 DEF Cancelled
  <2>2. CASE id \notin known
    <3>1. Drain(NotQueued(id), running \ {id}, agents, known) /\ told' = told
      BY <2>0, <2>2 DEF Cancelled
    <3>2. running \ {id} \in SUBSET (Prompt \cup {0})
      OBVIOUS
    <3> QED
      BY <2>0, <3>1, <3>2, Drained DEF Drain
  <2> QED
    BY <2>1, <2>2
<1>3. ASSUME NEW id \in agents, Finish(id)
      PROVE  Work'
  <2>1. Drain(queue, running \ {id}, agents \ {id}, known \ {id}) /\ told' = told \ {id}
    BY <1>3 DEF Finish
  <2>2. /\ running \ {id} \in SUBSET (Prompt \cup {0})
        /\ agents \ {id} \in SUBSET (Prompt \cup {0})
        /\ known \ {id} \in SUBSET (agents \ {id})
    OBVIOUS
  <2>3. queue' \in Seq(Prompt) /\ agents' \subseteq Prompt \cup {0} /\ running' \subseteq Prompt \cup {0}
        /\ known' \subseteq agents' /\ agents \ {id} \subseteq agents'
    BY <2>1, <2>2, Drained DEF Drain
  <2> QED
    BY <2>1, <2>3
<1>4. CASE WorkerNotices
  BY <1>4, EmptySeq DEF WorkerNotices, abortActivePrompts
<1>5. CASE WorkerRestarts
  BY <1>5, EmptySeq DEF WorkerRestarts
<1>6. CASE UNCHANGED <<queue, running, agents, known, told>>
  BY <1>6
<1> QED
  BY <1>1, <1>2, <1>3, <1>4, <1>5, <1>6, Frames

\* Only the late close of an older socket adds to what was rejected too early.
LEMMA StraysFrame ==
    ASSUME [Next]_vars
    PROVE  \/ stray' = stray
           \/ /\ phase = "waiting" /\ captured = sock /\ stray' = stray \cup {request}
              /\ \E s \in closing : LateClose(s)
  BY DEF Next, ServerStep, Stop, Worker, Connection, vars, network, BeginTurn, Expire,
     ReadSession, SavePending, Bind, GiveUp, Prepare, Capture, Send, Retry, SaveAnswer, Conclude,
     ConcludeIf, Save, Release, Throw, LocalStop, RelayStop, RelayReturns, ReceiveRequest,
     ReceiveCancel, Flush, Finish, Break, WorkerNotices, ServerNotices, SocketCloses,
     HeartbeatTimeout, LateClose, Connect, WorkerRestarts, ServerRestarts

LEMMA TypesStep ==
    ASSUME Types, [Next]_vars
    PROVE  Types'
<1>1. row.seq \in Nat
  BY DEF Types, Rows
<1>2. Turns' /\ Numbers' /\ Rows' /\ Net' /\ Work'
  BY <1>1, TurnsStep, NumbersStep, RowsStep, NetStep, WorkStep DEF Types
<1>3. Counts'
  <2> USE DEF Types, Counts
  <2>1. CASE UNCHANGED counts
    BY <2>1 DEF counts
  <2>2. CASE stops' = stops + 1 /\ stops < MaxStops /\ faults' = faults
    BY <2>2, StopAssumption
  <2>3. CASE faults' = faults + 1 /\ faults < MaxFaults /\ stops' = stops
    BY <2>3, StopAssumption
  <2> QED
    BY <2>1, <2>2, <2>3 DEF Next, ServerStep, Stop, Worker, Connection, vars, counts, Strike,
       BeginTurn, Expire,
       ReadSession, SavePending, Bind, GiveUp, Prepare, Capture, Send, Retry, SaveAnswer, Conclude,
       ConcludeIf, Save, Release, Throw, LocalStop, RelayStop, RelayReturns, ReceiveRequest,
       ReceiveCancel, Flush, Finish, Break, WorkerNotices, ServerNotices,
       SocketCloses, HeartbeatTimeout, LateClose, Connect, WorkerRestarts, ServerRestarts
<1>4. Strays'
  <2>1. phase = "waiting" => request \in Prompt
    BY LastPrompt DEF Types, Turns
  <2> QED
    BY <2>1, StraysFrame DEF Types, Strays
<1> QED
  BY <1>2, <1>3, <1>4 DEF Types

LEMMA TypesInit == Init => Types
<1> SUFFICES ASSUME Init PROVE Types
  OBVIOUS
<1>1. Turns
  <2>1. 0 \in 0..MaxTurns /\ 0 \in 0..MaxPrompts
    BY StopAssumption
  <2> QED
    BY <2>1 DEF Init, Turns
<1>2. Numbers
  BY DEF Init, Numbers
<1>3. Rows
  BY DEF Init, Rows, Stati
<1>4. Net
  BY EmptySeq DEF Init, Net
<1>5. Work
  BY EmptySeq DEF Init, Work
<1>6. Counts
  BY StopAssumption DEF Init, Counts
<1> QED
  BY <1>1, <1>2, <1>3, <1>4, <1>5, <1>6 DEF Types, Init, Strays

\* The types hold in every reachable state.
LEMMA TypesHold == Spec => []Types
<1>1. Init => Types
  BY TypesInit
<1>2. Types /\ [Next]_vars => Types'
  BY TypesStep
<1> QED
  BY <1>1, <1>2, PTL DEF Spec

\* The variables of executeTaskChatTurn, of the websocket and of the prompt
\* queue stay in their types: it is the part of Types that needs no counting.
THEOREM TypeCorrect == Spec => []TypeOK
<1>1. Types => TypeOK
  <2> SUFFICES ASSUME Types PROVE TypeOK
    OBVIOUS
  <2>1. request \in Prompt \cup {0}
    BY LastPrompt DEF Types, Turns
  <2>2. /\ phase \in Phase /\ turn \in 0..MaxTurns
        /\ {slot, reason, aborted, asked, thrown, late} \subseteq BOOLEAN
        /\ base \in Nat /\ prompts \in 0..MaxPrompts
    BY DEF Types, Turns
  <2>3. /\ row \in [seq : Nat, st : {"idle", "busy", "stopped", "lost", "ended"}, by : 0..turn]
        /\ records \subseteq [id : Prompt, seq : Nat, turn : 1..turn]
        /\ relay \in {"none", "hit", "miss"}
    BY DEF Types, Rows, Stati
  <2>4. /\ epoch \in Nat /\ {sock, link, conn, captured} \subseteq 0..epoch
        /\ closing \subseteq 1..epoch /\ stray \subseteq Prompt
        /\ down \in Seq([type : {"request", "cancel"}, id : Prompt])
        /\ outbox \in Seq(Prompt)
    BY DEF Types, Net, Message, Strays
  <2>5. /\ queue \in Seq(Prompt) /\ agents \cup running \subseteq Prompt \cup {0}
        /\ known \cup told \subseteq agents
    BY DEF Types, Work
  <2> QED
    BY <2>1, <2>2, <2>3, <2>4, <2>5 DEF TypeOK, Types, Counts
<1> QED
  BY <1>1, TypesHold, PTL
-----------------------------------------------------------------------------
(***************************************************************************)
(* Stops.                                                                  *)
(***************************************************************************)
\* What was stopped was stopped by somebody during this turn, and nothing is
\* kept between turns.
Stops ==
    /\ aborted => asked
    /\ reason => asked
    /\ phase = "none" => ~slot /\ ~reason

LEMMA StopsStep ==
    ASSUME Turns, Stops, [Next]_vars
    PROVE  Stops'
<1> USE DEF Stops
<1>0. /\ reason \in BOOLEAN /\ aborted \in BOOLEAN /\ asked \in BOOLEAN /\ slot \in BOOLEAN
  BY DEF Turns
<1>1. CASE BeginTurn
  BY <1>1 DEF BeginTurn, Goto
<1>2. CASE Expire
  BY <1>2 DEF Expire
<1>8. CASE Bind \/ Conclude \/ Release \/ ServerRestarts
  BY <1>0, <1>8 DEF Bind, Conclude, ConcludeIf, Release, FreeSlot, ServerRestarts, Goto
<1>9. CASE Throw
  <2>1. phase' = "closing" /\ UNCHANGED <<aborted, asked>> /\ (reason' => reason)
    BY <1>9, Zenon DEF Throw, Goto
  <2> QED
    BY <2>1
<1>3. CASE LocalStop \/ RelayStop
  <2>1. stopTaskChatExecution /\ slot' = slot
    BY <1>3 DEF LocalStop, RelayStop
  <2>2. CASE phase = "none"
    <3>1. ~Controlled /\ ~Hit
      BY <2>2 DEF Controlled, Hit
    <3> QED
      BY <2>1, <2>2, <3>1 DEF stopTaskChatExecution
  <2>3. CASE phase # "none"
    <3>1. phase' # "none"
      BY <1>0, <2>1, <2>3, Stopped
    <3>2. aborted' = (aborted \/ Controlled) /\ reason' = (reason \/ (slot /\ ~Controlled))
          /\ asked' = (asked \/ Hit)
      BY <2>1 DEF stopTaskChatExecution
    <3>3. (aborted' => asked') /\ (reason' => asked')
      BY <3>2, Zenon DEF Hit
    <3> QED
      BY <3>1, <3>3
  <2> QED
    BY <2>2, <2>3
<1>4. CASE UNCHANGED <<aborted, reason, slot, asked>> /\ (phase' = "none" => phase = "none")
  BY <1>4
<1>5. CASE ReceiveRequest \/ Flush \/ \E id \in agents : Finish(id)
  <2>1. UNCHANGED <<aborted, reason, slot, asked>>
    BY <1>5 DEF ReceiveRequest, Flush, Finish, session
  <2>2. phase' = phase \/ phase' = "answered"
    BY <1>5, Responded DEF ReceiveRequest, Flush, Finish
  <2> QED
    BY <1>4, <2>1, <2>2
<1>6. CASE ServerNotices \/ Connect
  BY <1>4, <1>6, Noticed, Rejected DEF Connect, session
<1>7. CASE \/ ReadSession \/ SavePending \/ Prepare \/ Capture \/ Send \/ SaveAnswer \/ Save
           \/ GiveUp \/ Retry \/ RelayReturns \/ ReceiveCancel \/ Break \/ WorkerNotices
           \/ WorkerRestarts \/ UNCHANGED vars
  BY <1>4, <1>7 DEF ReadSession, SavePending, Prepare, Capture, Send, SaveAnswer, Save, GiveUp,
     Retry, RelayReturns, ReceiveCancel, Break, WorkerNotices, WorkerRestarts, Goto, session, vars
<1> QED
  BY <1>1, <1>2, <1>3, <1>5, <1>6, <1>7, <1>8, <1>9 DEF Next, ServerStep, Stop, Worker, Connection

\* A turn is aborted only when somebody stopped it: the reason that
\* stopTaskChatExecution keeps for a turn without a controller is taken by bind,
\* or deleted by the expiry, the exception or the end of the same turn.
THEOREM StopCorrect == Spec => []StopHasCause
<1>1. Init => Stops
  BY DEF Init, Stops
<1>2. Types /\ Stops /\ [Next]_vars => Stops'
  BY StopsStep DEF Types
<1>3. Stops => StopHasCause
  BY DEF Stops, StopHasCause
<1> QED
  BY <1>1, <1>2, <1>3, TypesHold, PTL DEF Spec
-----------------------------------------------------------------------------
(***************************************************************************)
(* The row of the session.                                                 *)
(***************************************************************************)
Sequenced(r) ==
    /\ r.id <= request /\ r.seq <= row.seq
    /\ phase \in Early => r.turn < turn
    /\ phase \notin {"none", "setup", "closing"} =>
         r.seq <= base /\ (r.turn < turn => r.seq < base)
    /\ r.turn < row.by => r.seq < row.seq /\ (row.st = "lost" => r.seq + 1 < row.seq)

\* A record has no higher sequence than the row, and a lower one when the row is
\* of a later turn, so that its response is not recovered.
Records ==
    /\ \A r \in records : Sequenced(r)
    /\ \A r, s \in records : r.id = s.id => r = s

\* A busy row is the one that the turn has written, or older.
Quiet ==
    /\ phase \in {"none", "setup", "read", "closing"} /\ ~thrown => row.st # "busy"
    /\ phase \in {"ready", "registering", "waiting", "answered", "done"} => base <= row.seq
    /\ phase \notin {"none", "setup", "closing", "saving"} /\ base < row.seq => row.st # "busy"
    /\ phase = "saving" /\ base <= row.seq => row.st # "busy"

LEMMA RecordsStep ==
    ASSUME Turns, Numbers, Rows, Records, Quiet, [Next]_vars
    PROVE  Records'
<1>0. turn \in Nat /\ base \in Nat /\ request \in Nat /\ turn <= MaxTurns
  BY StopAssumption DEF Turns
<1>1. row.seq \in Nat /\ row.by \in 0..turn
  BY DEF Rows
<1>2. \A r \in records : r.id \in Nat /\ r.seq \in Nat /\ r.turn \in 1..turn
  BY DEF Rows, Prompt
<1>3. \A r \in records : Sequenced(r)
  BY DEF Records
<1>4. CASE Capture /\ sock # 0
  <2> DEFINE new == [id |-> request + 1, seq |-> base, turn |-> turn]
  <2>1. /\ records' = records \cup {new} /\ request' = request + 1 /\ phase' = "registering"
        /\ UNCHANGED <<row, turn, base>> /\ phase = "ready"
    BY <1>4 DEF Capture, Goto, session
  <2>2. ASSUME NEW r \in records
        PROVE  Sequenced(r)' /\ r.id # new.id
    BY <1>0, <1>1, <1>2, <1>3, <2>1 DEF Sequenced
  <2>3. ASSUME NEW r, r = new
        PROVE  Sequenced(r)'
    BY <2>3, <1>0, <1>1, <2>1 DEF Sequenced, Quiet
  <2> QED
    BY <2>1, <2>2, <2>3 DEF Records
<1>5. ASSUME records' \subseteq records, \A r \in records : Sequenced(r) => Sequenced(r)'
      PROVE  Records'
  BY <1>3, <1>5 DEF Records
<1>6. CASE BeginTurn
  BY <1>0, <1>1, <1>2, <1>5, <1>6 DEF BeginTurn, Goto, Sequenced
<1>7. CASE ReadSession
  BY <1>0, <1>1, <1>2, <1>5, <1>7 DEF ReadSession, Goto, sent, Sequenced
<1>8. CASE SavePending \/ Prepare \/ Retry \/ SaveAnswer
  <2>1. /\ UNCHANGED <<records, request, turn, base>> /\ row' \in {row, Busy(base)}
        /\ phase' \notin {"none", "setup", "closing"} /\ phase \notin {"none", "setup", "closing"}
        /\ (phase' \in Early => phase \in Early)
    BY <1>8 DEF SavePending, Prepare, Retry, SaveAnswer, session, sent, Goto
  <2>2. CASE row' = row
    BY <1>0, <1>1, <1>2, <1>5, <2>1, <2>2 DEF Sequenced
  <2>3. CASE row' = Busy(base)
    BY <1>0, <1>1, <1>2, <1>5, <2>1, <2>3 DEF Sequenced, Busy
  <2> QED
    BY <2>1, <2>2, <2>3
<1>9. CASE Save
  <2>1. /\ UNCHANGED <<records, request, turn, base>> /\ phase' = "closing" /\ phase = "saving"
        /\ row' = row \/ row' = [seq |-> base, st |-> "ended", by |-> turn]
    BY <1>9 DEF Save, session, sent, Goto
  <2>2. CASE row' = row
    BY <1>0, <1>1, <1>2, <1>5, <2>1, <2>2 DEF Sequenced
  <2>3. CASE row' = [seq |-> base, st |-> "ended", by |-> turn]
    BY <1>0, <1>1, <1>2, <1>5, <2>1, <2>3 DEF Sequenced
  <2> QED
    BY <2>1, <2>2, <2>3
<1>10. CASE Conclude
  BY <1>0, <1>1, <1>2, <1>5, <1>10 DEF Conclude, ConcludeIf, Goto, sent, Sequenced
\* The phase goes on, and the row is marked, recovered or kept.
<1>11. ASSUME UNCHANGED <<request, turn, base>>, records' \subseteq records,
              \/ row' = row
              \/ row' = After("stopped", row.by)
              \/ \E r \in records : row' = After("ended", r.turn),
              \/ phase' = phase \/ phase' \in {"none", "closing"}
              \/ phase \notin {"none", "setup", "closing"} /\ phase' \in {"rejected", "answered"}
              \/ phase = "saved" /\ phase' = "bound"
              \/ phase = "registering" /\ phase' = "waiting"
       PROVE  Records'
  <2>1. ASSUME NEW r \in records, Sequenced(r)
        PROVE  Sequenced(r)'
    <3>1. phase' \in Early => r.turn < turn
      BY <1>11, <2>1 DEF Sequenced
    <3>2. phase' \notin {"none", "setup", "closing"} =>
            r.seq <= base /\ (r.turn < turn => r.seq < base)
      BY <1>11, <2>1 DEF Sequenced
    <3>3. r.id <= request /\ r.seq <= row'.seq
      BY <1>1, <1>2, <1>11, <2>1 DEF Sequenced, After
    <3>4. r.turn < row'.by => r.seq < row'.seq /\ (row'.st = "lost" => r.seq + 1 < row'.seq)
      BY <1>1, <1>2, <1>11, <2>1 DEF Sequenced, After
    <3> QED
      BY <1>11, <3>1, <3>2, <3>3, <3>4 DEF Sequenced
  <2> QED
    BY <1>5, <1>11, <2>1
<1>12. CASE LocalStop \/ RelayStop
  <2>1. stopTaskChatExecution /\ UNCHANGED <<request, turn, base>>
        /\ (row' = row \/ row' = After("stopped", row.by))
    BY <1>12 DEF LocalStop, RelayStop, sent, Mark
  <2>2. /\ records' \subseteq records
        /\ phase' = phase \/ (phase = "waiting" /\ phase' = "rejected")
    BY <2>1, Stopped DEF Turns
  <2> QED
    BY <1>11, <2>1, <2>2
<1>13. CASE ReceiveRequest \/ Flush \/ \E id \in agents : Finish(id)
  <2>1. UNCHANGED <<request, turn, base>>
    BY <1>13 DEF ReceiveRequest, Flush, Finish, session, sent
  <2>2. (\E id : Respond(id)) \/ UNCHANGED <<phase, row, records>>
    BY <1>13 DEF ReceiveRequest, Flush, Finish
  <2>3. ASSUME NEW id, Respond(id)
        PROVE  Records'
    <3>1. /\ records' \subseteq records
          /\ row' = row \/ \E r \in records : row' = After("ended", r.turn)
          /\ phase' = phase \/ (phase = "waiting" /\ phase' = "answered")
      BY <2>3, Responded DEF Pending
    <3> QED
      BY <1>11, <2>1, <3>1
  <2> QED
    BY <1>11, <2>1, <2>2, <2>3
<1>14. CASE ServerNotices \/ Connect
  <2>1. UNCHANGED <<request, turn, base, row>> /\ records' \subseteq records
        /\ (phase' = phase \/ (phase = "waiting" /\ phase' = "rejected"))
    BY <1>14, Noticed, Rejected DEF Connect, session, sent
  <2> QED
    BY <1>11, <2>1
<1>15. CASE ServerRestarts
  <2>1. UNCHANGED <<request, turn, base, records>> /\ phase' = "none"
        /\ (row' = row \/ (row.st = "busy" /\ row' = After("lost", row.by)))
    BY <1>15 DEF ServerRestarts, sent, Recovered, Goto
  <2>2. CASE row' = After("lost", row.by)
    BY <1>0, <1>1, <1>2, <1>5, <2>1, <2>2 DEF Sequenced, After
  <2> QED
    BY <1>11, <2>1, <2>2
<1>16. CASE \/ Bind \/ GiveUp \/ (Capture /\ sock = 0) \/ Send \/ Release \/ Throw \/ Expire
            \/ RelayReturns
  BY <1>11, <1>16 DEF Bind, GiveUp, Capture, Send, Release, Throw, Expire, RelayReturns, Mark,
     Goto, session, sent
<1>17. CASE ReceiveCancel \/ Break \/ WorkerNotices \/ WorkerRestarts \/ UNCHANGED vars
  BY <1>11, <1>17 DEF ReceiveCancel, Break, WorkerNotices, WorkerRestarts, session, sent, vars
<1> QED
  BY <1>4, <1>6, <1>7, <1>8, <1>9, <1>10, <1>12, <1>13, <1>14, <1>15, <1>16, <1>17
  DEF Next, ServerStep, Stop, Worker, Connection

LEMMA QuietStep ==
    ASSUME Turns, Rows, Quiet, [Next]_vars
    PROVE  Quiet'
<1> USE DEF Quiet
<1>0. turn \in Nat /\ base \in Nat /\ thrown \in BOOLEAN
  BY DEF Turns
<1>1. row.seq \in Nat
  BY DEF Rows
<1>2. CASE BeginTurn
  BY <1>2 DEF BeginTurn, Goto
<1>3. CASE ReadSession
  BY <1>0, <1>1, <1>3 DEF ReadSession, Goto
<1>4. CASE SavePending \/ Prepare \/ Retry \/ SaveAnswer
  <2>1. /\ UNCHANGED <<base, thrown>> /\ row' \in {row, Busy(base)}
        /\ \/ phase = "read" /\ phase' = "saved"
           \/ phase = "bound" /\ phase' = "ready" /\ row' = Busy(base)
           \/ phase = "answered" /\ phase' \in {"ready", "done"}
    BY <1>4 DEF SavePending, Prepare, Retry, SaveAnswer, session, Goto
  <2> QED
    BY <1>0, <1>1, <2>1 DEF Busy
<1>5. CASE Save
  BY <1>0, <1>1, <1>5 DEF Save, session, Goto
<1>6. CASE Conclude
  BY <1>0, <1>1, <1>6 DEF Conclude, ConcludeIf, Goto
<1>7. CASE Throw
  <2>1. /\ UNCHANGED row /\ phase' = "closing"
        /\ (phase \in {"saved", "bound", "saving"} => thrown')
        /\ (thrown => thrown')
    BY <1>7, Zenon DEF Throw, Goto
  <2>2. phase \in {"setup", "read"} \/ phase \in {"saved", "bound", "saving"}
    BY <1>7 DEF Throw
  <2> QED
    BY <2>1, <2>2
\* The phase goes on, and the row is marked, recovered or kept.
<1>8. ASSUME UNCHANGED <<base, thrown>>,
             \/ row' = row
             \/ \E st, by : st # "busy" /\ row' = After(st, by),
             \/ phase' = phase \/ (phase = "closing" /\ phase' = "none")
             \/ phase' = "rejected" \/ (phase = "saved" /\ phase' = "bound")
             \/ phase = "ready" /\ phase' = "registering"
             \/ phase = "registering" /\ phase' = "waiting"
             \/ phase = "waiting" /\ phase' = "answered",
             phase' = "rejected" => phase \in {"bound", "ready", "waiting", "rejected"}
      PROVE  Quiet'
  BY <1>0, <1>1, <1>8 DEF After
<1>9. CASE LocalStop \/ RelayStop
  <2>1. stopTaskChatExecution /\ UNCHANGED <<base, thrown>>
        /\ (row' = row \/ row' = After("stopped", row.by))
    BY <1>9 DEF LocalStop, RelayStop, Mark
  <2>2. phase' = phase \/ (phase = "waiting" /\ phase' = "rejected")
    BY <2>1, Stopped DEF Turns
  <2> QED
    BY <1>8, <2>1, <2>2
<1>10. CASE ReceiveRequest \/ Flush \/ \E id \in agents : Finish(id)
  <2>1. UNCHANGED <<base, thrown>>
    BY <1>10 DEF ReceiveRequest, Flush, Finish, session
  <2>2. (\E id : Respond(id)) \/ UNCHANGED <<phase, row>>
    BY <1>10 DEF ReceiveRequest, Flush, Finish
  <2>3. ASSUME NEW id, Respond(id)
        PROVE  Quiet'
    <3>1. /\ row' = row \/ \E r \in records : row' = After("ended", r.turn)
          /\ phase' = phase \/ (phase = "waiting" /\ phase' = "answered")
      BY <2>3, Responded DEF Pending
    <3> QED
      BY <1>8, <2>1, <3>1
  <2> QED
    BY <1>8, <2>1, <2>2, <2>3
<1>11. CASE ServerNotices \/ Connect
  <2>1. UNCHANGED <<base, thrown, row>>
        /\ (phase' = phase \/ (phase = "waiting" /\ phase' = "rejected"))
    BY <1>11, Noticed, Rejected DEF Connect, session
  <2> QED
    BY <1>8, <2>1
<1>12. CASE ServerRestarts
  BY <1>12 DEF ServerRestarts, Recovered, Goto, After
<1>13. CASE Bind \/ GiveUp \/ Capture \/ Send \/ Release \/ Expire \/ RelayReturns
  BY <1>8, <1>13 DEF Bind, GiveUp, Capture, Send, Release, Expire, RelayReturns, Mark,
     Goto, session
<1>14. CASE ReceiveCancel \/ Break \/ WorkerNotices \/ WorkerRestarts \/ UNCHANGED vars
  BY <1>8, <1>14 DEF ReceiveCancel, Break, WorkerNotices, WorkerRestarts, session, vars
<1> QED
  BY <1>2, <1>3, <1>4, <1>5, <1>6, <1>7, <1>9, <1>10, <1>11, <1>12, <1>13, <1>14
  DEF Next, ServerStep, Stop, Worker, Connection

LEMMA RowsHold == Spec => [](Records /\ Quiet)
<1>1. Init => Records /\ Quiet
  BY DEF Init, Records, Quiet
<1>2. Types /\ (Records /\ Quiet) /\ [Next]_vars => (Records /\ Quiet)'
  BY RecordsStep, QuietStep DEF Types
<1> QED
  BY <1>1, <1>2, TypesHold, PTL DEF Spec

\* A response that is recovered belongs to the turn of the row or to a later one.
LEMMA Recoverable ==
    ASSUME Rows, Records, NEW r \in records, Applies(r)
    PROVE  r.turn >= row.by
<1>1. row.seq \in Nat /\ row.by \in Nat /\ r.seq \in Nat /\ r.turn \in Nat
  BY DEF Rows
<1>2. r.turn < row.by => r.seq < row.seq /\ (row.st = "lost" => r.seq + 1 < row.seq)
  BY DEF Records, Sequenced
<1> QED
  BY <1>1, <1>2 DEF Applies

LEMMA RowAdvances ==
    ASSUME Turns, Rows, Records, [Next]_vars
    PROVE  row'.by >= row.by
<1>0. turn \in Nat /\ row.by \in Nat /\ row.by <= turn
  BY DEF Turns, Rows
<1>1. CASE row' = row \/ row' = Busy(base) \/ \E st, seq : row' = [seq |-> seq, st |-> st, by |-> turn]
  BY <1>0, <1>1 DEF Busy
<1>2. CASE \E st : row' = After(st, row.by)
  BY <1>0, <1>2 DEF After
<1>3. ASSUME NEW id, Respond(id)
      PROVE  row'.by >= row.by
  <2>1. CASE row' = row
    BY <1>1, <2>1
  <2>2. CASE row' # row
    <3>1. PICK r \in records : r.id = id /\ Applies(r)
      BY <1>3, <2>2, Responded
    <3>2. PICK s \in records : s.id = id /\ row' = After("ended", s.turn)
      BY <1>3, <2>2, Responded
    <3>3. r = s
      BY <3>1, <3>2 DEF Records
    <3> QED
      BY <3>1, <3>2, <3>3, Recoverable DEF After
  <2> QED
    BY <2>1, <2>2
<1>4. CASE ReceiveRequest \/ Flush \/ \E id \in agents : Finish(id)
  BY <1>1, <1>3, <1>4 DEF ReceiveRequest, Flush, Finish
<1>5. CASE SavePending \/ Prepare \/ Retry \/ SaveAnswer \/ Save
  BY <1>1, <1>5 DEF SavePending, Prepare, Retry, SaveAnswer, Save
<1>6. CASE LocalStop \/ RelayStop \/ RelayReturns \/ ServerRestarts
  BY <1>1, <1>2, <1>6 DEF LocalStop, RelayStop, RelayReturns, ServerRestarts, Mark, Recovered
<1>7. CASE BeginTurn \/ Capture \/ ServerNotices \/ Connect \/ UNCHANGED <<row, records, relay, turn>>
  BY <1>1, <1>7, Noticed DEF BeginTurn, Capture, Connect
<1> QED
  BY <1>4, <1>5, <1>6, <1>7, Frames

\* What is recovered or saved late of a turn never overwrites the row of a later
\* one, also when the server restarts in between: shouldApplyRecoveredResponse
\* compares the sequence of the record with that of the row.
THEOREM RowCorrect == Spec => RowsInOrder
<1>1. Types /\ Records /\ [Next]_vars => [row'.by >= row.by]_vars
  BY RowAdvances DEF Types
<1> QED
  BY <1>1, TypesHold, RowsHold, PTL DEF Spec, RowsInOrder

\* Between turns the session is not busy, unless an exception ended a turn: every
\* other end of executeTaskChatTurn writes the row, or finds it written by a stop
\* or by a recovered response, and a restart resets it.
THEOREM QuietCorrect == Spec => []QuietNotBusy
<1>1. Quiet => QuietNotBusy
  BY DEF Quiet, QuietNotBusy
<1> QED
  BY <1>1, RowsHold, PTL
-----------------------------------------------------------------------------
(***************************************************************************)
(* Prompts on their way.  A prompt is in one place: under way, queued, at  *)
(* work or answered but not sent.                                          *)
(***************************************************************************)
Ids(s) == {s[i] : i \in 1..Len(s)}
Once(s) == \A i, j \in 1..Len(s) : s[i] = s[j] => i = j
Distinct(d) == \A i, j \in 1..Len(d) : d[i].type = "request" /\ d[i] = d[j] => i = j
CancelOf(id) == [type |-> "cancel", id |-> id]
RequestOf(id) == [type |-> "request", id |-> id]
Followed(d, i) == \E j \in (i + 1)..Len(d) : d[j] = CancelOf(d[i].id)

Queued == Ids(queue)
Unsent == Ids(outbox)
Requests == {id \in Prompt : RequestOf(id) \in Ids(down)}
Cancels == {id \in Prompt : CancelOf(id) \in Ids(down)}

First(q, run) == {q[i] : i \in 1..Started(q, run)}
Rest(q, run) == SubSeq(q, Started(q, run) + 1, Len(q))

LEMMA TailOf ==
    ASSUME NEW S, NEW d \in Seq(S), d # <<>>
    PROVE  /\ Len(d) \in Nat /\ Len(d) > 0 /\ Head(d) = d[1] /\ Head(d) \in S
           /\ Tail(d) \in Seq(S) /\ Len(Tail(d)) = Len(d) - 1
           /\ \A i \in 1..(Len(d) - 1) : Tail(d)[i] = d[i + 1]
           /\ Ids(d) = {Head(d)} \cup Ids(Tail(d))
<1>1. /\ Len(d) \in Nat /\ Len(d) > 0 /\ Head(d) = d[1] /\ Head(d) \in S
      /\ Tail(d) \in Seq(S) /\ Len(Tail(d)) = Len(d) - 1
      /\ \A i \in 1..(Len(d) - 1) : Tail(d)[i] = d[i + 1]
  BY LenProperties, EmptySeq, HeadTailProperties, ElementOfSeq
<1>2. ASSUME NEW x \in Ids(d)
      PROVE  x = Head(d) \/ x \in Ids(Tail(d))
  <2>1. PICK i \in 1..Len(d) : x = d[i]
    BY DEF Ids
  <2>2. CASE i = 1
    BY <1>1, <2>1, <2>2
  <2>3. CASE i # 1
    <3>1. i - 1 \in 1..Len(Tail(d)) /\ Tail(d)[i - 1] = d[i]
      BY <1>1, <2>1, <2>3
    <3> QED
      BY <2>1, <3>1 DEF Ids
  <2> QED
    BY <2>2, <2>3
<1>3. Head(d) \in Ids(d)
  BY <1>1 DEF Ids
<1>4. ASSUME NEW x \in Ids(Tail(d))
      PROVE  x \in Ids(d)
  <2>1. PICK i \in 1..Len(Tail(d)) : x = Tail(d)[i]
    BY DEF Ids
  <2>2. i + 1 \in 1..Len(d) /\ Tail(d)[i] = d[i + 1]
    BY <1>1
  <2> QED
    BY <2>1, <2>2 DEF Ids
<1> QED
  BY <1>1, <1>2, <1>3, <1>4

LEMMA AppendOf ==
    ASSUME NEW S, NEW d \in Seq(S), NEW m \in S
    PROVE  /\ Append(d, m) \in Seq(S) /\ Len(d) \in Nat /\ Len(Append(d, m)) = Len(d) + 1
           /\ \A i \in 1..Len(d) : Append(d, m)[i] = d[i]
           /\ Append(d, m)[Len(d) + 1] = m
           /\ Ids(Append(d, m)) = Ids(d) \cup {m}
<1>1. /\ Append(d, m) \in Seq(S) /\ Len(d) \in Nat /\ Len(Append(d, m)) = Len(d) + 1
      /\ \A i \in 1..Len(d) : Append(d, m)[i] = d[i]
      /\ Append(d, m)[Len(d) + 1] = m
  BY LenProperties, AppendProperties
<1>2. ASSUME NEW x \in Ids(Append(d, m))
      PROVE  x \in Ids(d) \cup {m}
  <2>1. PICK i \in 1..(Len(d) + 1) : x = Append(d, m)[i]
    BY <1>1 DEF Ids
  <2>2. i \in 1..Len(d) \/ i = Len(d) + 1
    BY <1>1
  <2> QED
    BY <1>1, <2>1, <2>2 DEF Ids
<1>3. Ids(d) \subseteq Ids(Append(d, m))
  <2>1. \A i \in 1..Len(d) : i \in 1..(Len(d) + 1)
    BY <1>1
  <2> QED
    BY <1>1, <2>1 DEF Ids
<1>4. m \in Ids(Append(d, m))
  BY <1>1 DEF Ids
<1> QED
  BY <1>1, <1>2, <1>3, <1>4

LEMMA OnceAppended ==
    ASSUME NEW q \in Seq(Prompt), NEW id \in Prompt, Once(q), id \notin Ids(q)
    PROVE  Once(Append(q, id))
<1>1. /\ Len(q) \in Nat /\ Len(Append(q, id)) = Len(q) + 1
      /\ \A i \in 1..Len(q) : Append(q, id)[i] = q[i] /\ q[i] # id
      /\ Append(q, id)[Len(q) + 1] = id
  BY AppendOf DEF Ids
<1> SUFFICES ASSUME NEW i \in 1..(Len(q) + 1), NEW j \in 1..(Len(q) + 1),
                    Append(q, id)[i] = Append(q, id)[j]
             PROVE  i = j
  BY <1>1 DEF Once
<1>2. (i \in 1..Len(q) \/ i = Len(q) + 1) /\ (j \in 1..Len(q) \/ j = Len(q) + 1)
  BY <1>1
<1> QED
  BY <1>1, <1>2 DEF Once

LEMMA DistinctTail ==
    ASSUME NEW d \in Seq(Message), d # <<>>, Distinct(d)
    PROVE  /\ Distinct(Tail(d))
           /\ Head(d).type = "request" => Head(d) \notin Ids(Tail(d))
<1>1. /\ Len(d) \in Nat /\ Len(d) > 0 /\ Head(d) = d[1] /\ Len(Tail(d)) = Len(d) - 1
      /\ \A i \in 1..(Len(d) - 1) : Tail(d)[i] = d[i + 1] /\ i + 1 \in 1..Len(d) /\ i + 1 # 1
  BY TailOf
<1>2. Distinct(Tail(d))
  <2> SUFFICES ASSUME NEW i \in 1..(Len(d) - 1), NEW j \in 1..(Len(d) - 1),
                      Tail(d)[i].type = "request", Tail(d)[i] = Tail(d)[j]
               PROVE  i = j
    BY <1>1 DEF Distinct
  <2>1. d[i + 1].type = "request" /\ d[i + 1] = d[j + 1] /\ i + 1 \in 1..Len(d) /\ j + 1 \in 1..Len(d)
    BY <1>1
  <2>2. i + 1 = j + 1
    BY <2>1 DEF Distinct
  <2> QED
    BY <2>2
<1>3. Head(d).type = "request" => Head(d) \notin Ids(Tail(d))
  <2> SUFFICES ASSUME Head(d).type = "request", NEW i \in 1..(Len(d) - 1), Head(d) = Tail(d)[i]
               PROVE  FALSE
    BY <1>1 DEF Ids
  <2>1. d[1].type = "request" /\ d[1] = d[i + 1] /\ 1 \in 1..Len(d) /\ i + 1 \in 1..Len(d)
    BY <1>1
  <2>2. 1 = i + 1
    BY <2>1 DEF Distinct
  <2> QED
    BY <2>2, <1>1
<1> QED
  BY <1>2, <1>3

LEMMA DistinctAppended ==
    ASSUME NEW d \in Seq(Message), NEW m \in Message, Distinct(d),
           m.type = "request" => m \notin Ids(d)
    PROVE  Distinct(Append(d, m))
<1>1. /\ Len(d) \in Nat /\ Len(Append(d, m)) = Len(d) + 1
      /\ \A i \in 1..Len(d) : Append(d, m)[i] = d[i] /\ d[i] \in Ids(d)
      /\ Append(d, m)[Len(d) + 1] = m
  BY AppendOf DEF Ids
<1> SUFFICES ASSUME NEW i \in 1..(Len(d) + 1), NEW j \in 1..(Len(d) + 1),
                    Append(d, m)[i].type = "request", Append(d, m)[i] = Append(d, m)[j]
             PROVE  i = j
  BY <1>1 DEF Distinct
<1>2. (i \in 1..Len(d) \/ i = Len(d) + 1) /\ (j \in 1..Len(d) \/ j = Len(d) + 1)
  BY <1>1
<1> QED
  BY <1>1, <1>2 DEF Distinct

LEMMA Draining ==
    ASSUME NEW q \in Seq(Prompt), NEW run \in SUBSET (Prompt \cup {0}), Once(q)
    PROVE  /\ Rest(q, run) \in Seq(Prompt) /\ Once(Rest(q, run))
           /\ First(q, run) \subseteq Ids(q)
           /\ Ids(Rest(q, run)) = Ids(q) \ First(q, run)
<1> DEFINE n == Started(q, run)
           r == Rest(q, run)
<1>1. n \in 0..Len(q) /\ Len(q) \in Nat
  BY StartedBounds, LenProperties
<1>2. r \in Seq(Prompt) /\ Len(r) = Len(q) - n /\ \A i \in 1..(Len(q) - n) : r[i] = q[n + i]
  BY <1>1, Heads DEF Rest
<1>3. First(q, run) = {q[i] : i \in 1..n}
  BY DEF First
<1> HIDE DEF n, r
<1>4. First(q, run) \subseteq Ids(q)
  BY <1>1, <1>3 DEF Ids
<1>5. Once(r)
  <2> SUFFICES ASSUME NEW i \in 1..(Len(q) - n), NEW j \in 1..(Len(q) - n), r[i] = r[j]
               PROVE  i = j
    BY <1>2 DEF Once
  <2>1. n + i \in 1..Len(q) /\ n + j \in 1..Len(q) /\ q[n + i] = q[n + j]
    BY <1>1, <1>2
  <2>2. n + i = n + j
    BY <2>1 DEF Once
  <2> QED
    BY <1>1, <2>2
<1>6. Ids(r) \subseteq Ids(q) \ First(q, run)
  <2> SUFFICES ASSUME NEW i \in 1..(Len(q) - n)
               PROVE  r[i] \in Ids(q) /\ r[i] \notin First(q, run)
    BY <1>2 DEF Ids
  <2>1. n + i \in 1..Len(q) /\ r[i] = q[n + i]
    BY <1>1, <1>2
  <2>2. \A k \in 1..n : k \in 1..Len(q) /\ k # n + i
    BY <1>1
  <2> QED
    BY <1>3, <2>1, <2>2 DEF Ids, Once
<1>7. Ids(q) \ First(q, run) \subseteq Ids(r)
  <2> SUFFICES ASSUME NEW k \in 1..Len(q), q[k] \notin First(q, run)
               PROVE  q[k] \in Ids(r)
    BY DEF Ids
  <2>1. k \notin 1..n
    BY <1>3
  <2>2. k - n \in 1..(Len(q) - n) /\ n + (k - n) = k
    BY <1>1, <2>1
  <2> QED
    BY <1>2, <2>2 DEF Ids
<1> QED
  BY <1>2, <1>4, <1>5, <1>6, <1>7 DEF r

LEMMA Dequeuing ==
    ASSUME queue \in Seq(Prompt), Once(queue), NEW id
    PROVE  /\ NotQueued(id) \in Seq(Prompt) /\ Once(NotQueued(id))
           /\ Ids(NotQueued(id)) = Queued \ {id}
<1> DEFINE r == NotQueued(id)
           l == Len(queue)
<1>1. PICK f \in 1..(l + 1) :
        /\ r \in Seq(Prompt)
        /\ Len(r) = IF f <= l THEN l - 1 ELSE l
        /\ f <= l => queue[f] = id
        /\ f > l => \A i \in 1..l : queue[i] # id
        /\ \A i \in 1..Len(r) : r[i] = queue[IF i < f THEN i ELSE i + 1]
  BY Dequeued
<1> DEFINE g(i) == IF i < f THEN i ELSE i + 1
<1>2. l \in Nat
  BY LenProperties
<1> HIDE DEF r, l
<1>3. \A i \in 1..Len(r) : g(i) \in 1..l /\ g(i) # f
  BY <1>1, <1>2
<1>4. \A i, j \in 1..Len(r) : g(i) = g(j) => i = j
  BY <1>1, <1>2
<1>5. \A i \in 1..Len(r) : r[i] = queue[g(i)]
  BY <1>1
<1>6. \A k \in 1..l : k # f => \E i \in 1..Len(r) : k = g(i)
  <2> SUFFICES ASSUME NEW k \in 1..l, k # f PROVE \E i \in 1..Len(r) : k = g(i)
    OBVIOUS
  <2>1. CASE k < f
    <3>1. k \in 1..Len(r) /\ k = g(k)
      BY <1>1, <1>2, <2>1
    <3> QED
      BY <3>1
  <2>2. CASE k > f
    <3>1. k - 1 \in 1..Len(r) /\ k = g(k - 1)
      BY <1>1, <1>2, <2>2
    <3> QED
      BY <3>1
  <2> QED
    BY <1>1, <1>2, <2>1, <2>2
<1> HIDE DEF g
<1>7. Once(r)
  BY <1>3, <1>4, <1>5 DEF Once, l
<1>8. Ids(r) \subseteq Queued \ {id}
  <2> SUFFICES ASSUME NEW i \in 1..Len(r)
               PROVE  r[i] \in Queued /\ r[i] # id
    BY DEF Ids
  <2>1. r[i] = queue[g(i)] /\ g(i) \in 1..l /\ g(i) # f
    BY <1>3, <1>5
  <2>2. CASE f <= l
    <3>1. f \in 1..l /\ queue[f] = id
      BY <1>1, <1>2, <2>2
    <3> QED
      BY <2>1, <3>1 DEF Once, Queued, Ids, l
  <2>3. CASE f > l
    BY <1>1, <2>1, <2>3 DEF Queued, Ids, l
  <2> QED
    BY <1>1, <1>2, <2>2, <2>3
<1>9. Queued \ {id} \subseteq Ids(r)
  <2> SUFFICES ASSUME NEW k \in 1..l, queue[k] # id
               PROVE  queue[k] \in Ids(r)
    BY DEF Queued, Ids, l
  <2>1. k # f
    BY <1>1, <1>2
  <2> QED
    BY <1>5, <1>6, <2>1 DEF Ids
<1> QED
  BY <1>1, <1>7, <1>8, <1>9 DEF r

\* What is started fits into the free places.
LEMMA Fits ==
    ASSUME NEW q \in Seq(Prompt), NEW run \in SUBSET (Prompt \cup {0}),
           Cardinality(run) <= Capacity
    PROVE  Cardinality(run \cup First(q, run)) <= Capacity
<1> DEFINE n == Started(q, run)
<1>1. n \in 0..Len(q) /\ n \in Nat /\ (n = 0 \/ n <= Capacity - Cardinality(run))
  BY StartedBounds, LenProperties
<1>2. IsFiniteSet(run) /\ Cardinality(run) \in Nat /\ Capacity \in Nat
  BY FiniteIds, Bounds
<1>3. First(q, run) = {q[i] : i \in 1..n}
  BY DEF First
<1> HIDE DEF n
<1>4. IsFiniteSet(1..n) /\ Cardinality(1..n) = n
  BY <1>1, FS_Interval
<1>5. IsFiniteSet(First(q, run)) /\ Cardinality(First(q, run)) <= n
  <2> DEFINE f == [i \in 1..n |-> q[i]]
  <2>1. f \in Surjection(1..n, First(q, run))
    BY <1>3 DEF Surjection
  <2> QED
    BY <1>4, <2>1, FS_Surjection
<1>6. CASE n = 0
  <2>1. run \cup First(q, run) = run
    BY <1>3, <1>6
  <2> QED
    BY <2>1
<1>7. CASE n <= Capacity - Cardinality(run)
  <2>1. Cardinality(run \cup First(q, run)) =
          Cardinality(run) + Cardinality(First(q, run)) - Cardinality(run \cap First(q, run))
    BY <1>2, <1>5, FS_Union
  <2>2. Cardinality(First(q, run)) \in Nat /\ Cardinality(run \cap First(q, run)) \in Nat
    BY <1>2, <1>5, FS_CardinalityType, FS_Subset, FS_Intersection
  <2> QED
    BY <1>1, <1>2, <1>5, <1>7, <2>1, <2>2
<1> QED
  BY <1>1, <1>6, <1>7

LEMMA Kinds ==
    \A a, b : /\ RequestOf(a) # CancelOf(b)
              /\ RequestOf(a) = RequestOf(b) => a = b
              /\ CancelOf(a) = CancelOf(b) => a = b
  BY DEF RequestOf, CancelOf

LEMMA Kind ==
    ASSUME NEW m \in Message
    PROVE  /\ m.id \in Prompt
           /\ m.type = "request" => m = RequestOf(m.id)
           /\ m.type = "cancel" => m = CancelOf(m.id)
  BY DEF Message, RequestOf, CancelOf

LEMMA Requested ==
    ASSUME down \in Seq(Message), NEW id \in Prompt, down' = Append(down, RequestOf(id))
    PROVE  Requests' = Requests \cup {id} /\ Cancels' = Cancels
<1>1. Ids(down') = Ids(down) \cup {RequestOf(id)}
  <2>1. RequestOf(id) \in Message
    BY DEF RequestOf, Message
  <2> QED
    BY <2>1, AppendOf
<1> QED
  BY <1>1, Kinds DEF Requests, Cancels

LEMMA Cancelling ==
    ASSUME down \in Seq(Message), NEW id \in Prompt, down' = Append(down, CancelOf(id))
    PROVE  Requests' = Requests /\ Cancels' = Cancels \cup {id}
<1>1. Ids(down') = Ids(down) \cup {CancelOf(id)}
  <2>1. CancelOf(id) \in Message
    BY DEF CancelOf, Message
  <2> QED
    BY <2>1, AppendOf
<1> QED
  BY <1>1, Kinds DEF Requests, Cancels

LEMMA RequestTaken ==
    ASSUME down \in Seq(Message), Distinct(down), Receive("request")
    PROVE  /\ Head(down).id \in Requests /\ Head(down) = RequestOf(Head(down).id)
           /\ Requests' = Requests \ {Head(down).id} /\ Cancels' = Cancels
           /\ down' \in Seq(Message) /\ Distinct(down)' /\ link # 0 /\ conn = link
<1>1. /\ down # <<>> /\ Head(down).type = "request" /\ down' = Tail(down)
      /\ link # 0 /\ conn = link
  BY DEF Receive
<1>2. Head(down) \in Message /\ Ids(down) = {Head(down)} \cup Ids(Tail(down))
      /\ Tail(down) \in Seq(Message)
  BY <1>1, TailOf
<1>3. Head(down).id \in Prompt /\ Head(down) = RequestOf(Head(down).id)
  BY <1>1, <1>2, Kind
<1>4. Distinct(Tail(down)) /\ Head(down) \notin Ids(Tail(down))
  BY <1>1, DistinctTail
<1>5. Requests' = Requests \ {Head(down).id}
  BY <1>1, <1>2, <1>3, <1>4, Kinds DEF Requests
<1>6. Cancels' = Cancels
  BY <1>1, <1>2, <1>3, Kinds DEF Cancels
<1>7. Head(down).id \in Requests
  BY <1>2, <1>3 DEF Requests
<1>8. Distinct(down)'
  BY <1>1, <1>4 DEF Distinct
<1> QED
  BY <1>1, <1>2, <1>3, <1>5, <1>6, <1>7, <1>8

LEMMA CancelTaken ==
    ASSUME down \in Seq(Message), Distinct(down), Receive("cancel")
    PROVE  /\ Head(down).id \in Cancels /\ Head(down) = CancelOf(Head(down).id)
           /\ Requests' = Requests /\ Cancels = Cancels' \cup {Head(down).id}
           /\ down' \in Seq(Message) /\ Distinct(down)' /\ link # 0 /\ conn = link
<1>1. /\ down # <<>> /\ Head(down).type = "cancel" /\ down' = Tail(down)
      /\ link # 0 /\ conn = link
  BY DEF Receive
<1>2. Head(down) \in Message /\ Ids(down) = {Head(down)} \cup Ids(Tail(down))
      /\ Tail(down) \in Seq(Message)
  BY <1>1, TailOf
<1>3. Head(down).id \in Prompt /\ Head(down) = CancelOf(Head(down).id)
  BY <1>1, <1>2, Kind
<1>4. Distinct(Tail(down))
  BY <1>1, DistinctTail
<1>5. Requests' = Requests
  BY <1>1, <1>2, <1>3, Kinds DEF Requests
<1>6. Cancels = Cancels' \cup {Head(down).id}
  BY <1>1, <1>2, <1>3, Kinds DEF Cancels
<1>8. Distinct(down)'
  BY <1>1, <1>4 DEF Distinct
<1> QED
  BY <1>1, <1>2, <1>3, <1>5, <1>6, <1>8

LEMMA NothingDown ==
    ASSUME down = <<>>
    PROVE  Requests = {} /\ Cancels = {} /\ Distinct(down)
<1>1. Len(down) = 0 /\ 1..0 = {}
  BY EmptySeq, LenProperties
<1> QED
  BY <1>1 DEF Requests, Cancels, Distinct, Ids

\* A connection that carries messages is the one that both ends have.
Wires ==
    /\ link # 0 => sock = link /\ conn = link
    /\ link = 0 => down = <<>>
    /\ phase \in {"registering", "waiting"} => captured # 0

\* The next prompt is a new one.
Fresh ==
    LET seen == agents \cup Queued \cup Unsent \cup Requests \cup Cancels
    IN /\ \A id \in seen : id <= request
       /\ phase = "registering" => request \notin seen

\* An agent counts as running until its process has ended, and the worker can
\* stop it unless it was told already.
Held ==
    /\ running = agents /\ Cardinality(agents) <= Capacity
    /\ agents \subseteq known \cup told \cup {0}
    /\ conn = 0 => agents \subseteq told \cup {0} /\ Queued = {}

\* No cancellation of an agent that the worker has forgotten is ever received:
\* it would no longer count as running.
Unknown ==
    \A id \in agents \ (known \cup {0}) :
        id \notin Cancels /\ ~(phase = "waiting" /\ request = id /\ captured = link)

Apart ==
    /\ Once(queue) /\ Distinct(down)
    /\ agents \cap Queued = {} /\ agents \cap Requests = {} /\ Queued \cap Requests = {}
    /\ Unsent \cap (agents \cup Queued \cup Requests) = {}

\* The prompt that is waited for is not at work when its connection was replaced.
Elsewhere ==
    link # 0 /\ phase = "waiting" /\ captured # link =>
        request \notin (agents \ told) \cup Queued \cup Requests

Places == Wires /\ Fresh /\ Held /\ Unknown /\ Apart /\ Elsewhere

others == <<epoch, sock, link, conn, captured, request>>

\* The phase neither enters the wait nor its preparation.
Leaves == phase' \in {"registering", "waiting"} => phase' = phase

Seen == agents \cup Queued \cup Unsent \cup Requests \cup Cancels

LEMMA SeenTypes ==
    ASSUME Net, Work
    PROVE  Seen \subseteq Prompt \cup {0} /\ \A id \in Seen : id \in Nat
<1>1. \A i \in 1..Len(queue) : queue[i] \in Prompt
  BY ElementOfSeq DEF Work
<1>2. \A i \in 1..Len(outbox) : outbox[i] \in Prompt
  BY ElementOfSeq DEF Net
<1>3. Queued \subseteq Prompt /\ Unsent \subseteq Prompt
  BY <1>1, <1>2 DEF Queued, Unsent, Ids
<1>4. Seen \subseteq Prompt \cup {0}
  BY <1>3 DEF Seen, Work, Requests, Cancels
<1> QED
  BY <1>4 DEF Prompt

LEMMA CapturePlaces ==
    ASSUME Turns, Net, Work, Places, Capture
    PROVE  Places'
<1>0. request \in Nat
  BY DEF Turns
<1>1. UNCHANGED <<queue, running, agents, known, told, sock, link, conn, down, outbox>>
  BY <1>0 DEF Capture, worker, network
<1>2. UNCHANGED <<Queued, Unsent, Requests, Cancels>> /\ Distinct(down)' = Distinct(down)
      /\ Once(queue)' = Once(queue)
  BY <1>1 DEF Queued, Unsent, Requests, Cancels, Distinct, Once
<1>3. \/ phase' = "rejected" /\ request' = request /\ captured' = captured
      \/ phase' = "registering" /\ request' = request + 1 /\ captured' = sock /\ sock # 0
  BY DEF Capture, Goto, sent
<1>5. Wires' /\ Unknown' /\ Elsewhere'
  BY <1>1, <1>2, <1>3 DEF Places, Wires, Unknown, Elsewhere
<1>6. Held' /\ Apart'
  BY <1>1, <1>2 DEF Places, Held, Apart
<1>7. Fresh'
  <2>1. Seen' = Seen /\ \A id \in Seen : id \in Nat /\ id <= request
    BY <1>1, <1>2, SeenTypes DEF Places, Fresh, Seen
  <2>2. (\A id \in Seen' : id <= request') /\ (phase' = "registering" => request' \notin Seen')
    BY <1>0, <1>3, <2>1
  <2> QED
    BY <2>2 DEF Fresh, Seen
<1> QED
  BY <1>5, <1>6, <1>7 DEF Places

LEMMA SendPlaces ==
    ASSUME Turns, Numbers, Net, Work, Places, Send
    PROVE  Places'
<1>0. /\ UNCHANGED <<queue, running, agents, known, told, sock, link, conn, outbox>>
      /\ phase = "registering" /\ phase' = "waiting" /\ UNCHANGED <<request, captured>>
  BY DEF Send, Goto, worker, network
<1>1. request \in Prompt /\ request \in Nat
  BY <1>0, LastPrompt DEF Turns
<1>2. \/ captured = link /\ link # 0 /\ down' = Append(down, RequestOf(request))
      \/ captured # link /\ down' = down
  BY <1>0 DEF Send, SendOn, RequestOf, Places, Wires
<1>3. request \notin Seen /\ \A id \in Seen : id <= request
  BY <1>0 DEF Places, Fresh, Seen
<1>4. UNCHANGED <<Queued, Unsent>> /\ Once(queue)' = Once(queue)
  BY <1>0 DEF Queued, Unsent, Once
<1>5. CASE captured # link /\ down' = down
  <2>1. UNCHANGED <<Requests, Cancels>> /\ Distinct(down)' = Distinct(down)
    BY <1>5 DEF Requests, Cancels, Distinct
  <2>2. Wires' /\ Held' /\ Apart'
    BY <1>0, <1>4, <1>5, <2>1 DEF Places, Wires, Held, Apart
  <2>3. Fresh'
    BY <1>0, <1>3, <1>4, <2>1 DEF Fresh, Seen
  <2>4. Unknown' /\ Elsewhere'
    BY <1>0, <1>3, <1>4, <1>5, <2>1 DEF Places, Unknown, Elsewhere, Seen
  <2> QED
    BY <2>2, <2>3, <2>4 DEF Places
<1>6. CASE captured = link /\ link # 0 /\ down' = Append(down, RequestOf(request))
  <2>1. Requests' = Requests \cup {request} /\ Cancels' = Cancels
    BY <1>1, <1>6, Requested DEF Net
  <2>2. Distinct(down)'
    <3>1. RequestOf(request) \in Message /\ RequestOf(request) \notin Ids(down)
      BY <1>1, <1>3 DEF RequestOf, Message, Seen, Requests
    <3>2. Distinct(Append(down, RequestOf(request)))
      BY <3>1, DistinctAppended DEF Net, Places, Apart
    <3> QED
      BY <1>6, <3>2 DEF Distinct
  <2>3. Wires' /\ Held'
    BY <1>0, <1>4, <1>6 DEF Places, Wires, Held
  <2>4. Apart'
    BY <1>0, <1>3, <1>4, <2>1, <2>2 DEF Places, Apart, Seen
  <2>5. Fresh'
    BY <1>0, <1>1, <1>3, <1>4, <2>1 DEF Fresh, Seen
  <2>6. Unknown' /\ Elsewhere'
    BY <1>0, <1>3, <1>4, <1>6, <2>1 DEF Places, Unknown, Elsewhere, Seen
  <2> QED
    BY <2>3, <2>4, <2>5, <2>6 DEF Places
<1> QED
  BY <1>2, <1>5, <1>6

\* The server rejects its prompt, with or without a cancellation, or does
\* something else.
LEMMA ServerPlaces ==
    ASSUME Turns, Numbers, Net, Work, Places, Leaves,
           UNCHANGED <<queue, running, agents, known, told, outbox>>, UNCHANGED others,
           \/ down' = down
           \/ phase = "waiting" /\ phase' = "rejected" /\ SendOn(captured, CancelOf(request))
    PROVE  Places'
<1>1. UNCHANGED <<Queued, Unsent>> /\ Once(queue)' = Once(queue)
  BY DEF Queued, Unsent, Once
<1>2. CASE down' = down
  <2>1. UNCHANGED <<Requests, Cancels>> /\ Distinct(down)' = Distinct(down)
    BY <1>2 DEF Requests, Cancels, Distinct
  <2>2. Wires' /\ Held' /\ Apart'
    BY <1>1, <1>2, <2>1 DEF Places, Wires, Held, Apart, others, Leaves
  <2>3. Fresh' /\ Unknown' /\ Elsewhere'
    BY <1>1, <2>1 DEF Places, Fresh, Unknown, Elsewhere, others, Leaves
  <2> QED
    BY <2>2, <2>3 DEF Places
<1>3. CASE /\ phase = "waiting" /\ phase' = "rejected" /\ captured = link /\ link # 0
           /\ down' = Append(down, CancelOf(request))
  <2>0. request \in Prompt /\ request \in Nat
    BY <1>3, LastPrompt DEF Turns
  <2>1. Cancels' = Cancels \cup {request} /\ Requests' = Requests
    BY <1>3, <2>0, Cancelling DEF Net
  <2>2. Distinct(down)'
    <3>1. CancelOf(request) \in Message /\ CancelOf(request).type # "request"
      BY <2>0 DEF CancelOf, Message
    <3>2. Distinct(Append(down, CancelOf(request)))
      BY <3>1, DistinctAppended DEF Net, Places, Apart
    <3> QED
      BY <1>3, <3>2 DEF Distinct
  <2>3. Wires' /\ Held' /\ Apart'
    BY <1>1, <1>3, <2>1, <2>2 DEF Places, Wires, Held, Apart, others
  <2>4. Fresh'
    BY <1>1, <1>3, <2>0, <2>1 DEF Places, Fresh, others
  <2>5. Unknown' /\ Elsewhere'
    BY <1>1, <1>3, <2>1 DEF Places, Unknown, Elsewhere, others
  <2> QED
    BY <2>3, <2>4, <2>5 DEF Places
<1> QED
  BY <1>2, <1>3 DEF SendOn, Places, Wires

\* What the worker works at, or will.
Active == (agents \ told) \cup Queued

\* A response leaves the wait, or the phase as it is.
LEMMA ResponseLeaves ==
    ASSUME NEW id, Respond(id)
    PROVE  Leaves /\ (phase' = phase \/ (Pending(id) /\ phase' = "answered"))
  BY Responded DEF Leaves

\* The worker takes a prompt, or refuses it.
LEMMA RequestPlaces ==
    ASSUME Turns, Net, Work, Places, ReceiveRequest
    PROVE  /\ Places'
           /\ \/ Respond(Head(down).id) /\ Active' = Active
              \/ phase' = phase /\ Active' \subseteq Active \cup {Head(down).id}
<1> DEFINE id == Head(down).id
           q == Append(queue, id)
           F == First(q, running)
<1>1. /\ id \in Requests /\ Requests' = Requests \ {id} /\ Cancels' = Cancels
      /\ Distinct(down)' /\ link # 0 /\ conn = link
  BY RequestTaken DEF ReceiveRequest, Net, Places, Apart
<1>2. UNCHANGED others /\ UNCHANGED outbox /\ Unsent' = Unsent
  BY DEF ReceiveRequest, others, sent, network, Unsent
<1>3. id \in Prompt /\ id \notin agents /\ id \notin Queued /\ id \notin Unsent /\ id \in Nat
  BY <1>1 DEF Requests, Places, Apart, Prompt
<1>4. CASE Respond(id) /\ UNCHANGED worker
  <2>1. Leaves
    BY <1>4, ResponseLeaves
  <2>2. UNCHANGED <<queue, running, agents, known, told, Queued>> /\ Once(queue)' = Once(queue)
    BY <1>4 DEF worker, Queued, Once
  <2>3. Wires' /\ Held' /\ Apart'
    BY <1>1, <1>2, <2>1, <2>2 DEF Places, Wires, Held, Apart, others, Leaves
  <2>4. Fresh' /\ Unknown' /\ Elsewhere'
    BY <1>1, <1>2, <2>1, <2>2 DEF Places, Fresh, Unknown, Elsewhere, others, Leaves
  <2>5. Active' = Active
    BY <2>2 DEF Active
  <2> QED
    BY <1>4, <2>3, <2>4, <2>5 DEF Places
<1>5. CASE Drain(q, running, agents, known) /\ UNCHANGED <<phase, told>>
  <2>0. q \in Seq(Prompt) /\ Ids(q) = Queued \cup {id} /\ Once(q)
    BY <1>3, AppendOf, OnceAppended DEF Work, Places, Apart, Queued
  <2>1. /\ queue' = Rest(q, running) /\ running' = running \cup F
        /\ agents' = agents \cup F /\ known' = known \cup F
    BY <1>5 DEF Drain, First, Rest
  <2>2. /\ F \subseteq Queued \cup {id} /\ Queued' = (Queued \cup {id}) \ F /\ Once(queue)'
    <3>1. /\ Once(Rest(q, running)) /\ F \subseteq Ids(q) /\ Ids(Rest(q, running)) = Ids(q) \ F
      BY <2>0, <2>1, Draining DEF Work, Places, Apart
    <3>2. Queued' = Ids(Rest(q, running)) /\ Once(queue)' = Once(Rest(q, running))
      BY <2>0, <2>1 DEF Queued, Ids, Once
    <3> QED
      BY <2>0, <2>1, <3>1, <3>2 DEF Queued
  <2>3. Cardinality(agents') <= Capacity
    BY <2>0, <2>1, Fits DEF Places, Held, Work
  <2> HIDE DEF id, q, F
  <2>4. Wires' /\ Held'
    BY <1>1, <1>2, <1>5, <2>1, <2>3 DEF Places, Wires, Held, others
  <2>5. Apart'
    BY <1>1, <1>2, <1>3, <2>1, <2>2 DEF Places, Apart
  <2>6. Fresh'
    BY <1>1, <1>2, <1>5, <2>1, <2>2 DEF Places, Fresh, others
  <2>7. Unknown'
    BY <1>1, <1>2, <1>5, <2>1 DEF Places, Unknown, others
  <2>8. Elsewhere'
    BY <1>1, <1>2, <1>5, <2>1, <2>2 DEF Places, Elsewhere, others
  <2>9. Active' \subseteq Active \cup {id} /\ phase' = phase
    BY <1>5, <2>1, <2>2 DEF Active
  <2> QED
    BY <2>4, <2>5, <2>6, <2>7, <2>8, <2>9 DEF Places, id
<1> QED
  BY <1>4, <1>5 DEF ReceiveRequest

\* The worker stops an agent, or forgets a prompt.
LEMMA CancelPlaces ==
    ASSUME Turns, Net, Work, Places, ReceiveCancel
    PROVE  Places' /\ Active' \subseteq Active \ {Head(down).id}
<1> DEFINE id == Head(down).id
           q == NotQueued(id)
           F == First(q, running)
<1>1. /\ id \in Cancels /\ Cancels = Cancels' \cup {id} /\ Requests' = Requests
      /\ Distinct(down)' /\ link # 0 /\ conn = link
  BY CancelTaken DEF ReceiveCancel, Net, Places, Apart
<1>2. UNCHANGED others /\ UNCHANGED <<outbox, phase>> /\ Unsent' = Unsent
  BY DEF ReceiveCancel, others, sent, network, Unsent
<1>3. q \in Seq(Prompt) /\ Ids(q) = Queued \ {id} /\ Once(q) /\ id # 0
  BY <1>1, Dequeuing DEF Work, Places, Apart, Cancels, Prompt
<1>4. CASE id \in known
  <2>1. told' = told \cup {id} /\ queue' = q /\ UNCHANGED <<running, agents, known>>
    BY <1>4 DEF ReceiveCancel, Cancelled
  <2>2. Queued' = Queued \ {id} /\ Once(queue)'
    BY <1>3, <2>1 DEF Queued, Once, Ids
  <2> HIDE DEF id, q, F
  <2>3. Wires' /\ Held' /\ Apart'
    BY <1>1, <1>2, <2>1, <2>2 DEF Places, Wires, Held, Apart, others
  <2>4. Fresh' /\ Unknown' /\ Elsewhere'
    BY <1>1, <1>2, <2>1, <2>2 DEF Places, Fresh, Unknown, Elsewhere, others
  <2>5. Active' \subseteq Active \ {id}
    BY <2>1, <2>2 DEF Active
  <2> QED
    BY <2>3, <2>4, <2>5 DEF Places, id
<1>5. CASE id \notin known
  <2>1. id \notin agents
    BY <1>1, <1>3, <1>5 DEF Places, Unknown
  <2>2. running \ {id} = running /\ running = agents
    BY <2>1 DEF Places, Held
  <2>3. Drain(q, running \ {id}, agents, known) /\ told' = told
    BY <1>5 DEF ReceiveCancel, Cancelled
  <2>4. /\ queue' = Rest(q, running) /\ running' = running \cup F
        /\ agents' = agents \cup F /\ known' = known \cup F
    BY <2>2, <2>3 DEF Drain, First, Rest
  <2>5. /\ F \subseteq Queued \ {id} /\ Queued' = (Queued \ {id}) \ F /\ Once(queue)'
    <3>1. /\ Once(Rest(q, running)) /\ F \subseteq Ids(q) /\ Ids(Rest(q, running)) = Ids(q) \ F
      BY <1>3, <2>4, Draining DEF Work, Places, Apart
    <3>2. Queued' = Ids(Rest(q, running)) /\ Once(queue)' = Once(Rest(q, running))
      BY <1>3, <2>4 DEF Queued, Ids, Once
    <3> QED
      BY <1>3, <2>4, <3>1, <3>2 DEF Queued
  <2>6. Cardinality(agents') <= Capacity
    BY <1>3, <2>4, Fits DEF Places, Held, Work
  <2> HIDE DEF id, q, F
  <2>7. Wires' /\ Held'
    BY <1>1, <1>2, <2>3, <2>4, <2>6 DEF Places, Wires, Held, others
  <2>8. Apart'
    BY <1>1, <1>2, <2>4, <2>5 DEF Places, Apart
  <2>9. Fresh'
    BY <1>1, <1>2, <2>4, <2>5 DEF Places, Fresh, others
  <2>10. Unknown' /\ Elsewhere'
    BY <1>1, <1>2, <2>3, <2>4, <2>5 DEF Places, Unknown, Elsewhere, others
  <2>11. Active' \subseteq Active \ {id}
    BY <2>1, <2>3, <2>4, <2>5 DEF Active
  <2> QED
    BY <2>7, <2>8, <2>9, <2>10, <2>11 DEF Places, id
<1> QED
  BY <1>4, <1>5

\* An agent ends.
LEMMA FinishPlaces ==
    ASSUME Turns, Net, Work, Places, NEW id \in agents, Finish(id)
    PROVE  Places' /\ Active' \subseteq Active \ {id}
<1> DEFINE run == running \ {id}
           F == First(queue, run)
<1>1. UNCHANGED others /\ down' = down /\ Leaves
  BY ResponseLeaves DEF Finish, others, sent, Leaves
<1>2. UNCHANGED <<Requests, Cancels>> /\ Distinct(down)' = Distinct(down)
  BY <1>1 DEF Requests, Cancels, Distinct
<1>3. Unsent' \subseteq Unsent \cup {id} /\ (id = 0 => Unsent' = Unsent)
  <2>1. CASE outbox' = outbox
    BY <2>1 DEF Unsent
  <2>2. CASE outbox' = Append(outbox, id) /\ id # 0
    <3>1. Ids(outbox') = Ids(outbox) \cup {id}
      BY <2>2, AppendOf DEF Net, Work
    <3> QED
      BY <2>2, <3>1 DEF Unsent, Ids
  <2> QED
    BY <2>1, <2>2 DEF Finish
<1>4. run \in SUBSET (Prompt \cup {0}) /\ IsFiniteSet(running) /\ run \subseteq running
  BY FiniteIds DEF Work
<1>5. Cardinality(run) <= Capacity
  <2>1. Cardinality(run) <= Cardinality(running)
    BY <1>4, FS_Subset
  <2>2. Cardinality(run) \in Nat /\ Cardinality(running) \in Nat /\ Capacity \in Nat
    BY <1>4, FiniteIds, Bounds DEF Work
  <2> QED
    BY <2>1, <2>2 DEF Places, Held
<1>6. /\ queue' = Rest(queue, run) /\ running' = run \cup F
      /\ agents' = (agents \ {id}) \cup F /\ known' = (known \ {id}) \cup F /\ told' = told \ {id}
  BY DEF Finish, Drain, First, Rest
<1>7. F \subseteq Queued /\ Queued' = Queued \ F /\ Once(queue)'
  <2>1. /\ Once(Rest(queue, run)) /\ F \subseteq Ids(queue) /\ Ids(Rest(queue, run)) = Ids(queue) \ F
    BY <1>4, <1>6, Draining DEF Work, Places, Apart
  <2>2. Queued' = Ids(Rest(queue, run)) /\ Once(queue)' = Once(Rest(queue, run))
    BY <1>4, <1>6 DEF Queued, Ids, Once
  <2> QED
    BY <1>4, <1>6, <2>1, <2>2 DEF Queued
<1>8. Cardinality(agents') <= Capacity
  <2>1. Cardinality(running') <= Capacity
    BY <1>4, <1>5, <1>6, Fits DEF Work
  <2>2. running' = agents'
    BY <1>6 DEF Places, Held
  <2> QED
    BY <2>1, <2>2
<1> HIDE DEF run, F
<1>9. Wires'
  BY <1>1 DEF Places, Wires, others, Leaves
<1>10. Held'
  <2>1. running' = agents'
    BY <1>6 DEF Places, Held, run
  <2> QED
    BY <1>1, <1>6, <1>7, <1>8, <2>1 DEF Places, Held, others
<1>11. Apart'
  <2>1. id \notin Queued /\ id \notin Requests
    BY DEF Places, Apart
  <2> QED
    BY <1>2, <1>3, <1>6, <1>7, <2>1 DEF Places, Apart
<1>12. Fresh'
  BY <1>1, <1>2, <1>3, <1>6, <1>7 DEF Places, Fresh, others, Leaves
<1>13. Unknown' /\ Elsewhere'
  BY <1>1, <1>2, <1>6, <1>7 DEF Places, Unknown, Elsewhere, others, Leaves
<1>14. Active' \subseteq Active \ {id}
  <2>1. id \notin Queued
    BY DEF Places, Apart
  <2> QED
    BY <1>6, <1>7, <2>1 DEF Active
<1> QED
  BY <1>9, <1>10, <1>11, <1>12, <1>13, <1>14 DEF Places

LEMMA FlushPlaces ==
    ASSUME Turns, Net, Work, Places, Flush
    PROVE  Places'
<1>1. UNCHANGED others /\ UNCHANGED <<down, queue, running, agents, known, told>> /\ Leaves
  BY ResponseLeaves DEF Flush, others, sent, worker, Leaves
<1>2. UNCHANGED <<Requests, Cancels, Queued>> /\ Distinct(down)' = Distinct(down)
      /\ Once(queue)' = Once(queue)
  BY <1>1 DEF Requests, Cancels, Distinct, Queued, Once
<1>3. Unsent' \subseteq Unsent
  <2>1. outbox # <<>> /\ outbox' = Tail(outbox)
    BY DEF Flush
  <2>2. Ids(outbox) = {Head(outbox)} \cup Ids(Tail(outbox))
    BY <2>1, TailOf DEF Net
  <2> QED
    BY <2>1, <2>2 DEF Unsent, Ids
<1>4. Wires' /\ Held' /\ Apart'
  BY <1>1, <1>2, <1>3 DEF Places, Wires, Held, Apart, others, Leaves
<1>5. Fresh' /\ Unknown' /\ Elsewhere'
  BY <1>1, <1>2, <1>3 DEF Places, Fresh, Unknown, Elsewhere, others, Leaves
<1> QED
  BY <1>4, <1>5 DEF Places

\* Connections break, are noticed and replaced, and both ends restart.
LEMMA ConnectionPlaces ==
    ASSUME Turns, Net, Work, Places,
           \/ Break \/ WorkerNotices \/ SocketCloses \/ HeartbeatTimeout \/ Connect
           \/ WorkerRestarts \/ ServerRestarts
    PROVE  Places'
<1>0. request \in Nat /\ (phase = "waiting" => request > 0)
  BY DEF Turns
<1>1. down' = <<>> /\ request' = request /\ captured' = captured
  BY DEF Break, WorkerNotices, SocketCloses, HeartbeatTimeout, Connect,
     WorkerRestarts, ServerRestarts, Cut, Places, Wires, sent
<1>2. Requests' = {} /\ Cancels' = {} /\ Distinct(down)'
  <2>1. Len(down') = 0 /\ 1..0 = {}
    BY <1>1, EmptySeq, LenProperties
  <2> QED
    BY <2>1 DEF Requests, Cancels, Distinct, Ids
<1>3. Leaves
  BY Rejected DEF Break, WorkerNotices, SocketCloses, HeartbeatTimeout, Connect,
     WorkerRestarts, ServerRestarts, Goto, Leaves
<1>4. CASE Break \/ ServerRestarts \/ SocketCloses \/ HeartbeatTimeout
  <2>1. UNCHANGED <<queue, running, agents, known, told, conn, outbox>> /\ link' = 0
    BY <1>4 DEF Break, ServerRestarts, SocketCloses, HeartbeatTimeout, Cut, worker, network, Places, Wires
  <2>2. UNCHANGED <<Queued, Unsent>> /\ Once(queue)' = Once(queue)
    BY <2>1 DEF Queued, Unsent, Once
  <2>3. Wires' /\ Held' /\ Apart'
    BY <1>1, <1>2, <1>3, <2>1, <2>2 DEF Places, Wires, Held, Apart, Leaves
  <2>4. Fresh' /\ Unknown' /\ Elsewhere'
    BY <1>1, <1>2, <1>3, <2>1, <2>2 DEF Places, Wires, Fresh, Unknown, Elsewhere, Leaves
  <2> QED
    BY <2>3, <2>4 DEF Places
<1>5. CASE Connect
  <2>1. /\ UNCHANGED <<queue, running, agents, known, told, outbox>> /\ conn = 0
        /\ link' = epoch + 1 /\ conn' = link' /\ sock' = link'
        /\ epoch \in Nat /\ captured \in 0..epoch
    BY <1>5 DEF Connect, worker, Net
  <2>2. UNCHANGED <<Queued, Unsent>> /\ Once(queue)' = Once(queue)
    BY <2>1 DEF Queued, Unsent, Once
  <2>3. link' # 0 /\ captured # link' /\ conn' # 0
    BY <2>1
  <2>4. Wires' /\ Held' /\ Apart'
    BY <1>1, <1>2, <1>3, <2>1, <2>2, <2>3 DEF Places, Wires, Held, Apart, Leaves
  <2>5. Fresh' /\ Unknown'
    BY <1>1, <1>2, <1>3, <2>1, <2>2, <2>3 DEF Places, Fresh, Unknown, Leaves
  <2>6. Elsewhere'
    <3>1. agents \ told \subseteq {0} /\ Queued = {}
      BY <2>1 DEF Places, Held
    <3> QED
      BY <1>0, <1>1, <1>2, <1>3, <2>1, <2>2, <3>1 DEF Elsewhere, Leaves
  <2> QED
    BY <2>4, <2>5, <2>6 DEF Places
<1>6. CASE WorkerNotices
  <2>1. /\ UNCHANGED <<running, agents, phase, sock, link, outbox>> /\ link = 0
        /\ queue' = <<>> /\ told' = told \cup known /\ known' = {} /\ conn' = 0
    BY <1>6 DEF WorkerNotices, abortActivePrompts, Places, Wires
  <2>2. Queued' = {} /\ Once(queue)' /\ Unsent' = Unsent
    <3>1. Len(queue') = 0 /\ 1..0 = {}
      BY <2>1, EmptySeq, LenProperties
    <3> QED
      BY <2>1, <3>1 DEF Queued, Once, Ids, Unsent
  <2>3. Wires' /\ Held' /\ Apart'
    BY <1>1, <1>2, <2>1, <2>2 DEF Places, Wires, Held, Apart
  <2>4. Fresh' /\ Unknown' /\ Elsewhere'
    BY <1>1, <1>2, <2>1, <2>2 DEF Places, Wires, Fresh, Unknown, Elsewhere
  <2> QED
    BY <2>3, <2>4 DEF Places
<1>7. CASE WorkerRestarts
  <2>1. /\ UNCHANGED <<phase, sock>> /\ link' = 0 /\ conn' = 0 /\ outbox' = <<>> /\ queue' = <<>>
        /\ running' = {} /\ agents' = {} /\ known' = {} /\ told' = {}
    BY <1>7 DEF WorkerRestarts, Cut
  <2>2. Queued' = {} /\ Once(queue)' /\ Unsent' = {}
    <3>1. Len(queue') = 0 /\ Len(outbox') = 0 /\ 1..0 = {}
      BY <2>1, EmptySeq, LenProperties
    <3> QED
      BY <3>1 DEF Queued, Once, Ids, Unsent
  <2>3. Cardinality({}) <= Capacity
    BY FS_EmptySet, Bounds
  <2>4. Wires' /\ Held' /\ Apart'
    BY <1>1, <1>2, <2>1, <2>2, <2>3 DEF Places, Wires, Held, Apart
  <2>5. Fresh' /\ Unknown' /\ Elsewhere'
    BY <1>1, <1>2, <2>1, <2>2 DEF Places, Fresh, Unknown, Elsewhere
  <2> QED
    BY <2>4, <2>5 DEF Places
<1> QED
  BY <1>4, <1>5, <1>6, <1>7

\* The steps of the server that touch nothing of this.
Elsewise ==
    \/ BeginTurn \/ Expire \/ ReadSession \/ SavePending \/ Bind \/ GiveUp \/ Prepare \/ Retry
    \/ SaveAnswer \/ Conclude \/ Save \/ Release \/ Throw \/ RelayReturns \/ UNCHANGED vars

LEMMA ElsewiseLeaves ==
    ASSUME Elsewise
    PROVE  /\ UNCHANGED <<queue, running, agents, known, told, outbox, down>> /\ UNCHANGED others
           /\ Leaves /\ (phase = "waiting" => phase' = "waiting")
  BY DEF Elsewise, BeginTurn, Expire, ReadSession, SavePending, Bind, GiveUp, Prepare, Retry,
     SaveAnswer, Conclude, ConcludeIf, Save, Release, Throw, RelayReturns, Goto, Leaves, others,
     worker, network, sent, vars

LEMMA LateLeaves ==
    ASSUME NEW s, LateClose(s)
    PROVE  /\ UNCHANGED <<queue, running, agents, known, told, outbox, down>> /\ UNCHANGED others
           /\ Leaves
           /\ phase' = phase \/ (phase = "waiting" /\ phase' = "rejected")
<1>1. phase' = phase \/ (phase = "waiting" /\ phase' = "rejected")
  BY Rejected DEF LateClose
<1> QED
  BY <1>1 DEF LateClose, Leaves, others, worker, sent

LEMMA StopEffect ==
    ASSUME Turns, LocalStop \/ RelayStop
    PROVE  /\ UNCHANGED <<queue, running, agents, known, told, outbox>> /\ UNCHANGED others
           /\ \/ phase' = phase /\ down' = down
              \/ /\ phase = "waiting" /\ phase' = "rejected"
                 /\ SendOn(captured, CancelOf(request))
<1>1. UNCHANGED <<queue, running, agents, known, told, outbox>> /\ UNCHANGED others
  BY DEF LocalStop, RelayStop, worker, network, others, sent
<1>2. stopTaskChatExecution
  BY DEF LocalStop, RelayStop
<1> QED
  BY <1>1, <1>2, Stopped DEF Turns, CancelOf

LEMMA PlacesStep ==
    ASSUME Turns, Numbers, Net, Work, Places, [Next]_vars
    PROVE  Places'
<1>1. CASE LocalStop \/ RelayStop
  BY <1>1, StopEffect, ServerPlaces DEF Leaves
<1>2. CASE Elsewise
  BY <1>2, ElsewiseLeaves, ServerPlaces
<1>3. CASE \E s \in closing : LateClose(s)
  BY <1>3, LateLeaves, ServerPlaces
<1> QED
  BY <1>1, <1>2, <1>3, CapturePlaces, SendPlaces, RequestPlaces, CancelPlaces, FinishPlaces,
     FlushPlaces, ConnectionPlaces
  DEF Next, ServerStep, Stop, Worker, Connection, ServerNotices, Elsewise

LEMMA PlacesInit == Init => Places
<1> SUFFICES ASSUME Init PROVE Places
  OBVIOUS
<1>1. Len(<<>>) = 0 /\ 1..0 = {} /\ queue = <<>> /\ down = <<>> /\ outbox = <<>>
  BY EmptySeq, LenProperties DEF Init
<1>2. Queued = {} /\ Unsent = {} /\ Requests = {} /\ Cancels = {} /\ Once(queue) /\ Distinct(down)
  BY <1>1 DEF Queued, Unsent, Requests, Cancels, Ids, Once, Distinct
<1>3. Cardinality(agents) <= Capacity
  <2>1. agents \in {{}, {0}} /\ Cardinality({}) = 0 /\ Cardinality({0}) = 1
    BY FS_EmptySet, FS_Singleton DEF Init
  <2> QED
    BY <2>1, Bounds
<1>4. agents \subseteq {0} /\ running = agents /\ known = {} /\ request = 0
      /\ link = 1 /\ conn = 1 /\ sock = 1 /\ phase = "none"
  BY DEF Init
<1>5. Wires /\ Held /\ Apart
  BY <1>1, <1>2, <1>3, <1>4 DEF Wires, Held, Apart
<1>6. Fresh /\ Unknown /\ Elsewhere
  BY <1>2, <1>4 DEF Fresh, Unknown, Elsewhere
<1> QED
  BY <1>5, <1>6 DEF Places

LEMMA PlacesHold == Spec => []Places
<1>1. Types /\ Places /\ [Next]_vars => Places'
  BY PlacesStep DEF Types
<1> QED
  BY <1>1, PlacesInit, TypesHold, PTL DEF Spec

\* The worker never has more agents than its concurrency, with prompts of
\* earlier connections that it was told to stop and with those that it was not:
\* a cancelled one keeps its place until its process has ended, and a prompt that
\* the worker does not know has none.
THEOREM CapacityCorrect == Spec => []WithinCapacity
<1>1. Places => WithinCapacity
  BY DEF Places, Held, WithinCapacity
<1> QED
  BY <1>1, PlacesHold, PTL
-----------------------------------------------------------------------------
(***************************************************************************)
(* Nobody works in vain.                                                   *)
(***************************************************************************)
\* What the server waits for, or gave up in error.
Owed(id) == Pending(id) \/ id \in stray

\* The worker works at what is waited for, or will hear of its cancellation.
Served == \A id \in Active \ {0} : Owed(id) \/ conn # link \/ id \in Cancels

\* The same of a prompt that is under way: its cancellation comes after it.
Wanted ==
    \A i \in 1..Len(down) :
        down[i].type = "request" => Owed(down[i].id) \/ Followed(down, i)

\* It forgets none of its errors.
Kept == stray \subseteq stray'

\* Owed in the next state.
Awaited(id) == (phase' = "waiting" /\ request' = id) \/ id \in stray'

\* Only the wait for a prompt that is neither at work nor under way ends.
LEMMA WantedKept ==
    ASSUME Net, Wanted, Kept, NEW x, x \notin Requests, UNCHANGED <<down, request>>,
           phase' = phase \/ Pending(x)
    PROVE  Wanted'
<1> SUFFICES ASSUME NEW i \in 1..Len(down), down[i].type = "request"
             PROVE  Owed(down[i].id)' \/ Followed(down', i)
  BY DEF Wanted, Followed
<1>1. down[i] \in Message /\ down[i] \in Ids(down)
  BY ElementOfSeq DEF Net, Ids
<1>2. down[i].id \in Requests
  BY <1>1, Kind DEF Requests
<1>3. Owed(down[i].id) \/ Followed(down, i)
  BY DEF Wanted
<1>4. Owed(down[i].id) => Owed(down[i].id)'
  BY <1>2 DEF Owed, Pending, Kept
<1> QED
  BY <1>3, <1>4

LEMMA WantedTail ==
    ASSUME Net, Wanted, Kept, down # <<>>, down' = Tail(down), request' = request,
           NEW x, \A i \in 1..Len(Tail(down)) : Tail(down)[i].type = "request" =>
                    Tail(down)[i].id # x,
           phase' = phase \/ Pending(x)
    PROVE  Wanted'
<1>1. /\ Len(down) \in Nat /\ Len(Tail(down)) = Len(down) - 1
      /\ \A i \in 1..(Len(down) - 1) : Tail(down)[i] = down[i + 1]
  BY TailOf DEF Net
<1> SUFFICES ASSUME NEW i \in 1..Len(Tail(down)), Tail(down)[i].type = "request"
             PROVE  Awaited(Tail(down)[i].id) \/ Followed(Tail(down), i)
  BY DEF Wanted, Followed, Owed, Pending, Awaited
<1>2. i + 1 \in 1..Len(down) /\ Tail(down)[i] = down[i + 1] /\ i \in Nat
  BY <1>1
<1>3. CASE Owed(down[i + 1].id)
  BY <1>2, <1>3 DEF Owed, Pending, Awaited, Kept
<1>4. CASE Followed(down, i + 1)
  <2>1. PICK j \in (i + 1 + 1)..Len(down) : down[j] = CancelOf(down[i + 1].id)
    BY <1>4 DEF Followed
  <2>2. j - 1 \in (i + 1)..Len(Tail(down)) /\ Tail(down)[j - 1] = down[j]
    <3>1. j - 1 \in 1..(Len(down) - 1) /\ (j - 1) + 1 = j
      BY <1>1, <1>2, <2>1
    <3>2. Tail(down)[j - 1] = down[j]
      BY <1>1, <3>1
    <3> QED
      BY <1>1, <1>2, <2>1, <3>2
  <2> QED
    BY <1>2, <2>1, <2>2 DEF Followed
<1> QED
  BY <1>2, <1>3, <1>4 DEF Wanted

LEMMA WantedAppended ==
    ASSUME Net, Wanted, Kept, NEW m \in Message, down' = Append(down, m),
           \A id : Owed(id) => Awaited(id) \/ m = CancelOf(id),
           m.type = "request" => Awaited(m.id)
    PROVE  Wanted'
<1>1. /\ Len(down) \in Nat /\ Len(down') = Len(down) + 1
      /\ \A i \in 1..Len(down) : down'[i] = down[i]
      /\ down'[Len(down) + 1] = m
  BY AppendOf DEF Net
<1> SUFFICES ASSUME NEW i \in 1..Len(down'), down'[i].type = "request"
             PROVE  Awaited(down'[i].id) \/ Followed(down', i)
  BY DEF Wanted, Followed, Owed, Pending, Awaited
<1>2. CASE i = Len(down) + 1
  BY <1>1, <1>2
<1>3. CASE i \in 1..Len(down)
  <2>1. down'[i] = down[i] /\ i \in Nat
    BY <1>1, <1>3
  <2>2. Owed(down[i].id) \/ Followed(down, i)
    BY <1>3, <2>1 DEF Wanted
  <2>3. CASE Followed(down, i)
    <3>1. PICK j \in (i + 1)..Len(down) : down[j] = CancelOf(down[i].id)
      BY <2>3 DEF Followed
    <3>2. j \in 1..Len(down) /\ j \in (i + 1)..Len(down')
      BY <1>1, <2>1, <3>1
    <3> QED
      BY <1>1, <2>1, <3>1, <3>2 DEF Followed
  <2>4. CASE m = CancelOf(down[i].id)
    <3>1. Len(down) + 1 \in (i + 1)..Len(down')
      BY <1>1, <1>3, <2>1
    <3> QED
      BY <1>1, <2>1, <2>4, <3>1 DEF Followed
  <2> QED
    BY <2>1, <2>2, <2>3, <2>4
<1> QED
  BY <1>1, <1>2, <1>3

LEMMA ActiveTypes ==
    ASSUME Net, Work, Places
    PROVE  /\ Active \cap Requests = {} /\ Active \cap Unsent = {} /\ Active \subseteq Prompt \cup {0}
           /\ conn = 0 => Active \subseteq {0}
<1>1. Active \subseteq Seen
  BY DEF Active, Seen
<1> QED
  BY <1>1, SeenTypes DEF Active, Places, Apart, Held

LEMMA SendServes ==
    ASSUME Turns, Numbers, Net, Work, Places, Served, Wanted, Kept, Send
    PROVE  Served' /\ Wanted'
<1>0. /\ UNCHANGED <<queue, agents, told, link, conn>>
      /\ phase = "registering" /\ phase' = "waiting" /\ request' = request
  BY DEF Send, Goto, worker, network
<1>1. request \in Prompt
  BY <1>0, LastPrompt DEF Turns
<1>2. down' = Append(down, RequestOf(request)) \/ down' = down
  BY DEF Send, SendOn, RequestOf
<1>3. Active' = Active /\ Cancels' = Cancels
  <2>1. Active' = Active
    BY <1>0 DEF Active, Queued
  <2>2. CASE down' = down
    BY <2>1, <2>2 DEF Cancels
  <2> QED
    BY <1>1, <1>2, <2>1, <2>2, Requested DEF Net
<1>4. Served'
  BY <1>0, <1>3 DEF Served, Owed, Pending, Kept
<1>5. CASE down' = down
  <2>1. \A id : Owed(id) => Owed(id)'
    BY <1>0 DEF Owed, Pending, Kept
  <2> QED
    BY <1>4, <1>5, <2>1 DEF Wanted, Followed
<1>6. CASE down' = Append(down, RequestOf(request))
  <2>1. RequestOf(request) \in Message /\ RequestOf(request).id = request
    BY <1>1 DEF RequestOf, Message
  <2>2. Awaited(request) /\ \A id : Owed(id) => id \in stray'
    BY <1>0 DEF Awaited, Owed, Pending, Kept
  <2> QED
    BY <1>4, <1>6, <2>1, <2>2, WantedAppended DEF Awaited
<1> QED
  BY <1>2, <1>4, <1>5, <1>6

\* A prompt that the server rejects is cancelled, or nobody has it.
LEMMA RejectServes ==
    ASSUME Turns, Numbers, Net, Work, Places, Served, Wanted, Kept,
           UNCHANGED <<queue, agents, told>>, UNCHANGED others,
           \/ phase' = phase /\ down' = down
           \/ phase = "waiting" /\ phase' = "rejected" /\ SendOn(captured, CancelOf(request))
           \/ /\ phase = "waiting" /\ phase' = "rejected" /\ down' = down
              /\ captured # link \/ request \in stray'
    PROVE  Served' /\ Wanted'
<1>0. Active' = Active
  BY DEF Active, Queued
<1>1. CASE phase' = phase /\ down' = down
  BY <1>0, <1>1 DEF Served, Wanted, Owed, Pending, Followed, Cancels, others, Kept
<1>2. CASE /\ phase = "waiting" /\ phase' = "rejected" /\ captured = link
           /\ down' = Append(down, CancelOf(request))
  <2>1. request \in Prompt
    BY <1>2, LastPrompt DEF Turns
  <2>2. Cancels' = Cancels \cup {request}
    BY <1>2, <2>1, Cancelling DEF Net
  <2>3. Served'
    BY <1>0, <1>2, <2>2 DEF Served, Owed, Pending, others, Kept
  <2>4. CancelOf(request) \in Message /\ CancelOf(request).type # "request"
    BY <2>1 DEF CancelOf, Message
  <2>5. \A id : Owed(id) => Awaited(id) \/ CancelOf(request) = CancelOf(id)
    BY DEF Owed, Pending, Awaited, Kept
  <2> QED
    BY <1>2, <2>3, <2>4, <2>5, WantedAppended
<1>3. CASE phase = "waiting" /\ phase' = "rejected" /\ captured # link /\ down' = down
  <2>0. Cancels' = Cancels /\ conn' = conn /\ link' = link /\ request' = request
    BY <1>3 DEF Cancels, others
  <2>1. CASE link # 0
    <3>1. request \notin Active /\ request \notin Requests /\ Pending(request)
      BY <1>3, <2>1 DEF Places, Elsewhere, Active, Pending
    <3>2. Wanted'
      BY <1>3, <2>0, <3>1, WantedKept
    <3>3. \A id \in Active : Owed(id) => id \in stray'
      BY <3>1 DEF Owed, Pending, Kept
    <3>4. Served'
      BY <1>0, <2>0, <3>3 DEF Served, Owed
    <3> QED
      BY <3>2, <3>4
  <2>2. CASE link = 0
    <3>1. Wanted'
      <4>1. Len(down') = 0 /\ 1..0 = {}
        BY <1>3, <2>2, EmptySeq, LenProperties DEF Places, Wires
      <4> QED
        BY <4>1 DEF Wanted
    <3>2. Served'
      BY <1>0, <2>0, <2>2, ActiveTypes DEF Served
    <3> QED
      BY <3>1, <3>2
  <2> QED
    BY <2>1, <2>2
<1>4. CASE /\ phase = "waiting" /\ phase' = "rejected" /\ down' = down /\ request \in stray'
  <2>1. UNCHANGED <<Cancels, conn, link, request>>
    BY <1>4 DEF Cancels, others
  <2>2. \A id : Owed(id) => Owed(id)'
    BY <1>4, <2>1 DEF Owed, Pending, Kept
  <2> QED
    BY <1>0, <1>4, <2>1, <2>2 DEF Served, Wanted, Followed
<1> QED
  BY <1>1, <1>2, <1>3, <1>4 DEF SendOn, Places, Wires

LEMMA RequestServes ==
    ASSUME Turns, Net, Work, Places, Served, Wanted, Kept, ReceiveRequest
    PROVE  Served' /\ Wanted'
<1> DEFINE id == Head(down).id
<1>1. /\ id \in Requests /\ Cancels' = Cancels /\ Head(down) = RequestOf(id)
  BY RequestTaken DEF ReceiveRequest, Net, Places, Apart
<1>2. /\ down # <<>> /\ down' = Tail(down) /\ UNCHANGED <<conn, link, request>>
      /\ Head(down).type = "request"
  BY DEF ReceiveRequest, Receive, sent, network
<1>3. /\ Len(down) \in Nat /\ Len(down) > 0 /\ Head(down) = down[1] /\ Len(Tail(down)) = Len(down) - 1
      /\ Tail(down) \in Seq(Message)
      /\ \A i \in 1..(Len(down) - 1) : Tail(down)[i] = down[i + 1]
  BY <1>2, TailOf DEF Net
<1>4. \/ Respond(id) /\ Active' = Active
      \/ phase' = phase /\ Active' \subseteq Active \cup {id}
  BY RequestPlaces
<1>5. \A i \in 1..Len(Tail(down)) : Tail(down)[i].type = "request" => Tail(down)[i].id # id
  <2> SUFFICES ASSUME NEW i \in 1..Len(Tail(down)), Tail(down)[i].type = "request",
                      Tail(down)[i].id = id
               PROVE  FALSE
    OBVIOUS
  <2>1. Tail(down)[i] \in Message /\ Tail(down)[i] \in Ids(Tail(down))
    BY <1>3, ElementOfSeq DEF Ids
  <2>2. Tail(down)[i] = Head(down)
    BY <1>1, <2>1, Kind
  <2> QED
    BY <1>2, <2>1, <2>2, DistinctTail DEF Net, Places, Apart
<1>6. phase' = phase \/ Pending(id)
  BY <1>4, ResponseLeaves
<1>7. Wanted'
  BY <1>2, <1>5, <1>6, WantedTail
<1>8. Owed(id) \/ id \in Cancels
  <2>1. Owed(down[1].id) \/ Followed(down, 1)
    BY <1>2, <1>3 DEF Wanted
  <2>2. CASE Followed(down, 1)
    <3>1. PICK j \in 2..Len(down) : down[j] = CancelOf(id)
      BY <1>3, <2>2 DEF Followed
    <3>2. j \in 1..Len(down)
      BY <1>3
    <3> QED
      BY <1>1, <3>1, <3>2 DEF Cancels, Ids, Requests
  <2> QED
    BY <1>3, <2>1, <2>2
<1>9. id \notin Active
  BY <1>1, ActiveTypes
<1> HIDE DEF id
<1>10. CASE phase' = phase /\ Active' \subseteq Active \cup {id}
  <2> SUFFICES ASSUME NEW y \in Active', y # 0
               PROVE  Awaited(y) \/ conn' # link' \/ y \in Cancels'
    BY <1>7 DEF Served, Owed, Pending, Awaited
  <2>1. Owed(y) \/ conn # link \/ y \in Cancels
    BY <1>8, <1>10 DEF Served
  <2> QED
    BY <1>1, <1>2, <1>10, <2>1 DEF Owed, Pending, Awaited, Kept
<1>11. CASE Respond(id) /\ Active' = Active
  <2>1. \A x \in Active : Owed(x) => Owed(x)'
    BY <1>2, <1>6, <1>9 DEF Owed, Pending, Kept
  <2> QED
    BY <1>1, <1>2, <1>7, <1>11, <2>1 DEF Served
<1> QED
  BY <1>4, <1>7, <1>10, <1>11

LEMMA CancelServes ==
    ASSUME Turns, Net, Work, Places, Served, Wanted, Kept, ReceiveCancel
    PROVE  Served' /\ Wanted'
<1> DEFINE id == Head(down).id
<1>1. Cancels = Cancels' \cup {id}
  BY CancelTaken DEF ReceiveCancel, Net, Places, Apart
<1>2. /\ down # <<>> /\ down' = Tail(down) /\ UNCHANGED <<conn, link, request, phase>>
  BY DEF ReceiveCancel, Receive, sent, network
<1>3. Active' \subseteq Active \ {id}
  BY CancelPlaces
<1>4. Wanted'
  <2>1. /\ Len(down) \in Nat /\ Tail(down) \in Seq(Message)
    BY <1>2, TailOf DEF Net
  <2>2. \A i \in 1..Len(Tail(down)) : Tail(down)[i].id # 0
    <3>1. \A i \in 1..Len(Tail(down)) : Tail(down)[i] \in Message
      BY <2>1, ElementOfSeq
    <3> QED
      BY <3>1, Kind DEF Prompt
  <2> QED
    BY <1>2, <2>2, WantedTail
<1> HIDE DEF id
<1>5. Served'
  BY <1>1, <1>2, <1>3 DEF Served, Owed, Pending, Kept
<1> QED
  BY <1>4, <1>5

\* The response of an agent, or one that was kept.
LEMMA ResponseServes ==
    ASSUME Net, Work, Places, Served, Wanted, Kept, NEW x, x \notin Requests, x \notin Active',
           UNCHANGED <<down, request, conn, link>>, Active' \subseteq Active,
           Respond(x) \/ phase' = phase
    PROVE  Served' /\ Wanted'
<1>1. phase' = phase \/ Pending(x)
  BY ResponseLeaves
<1>2. Wanted'
  BY <1>1, WantedKept
<1>3. Cancels' = Cancels
  BY DEF Cancels
<1>4. \A id \in Active' : Owed(id) => Owed(id)'
  BY <1>1 DEF Owed, Pending, Kept
<1>5. Served'
  BY <1>3, <1>4 DEF Served
<1> QED
  BY <1>2, <1>5

LEMMA ConnectionServes ==
    ASSUME Turns, Net, Work, Places, Places', Served, Wanted, Kept, Net', Work',
           \/ Break \/ WorkerNotices \/ SocketCloses \/ HeartbeatTimeout \/ Connect
           \/ WorkerRestarts \/ ServerRestarts
    PROVE  Served' /\ Wanted'
<1>1. down' = <<>>
  BY DEF Break, WorkerNotices, SocketCloses, HeartbeatTimeout, Connect,
     WorkerRestarts, ServerRestarts, Cut, Places, Wires
<1>2. Wanted'
  <2>1. Len(down') = 0 /\ 1..0 = {}
    BY <1>1, EmptySeq, LenProperties
  <2> QED
    BY <2>1 DEF Wanted
<1>3. CASE conn' = 0
  <2>1. Active' \subseteq {0}
    BY <1>3 DEF Places, Held, Active
  <2> QED
    BY <1>2, <2>1 DEF Served
<1>4. CASE Connect
  <2>1. Active \subseteq {0} /\ Active' = Active
    BY <1>4, ActiveTypes DEF Connect, worker, Active, Queued
  <2> QED
    BY <1>2, <2>1 DEF Served
<1>5. CASE conn' # link'
  BY <1>2, <1>5 DEF Served
<1>6. conn' = 0 \/ Connect \/ conn' # link'
  BY DEF Break, WorkerNotices, SocketCloses, HeartbeatTimeout, Connect,
     WorkerRestarts, ServerRestarts, Cut, Places, Wires, network
<1> QED
  BY <1>3, <1>4, <1>5, <1>6

LEMMA ServedStep ==
    ASSUME Types, Types', Places, Places', Served, Wanted, [Next]_vars
    PROVE  Served' /\ Wanted'
<1> USE DEF Types
<1>0. Kept
  BY StraysFrame DEF Kept
<1>1. CASE Send
  BY <1>0, <1>1, SendServes
<1>2. CASE Capture
  <2>1. /\ UNCHANGED <<down, queue, agents, told, conn, link>>
        /\ phase = "ready" /\ phase' # "waiting"
    BY <1>2 DEF Capture, Goto, worker, network
  <2>2. UNCHANGED <<Active, Cancels>>
    BY <2>1 DEF Active, Queued, Cancels
  <2>3. \A id : Owed(id) => Owed(id)'
    BY <1>0, <2>1 DEF Owed, Pending, Kept
  <2>4. Served'
    BY <2>1, <2>2, <2>3 DEF Served
  <2> QED
    BY <2>1, <2>3, <2>4 DEF Wanted, Followed
<1>3. CASE LocalStop \/ RelayStop
  <2>1. /\ UNCHANGED <<queue, agents, told>> /\ UNCHANGED others
        /\ \/ phase' = phase /\ down' = down
           \/ phase = "waiting" /\ phase' = "rejected" /\ SendOn(captured, CancelOf(request))
    BY <1>3, StopEffect
  <2> QED
    BY <1>0, <2>1, RejectServes
<1>4. CASE Elsewise
  <2>1. /\ UNCHANGED <<queue, agents, told, down>> /\ UNCHANGED others
        /\ (phase = "waiting" => phase' = "waiting")
    BY <1>4, ElsewiseLeaves
  <2>2. UNCHANGED <<Active, Cancels, conn, link, request>>
    BY <2>1 DEF Active, Queued, Cancels, others
  <2>3. \A id : Owed(id) => Owed(id)'
    BY <1>0, <2>1, <2>2 DEF Owed, Pending, Kept
  <2>4. Served'
    BY <2>2, <2>3 DEF Served
  <2>5. Wanted'
    BY <2>1, <2>2, <2>3 DEF Wanted, Followed
  <2> QED
    BY <2>4, <2>5
<1>5. CASE ReceiveRequest
  BY <1>0, <1>5, RequestServes
<1>6. CASE ReceiveCancel
  BY <1>0, <1>6, CancelServes
<1>7. ASSUME NEW id \in agents, Finish(id)
      PROVE  Served' /\ Wanted'
  <2>1. id \notin Requests /\ Active' \subseteq Active \ {id}
    BY <1>7, FinishPlaces DEF Places, Apart
  <2>2. UNCHANGED <<down, request, conn, link>> /\ (Respond(id) \/ phase' = phase)
    BY <1>7 DEF Finish, sent
  <2> QED
    BY <1>0, <2>1, <2>2, ResponseServes
<1>8. CASE Flush
  <2>1. UNCHANGED <<down, request, conn, link>> /\ (Respond(Head(outbox)) \/ phase' = phase)
        /\ Active' = Active /\ outbox # <<>>
    BY <1>8 DEF Flush, sent, worker, Active, Queued
  <2>2. Head(outbox) \in Unsent
    <3>1. Ids(outbox) = {Head(outbox)} \cup Ids(Tail(outbox))
      BY <2>1, TailOf DEF Net
    <3> QED
      BY <3>1 DEF Unsent
  <2>3. Head(outbox) \notin Requests /\ Head(outbox) \notin Active
    BY <2>2, ActiveTypes DEF Places, Apart
  <2> QED
    BY <1>0, <2>1, <2>3, ResponseServes
<1>9. CASE \/ Break \/ WorkerNotices \/ SocketCloses \/ HeartbeatTimeout \/ Connect
           \/ WorkerRestarts \/ ServerRestarts
  BY <1>0, <1>9, ConnectionServes
<1>10. CASE \E s \in closing : LateClose(s)
  <2>1. /\ UNCHANGED <<queue, agents, told, down>> /\ UNCHANGED others
        /\ phase' = phase \/ (phase = "waiting" /\ phase' = "rejected")
    BY <1>10, LateLeaves
  <2>2. phase = "waiting" /\ captured = sock => request \in stray'
    BY <1>10 DEF LateClose
  <2>3. phase = "waiting" /\ captured # sock => captured # link
    BY DEF Places, Wires
  <2> QED
    BY <1>0, <2>1, <2>2, <2>3, RejectServes
<1> QED
  BY <1>1, <1>2, <1>3, <1>4, <1>5, <1>6, <1>7, <1>8, <1>9, <1>10
  DEF Next, ServerStep, Stop, Worker, Connection, ServerNotices, Elsewise

LEMMA ServedHold == Spec => [](Served /\ Wanted)
<1>1. Init => Served /\ Wanted
  <2> SUFFICES ASSUME Init PROVE Served /\ Wanted
    OBVIOUS
  <2>1. Len(down) = 0 /\ Len(queue) = 0 /\ 1..0 = {} /\ agents \subseteq {0}
    BY EmptySeq, LenProperties DEF Init
  <2> QED
    BY <2>1 DEF Served, Wanted, Active, Queued, Ids
<1>2. Types /\ Types' /\ Places /\ Places' /\ (Served /\ Wanted) /\ [Next]_vars
        => (Served /\ Wanted)'
  BY ServedStep
<1> QED
  BY <1>1, <1>2, TypesHold, PlacesHold, PTL DEF Spec

\* No agent works, and no prompt is queued, for a turn that does not wait for
\* it, unless the worker has been told, is about to be, or has yet to notice that
\* it is disconnected: requestAgentPrompt, its abort handler, onClose of its own
\* socket and
\* createPromptQueue keep it together over lost connections and restarts.
THEOREM OrphansCorrect == Spec => []NoOrphans
<1>1. Types /\ Served => NoOrphans
  <2> SUFFICES ASSUME Types, Served,
                      NEW id \in (agents \ (told \cup {0})) \cup {queue[i] : i \in 1..Len(queue)}
               PROVE  \/ Pending(id) \/ id \in stray
                      \/ conn # link
                      \/ \E i \in 1..Len(down) : down[i] = [type |-> "cancel", id |-> id]
    BY DEF NoOrphans
  <2>1. \A i \in 1..Len(queue) : queue[i] \in Prompt
    BY ElementOfSeq DEF Types, Work
  <2>2. id \in Active /\ id # 0
    BY <2>1 DEF Active, Queued, Ids, Prompt
  <2>3. id \in Cancels => \E i \in 1..Len(down) : down[i] = [type |-> "cancel", id |-> id]
    BY DEF Cancels, Ids, CancelOf
  <2> QED
    BY <2>2, <2>3 DEF Served, Owed
<1> QED
  BY <1>1, TypesHold, ServedHold, PTL
=============================================================================
