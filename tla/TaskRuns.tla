------------------------------ MODULE TaskRuns ------------------------------
(***************************************************************************)
(* What the dispatch of a task promises, without rows, messages, leases    *)
(* and connections.  Each executor runs the task at most once at a time,   *)
(* an execution keeps the key it began with and either ends with an        *)
(* outcome or is stopped, and what is recorded as the outcome of the task  *)
(* is how one of its executions ended.                                     *)
(***************************************************************************)
CONSTANTS Executor, Key, Outcome

VARIABLES
    running,  \* the key each executor runs the task under, if it does
    ended,    \* how executions ended
    outcome   \* the recorded end, if there is one

vars == <<running, ended, outcome>>

Init == running = [e \in Executor |-> {}] /\ ended = {} /\ outcome = {}

Begin(e) ==
    /\ running[e] = {}
    /\ running'[e] \subseteq Key
    /\ \E k \in running'[e] : running' = [running EXCEPT ![e] = {k}]
    /\ UNCHANGED <<ended, outcome>>

End(e) == \E key \in running[e], status \in Outcome :
    /\ running' = [running EXCEPT ![e] = {}]
    /\ ended' = ended \cup {[at |-> e, key |-> key, status |-> status]}
    /\ UNCHANGED outcome

Stop(e) ==
    /\ running' = [running EXCEPT ![e] = {}]
    /\ UNCHANGED <<ended, outcome>>

\* The outcome is recorded, or the task is given to an executor again.
Record == /\ \E end \in ended : outcome' = {end}
          /\ UNCHANGED <<running, ended>>
Reopen == outcome' = {} /\ UNCHANGED <<running, ended>>

Next == (\E e \in Executor : Begin(e) \/ End(e) \/ Stop(e)) \/ Record \/ Reopen

Spec == Init /\ [][Next]_vars
=============================================================================
