---------------------------- MODULE SessionQueue ----------------------------
(***************************************************************************)
(* What the message queue of a chat session promises its users, without    *)
(* nodes, rows, leases, claims, mirrors and sweeps.  The session works on  *)
(* one message at a time, and takes the oldest one that waits.  A message  *)
(* that was taken is settled by the one that works on it: done, put back   *)
(* for another try, or given up when its tries are used up.  When nobody   *)
(* works on it any more it may be put back without a charge.  What has     *)
(* left the queue does not come back.                                      *)
(***************************************************************************)
EXTENDS Integers

CONSTANTS Item, WithTaskRun, MaxRetries

VARIABLES
    stage,   \* where each message is
    tries,   \* the retries each queued message was charged with
    session  \* the message that is worked on, and how far the work is

vars == <<stage, tries, session>>

Stage == {"new", "waiting", "taken", "done", "left"}
At(i, phase) == [item |-> i, phase |-> phase]

Init == /\ stage = [i \in Item |-> "new"] /\ tries = [i \in Item |-> 0]
        /\ session = {}

Enter(i) ==
    /\ stage[i] = "new" /\ stage' = [stage EXCEPT ![i] = "waiting"]
    /\ UNCHANGED <<tries, session>>

\* A duplicate is refused, or a user removes the message, also one that is being
\* worked on.
Leave(i) ==
    /\ stage[i] # "done"
    /\ stage' = [stage EXCEPT ![i] = "left"] /\ tries' = [tries EXCEPT ![i] = 0]
    /\ UNCHANGED session

\* A message may be worked on at once, and is never queued then.
SendAtOnce(i) ==
    /\ session = {} /\ stage[i] = "new"
    /\ stage' = [stage EXCEPT ![i] = "left"] /\ session' = {At(i, "running")}
    /\ UNCHANGED tries

Take(i) ==
    /\ session = {} /\ stage[i] = "waiting"
    /\ \A j \in Item : stage[j] = "waiting" => i <= j
    /\ stage' = [stage EXCEPT ![i] = "taken"] /\ session' = {At(i, "taken")}
    /\ UNCHANGED tries

\* A turn runs, or its set-up fails; it succeeds or throws.
Advance(i) ==
    /\ \E p, q \in {"taken", "running", "succeeded", "abandoned", "failed"} :
         /\ \/ p = "taken" /\ q \in {"running", "failed"}
            \/ p = "taken" /\ q = "abandoned" /\ i \in WithTaskRun
            \/ p = "running" /\ q \in {"succeeded", "failed"}
         /\ session = {At(i, p)} /\ session' = {At(i, q)}
    /\ UNCHANGED <<stage, tries>>

Settle(i, p) ==
    /\ session = {At(i, p)} /\ session' = {} /\ stage[i] = "taken"
    /\ \/ /\ p \in {"succeeded", "abandoned"}
          /\ stage' = [stage EXCEPT ![i] = "done"] /\ tries' = [tries EXCEPT ![i] = 0]
       \/ /\ p = "failed" /\ tries[i] < MaxRetries
          /\ stage' = [stage EXCEPT ![i] = "waiting"] /\ tries' = [tries EXCEPT ![i] = @ + 1]
       \/ /\ p = "failed" /\ tries[i] = MaxRetries
          /\ stage' = [stage EXCEPT ![i] = "left"] /\ tries' = [tries EXCEPT ![i] = 0]

\* The work stops: it is over for a message that has left the queue, or crashed.
Stop == session' = {} /\ UNCHANGED <<stage, tries>>

\* Messages that were taken and that nobody works on wait again.
PutBack(S) ==
    /\ \A i \in S : stage[i] = "taken" /\ \A s \in session : s.item # i
    /\ stage' = [i \in Item |-> IF i \in S THEN "waiting" ELSE stage[i]]
    /\ UNCHANGED <<tries, session>>

Next ==
    \/ \E i \in Item : Enter(i) \/ Leave(i) \/ SendAtOnce(i) \/ Take(i) \/ Advance(i)
    \/ \E i \in Item, p \in {"succeeded", "abandoned", "failed"} : Settle(i, p)
    \/ Stop \/ \E S \in SUBSET Item : PutBack(S)

Spec == Init /\ [][Next]_vars
=============================================================================
