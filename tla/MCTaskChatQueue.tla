-------------------------- MODULE MCTaskChatQueue --------------------------
(***************************************************************************)
(* TaskChatQueue for TLC.  The messages are 1 and 2, in the order of their *)
(* creation; a cfg file chooses which of them share a dedupe key.          *)
(***************************************************************************)
EXTENDS TaskChatQueue

CONSTANTS n1, n2, k1

NoKeys   == [i \in Item |-> NoKey]
SameKeys == [i \in Item |-> k1]
=============================================================================
