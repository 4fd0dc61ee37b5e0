--------------------------- MODULE MCTaskChatStop ---------------------------
(* TaskChatStop for TLC, which needs no values but those of stop.cfg. *)
EXTENDS TaskChatStop
=============================================================================
