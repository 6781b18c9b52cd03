----------------------------- MODULE MCMessageQueue -----------------------------
(* MessageQueue with few threads. *)
EXTENDS MessageQueue
==============================================================================
