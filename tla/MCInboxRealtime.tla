--------------------------- MODULE MCInboxRealtime ---------------------------
(* A small instance of InboxRealtime for TLC. *)
EXTENDS InboxRealtime
===============================================================================
