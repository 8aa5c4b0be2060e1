---------------------------- MODULE MCConnection -----------------------------
(* Connection with main, the subscriber and one status poller. *)
EXTENDS Connection
=============================================================================
