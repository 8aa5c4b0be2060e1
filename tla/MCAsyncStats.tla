---------------------------- MODULE MCAsyncStats -----------------------------
(* AsyncStats with small bounds; see the .cfg files. *)
EXTENDS AsyncStats
=============================================================================
