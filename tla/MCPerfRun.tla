------------------------------ MODULE MCPerfRun ------------------------------
(* PerfRun on two ports; the bounds are in the .cfg files. *)
EXTENDS PerfRun
=============================================================================
