--------------------------- MODULE MCChecksumSweep ---------------------------
(* Instances of ChecksumSweep for TLC: words of four bits. *)
EXTENDS ChecksumSweep
=============================================================================
