----------------------------- MODULE MCNdrSearch -----------------------------
(* NdrSearch on a grid of thirteen rates, with configurations that search    *)
(* plainly and around a window, that converge, and that only their iteration *)
(* cap stops.                                                                *)
EXTENDS NdrSearch

MCConfigs ==
    {[pdrError |-> 1, maxIterations |-> 4, optBinSearch |-> FALSE, optPercent |-> 0],
     [pdrError |-> 1, maxIterations |-> 4, optBinSearch |-> TRUE,  optPercent |-> 2],
     [pdrError |-> 0, maxIterations |-> 3, optBinSearch |-> TRUE,  optPercent |-> 3]}
=============================================================================
