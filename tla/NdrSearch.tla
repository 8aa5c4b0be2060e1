------------------------------ MODULE NdrSearch ------------------------------
(***************************************************************************)
(* The no-drop-rate search of pkg/ndr/engine.go: Find, optBinarySearch,    *)
(* binarySearch and search.  One measurement (Engine.measure / perfRun) is *)
(* one step here; module PerfRun opens it up.                              *)
(*                                                                         *)
(* Rates are integers 0..Full: Full is 100% of line rate and one unit is   *)
(* the resolution of the rate type, so the midpoint of two adjacent rates  *)
(* rounds to one of them, as (low+high)/2 does on float64.                 *)
(*                                                                         *)
(* The device under test is arbitrary when `noisy', and otherwise passes a *)
(* run exactly when its rate is at most `threshold'.                       *)
(***************************************************************************)
EXTENDS Integers, Sequences

CONSTANTS
    Full,           \* 100% of line rate
    Configs         \* the configurations a search is run with

\* The fields of Config that search looks at: the convergence window, the
\* iteration cap, whether to seed a window from the probe and its half-width.
Config == [pdrError : Int, maxIterations : Int, optBinSearch : BOOLEAN, optPercent : Nat]

ASSUME SearchAssumption ==
    /\ Full \in Nat \ {0}
    /\ Configs \subseteq Config

VARIABLES
    pc,         \* where Find is
    low, high,  \* the bracket of search, or the window of optBinarySearch
    best,       \* Results.NDRPercent once pc = "done"
    bestRun,    \* Results.NDRRun once pc = "done"
    i,          \* the loop counter of search
    first,      \* Results.FirstRun
    iterations, \* Results.Iterations
    loRun,      \* the measurement of the window's lower edge
    cfg,        \* the engine's configuration
    noisy, threshold

fixed == <<cfg, noisy, threshold>>
vars  == <<pc, low, high, best, bestRun, i, first, iterations, loRun, fixed>>

Rates     == 0 .. Full
RunResult == [pct : Rates, pass : BOOLEAN]
NoRun     == [pct |-> 0, pass |-> FALSE]

Max2(a, b) == IF a >= b THEN a ELSE b
Min2(a, b) == IF a <= b THEN a ELSE b

ClampPctTopOnly(v) == Min2(Full, v)

clampPct(v) == Max2(0, Min2(Full, v))

\* The two roundings of (low + high) / 2; they coincide when it is exact.
Midpoints(l, h) == {(l + h) \div 2, (l + h + 1) \div 2}

\* A zero rate runs no traffic and passes.
Verdicts(pct) ==
    CASE pct = 0 -> {TRUE}
      [] pct # 0 /\ noisy -> BOOLEAN
      [] pct # 0 /\ ~noisy -> {pct <= threshold}

\* What one measurement may report.
perfRun(pct) == {[pct |-> pct, pass |-> p] : p \in Verdicts(pct)}

Init ==
    /\ pc = "discover"
    /\ low = 0 /\ high = Full
    /\ best = 0 /\ bestRun = NoRun
    /\ i = 0
    /\ first = NoRun
    /\ iterations = <<>>
    /\ loRun = NoRun
    /\ cfg \in Configs
    /\ noisy \in BOOLEAN
    /\ threshold \in Rates

-----------------------------------------------------------------------------
(* Find *)

\* GetActivePGIDs fails, or finds no group to count, or the search can start.
Discover ==
    /\ pc = "discover"
    /\ pc' \in {"probe", "failed"}
    /\ UNCHANGED <<low, high, best, bestRun, i, first, iterations, loRun, fixed>>

\* The call binarySearch(low, high, bestSeed, runSeed).
BinarySearch(l, h, seed, run) ==
    /\ pc' = "loop"
    /\ low' = l /\ high' = h
    /\ best' = seed /\ bestRun' = run
    /\ i' = 0

\* optBinarySearch's window around 100 - drop%; drop% is whatever was measured.
OptWindow(drop) ==
    /\ pc' = "optLo"
    /\ low'  = clampPct((Full - drop) - cfg.optPercent)
    /\ high' = clampPct((Full - drop) + cfg.optPercent)
    /\ UNCHANGED <<best, bestRun, i>>

\* The probe at 100%.  It is not one of Results.Iterations.
Probe ==
    /\ pc = "probe"
    /\ \E run \in perfRun(Full) :
        /\ first' = run
        /\ \/ /\ run.pass
              /\ pc' = "done"
              /\ best' = Full /\ bestRun' = run
              /\ UNCHANGED <<low, high, i>>
           \/ /\ ~run.pass /\ cfg.optBinSearch
              /\ \E drop \in Rates : OptWindow(drop)
           \/ /\ ~run.pass /\ ~cfg.optBinSearch
              /\ BinarySearch(0, Full, 0, NoRun)
    /\ UNCHANGED <<iterations, loRun, fixed>>

-----------------------------------------------------------------------------
(* optBinarySearch *)

OptLoSkipsFloor ==
    /\ pc = "optLo"
    /\ \E run \in perfRun(low) :
        /\ iterations' = Append(iterations, run)
        /\ loRun' = run
        /\ \/ /\ run.pass
              /\ pc' = "optHi"
              /\ UNCHANGED <<low, high, best, bestRun, i>>
           \/ /\ ~run.pass
              /\ BinarySearch(low, high, low, run)
    /\ UNCHANGED <<first, fixed>>

\* The lower edge of the window: when it fails the search goes below it.
OptLo ==
    /\ pc = "optLo"
    /\ \E run \in perfRun(low) :
        /\ iterations' = Append(iterations, run)
        /\ loRun' = run
        /\ \/ /\ run.pass
              /\ pc' = "optHi"
              /\ UNCHANGED <<low, high, best, bestRun, i>>
           \/ /\ ~run.pass
              /\ BinarySearch(0, low, 0, NoRun)
    /\ UNCHANGED <<first, fixed>>

OptHiKeepsLowSeed ==
    /\ pc = "optHi"
    /\ \E run \in perfRun(high) :
        /\ iterations' = Append(iterations, run)
        /\ \/ run.pass  /\ BinarySearch(high, Full, low, loRun)
           \/ ~run.pass /\ BinarySearch(low, high, low, loRun)
    /\ UNCHANGED <<first, loRun, fixed>>

\* The upper edge: when it passes the search goes above it.
OptHi ==
    /\ pc = "optHi"
    /\ \E run \in perfRun(high) :
        /\ iterations' = Append(iterations, run)
        /\ \/ run.pass  /\ BinarySearch(high, Full, high, run)
           \/ ~run.pass /\ BinarySearch(low, high, low, loRun)
    /\ UNCHANGED <<first, loRun, fixed>>

-----------------------------------------------------------------------------
(* search *)

LoopGuardHalfWidth == i < cfg.maxIterations /\ (high - low) \div 2 > cfg.pdrError

LoopGuard == i < cfg.maxIterations /\ high - low > cfg.pdrError

BisectSwapped ==
    /\ pc = "loop" /\ LoopGuard
    /\ \E mid \in Midpoints(low, high) : \E run \in perfRun(mid) :
        /\ iterations' = Append(iterations, run)
        /\ \/ /\ run.pass
              /\ high' = mid
              /\ best' = mid /\ bestRun' = run
              /\ UNCHANGED low
           \/ /\ ~run.pass
              /\ low' = mid
              /\ UNCHANGED <<high, best, bestRun>>
    /\ i' = i + 1
    /\ UNCHANGED <<pc, first, loRun, fixed>>

Bisect ==
    /\ pc = "loop" /\ LoopGuard
    /\ \E mid \in Midpoints(low, high) : \E run \in perfRun(mid) :
        /\ iterations' = Append(iterations, run)
        /\ \/ /\ run.pass
              /\ low' = mid
              /\ best' = mid /\ bestRun' = run
              /\ UNCHANGED high
           \/ /\ ~run.pass
              /\ high' = mid
              /\ UNCHANGED <<low, best, bestRun>>
    /\ i' = i + 1
    /\ UNCHANGED <<pc, first, loRun, fixed>>

\* The loop ends and Find returns best and bestRun.
LoopExit ==
    /\ pc = "loop" /\ ~LoopGuard
    /\ pc' = "done"
    /\ UNCHANGED <<low, high, best, bestRun, i, first, iterations, loRun, fixed>>

MeasureErrorRestarts ==
    /\ pc = "probe" \/ (pc = "loop" /\ LoopGuard)
    /\ pc' = "discover"
    /\ low' = 0 /\ high' = Full
    /\ best' = 0 /\ bestRun' = NoRun /\ first' = NoRun /\ loRun' = NoRun
    /\ i' = 0
    /\ iterations' = <<>>
    /\ UNCHANGED fixed

\* A measurement that runs traffic returns an error (an RPC failed, or Ctrl-C)
\* and Find returns it.
MeasureError ==
    /\ \/ pc = "probe"
       \/ pc = "optLo" /\ low > 0
       \/ pc = "optHi" /\ high > 0
       \/ pc = "loop" /\ LoopGuard /\ \E mid \in Midpoints(low, high) : mid > 0
    /\ pc' = "failed"
    /\ UNCHANGED <<low, high, best, bestRun, i, first, iterations, loRun, fixed>>

Finished == pc \in {"done", "failed"} /\ UNCHANGED vars

Next ==
    \/ Discover \/ Probe \/ OptLo \/ OptHi
    \/ Bisect \/ LoopExit \/ MeasureError \/ Finished

Spec     == Init /\ [][Next]_vars
FairSpec == Spec /\ WF_vars(Next)

-----------------------------------------------------------------------------
(* Properties *)

\* Every variable holds a value of its Go type; a rate stays within 0..100%
\* although optBinarySearch adds and subtracts the half-width (clampPct).
TypeOK ==
    /\ pc \in {"discover", "probe", "optLo", "optHi", "loop", "done", "failed"}
    /\ low \in Rates /\ high \in Rates /\ best \in Rates
    /\ bestRun \in RunResult /\ first \in RunResult /\ loRun \in RunResult
    /\ i \in Nat
    /\ iterations \in Seq(RunResult)
    /\ cfg \in Config /\ noisy \in BOOLEAN /\ threshold \in Rates

Measured(run) == run = first \/ \E k \in 1 .. Len(iterations) : iterations[k] = run

\* The floor of the bracket is a rate that was measured and passed, or 0; the
\* reported run is the very measurement of the reported rate.
FloorMeasured ==
    \/ best = 0 /\ bestRun = NoRun
    \/ bestRun.pass /\ bestRun.pct = best /\ Measured(bestRun)

\* The ceiling of the bracket is a rate that was measured and failed.
CeilingMeasured == Measured([pct |-> high, pass |-> FALSE])

\* Every call of search, whichever edge optBinarySearch widened to, starts and
\* keeps a bracket whose floor passed and whose ceiling failed.
BracketSound ==
    pc = "loop" =>
        /\ low <= high
        /\ best = low
        /\ FloorMeasured
        /\ CeilingMeasured

\* The rate Find reports separates the measurements: no run passed above it and
\* none failed below it, however inconsistent the device was between runs
\* ("returning the highest passing rate", binarySearch).
ReportSeparates ==
    pc = "done" =>
        /\ FloorMeasured
        /\ \A run \in RunResult :
              Measured(run) => IF run.pass THEN run.pct <= best
                                           ELSE run.pct >= best

\* The factor by which n halvings shrink a bracket.
pow2[n \in Nat] == IF n = 0 THEN 1 ELSE 2 * pow2[n - 1]

\* For a device with a fixed no-drop rate the report never exceeds it, and is
\* within PDRError of it whenever the iteration cap leaves room for bisection
\* to get there.
AccurateReport ==
    (pc = "done" /\ ~noisy) =>
        /\ best <= threshold
        /\ /\ cfg.pdrError >= 1 /\ cfg.maxIterations >= 0
           /\ Full <= cfg.pdrError * pow2[cfg.maxIterations]
           => threshold - best <= cfg.pdrError

\* A step of the search never widens the bracket nor lowers the floor.
BracketShrinks ==
    [][pc = "loop" => low' >= low /\ high' <= high /\ best' >= best]_vars

\* Find returns, with a result or an error, when every measurement returns.
Terminates == <>(pc \in {"done", "failed"})

=============================================================================
