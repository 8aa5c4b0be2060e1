--------------------------- MODULE NdrSearchProofs ---------------------------
(***************************************************************************)
(* TLAPS proofs about the NDR search for every grid of rates, window, cap  *)
(* and half-width.                                                         *)
(***************************************************************************)
EXTENDS NdrSearch, WellFoundedInduction, TLAPS

\* The probe at 100% has failed.
Probed == first = [pct |-> Full, pass |-> FALSE]

\* Every measurement that passed is at most lo, every one that failed at least hi.
Separated(lo, hi) ==
    \A run \in RunResult :
        Measured(run) => IF run.pass THEN run.pct <= lo ELSE run.pct >= hi

\* The inductive invariant: beside TypeOK and what BracketSound says inside the
\* loop, it records what the probe and the window's lower edge established.
\* Without the clauses on optLo and optHi neither the ceiling of the bracket
\* optBinarySearch hands to search, nor the separation of the runs that it
\* measured at the edges, can be derived.
IInv ==
    /\ TypeOK
    /\ pc \in {"optLo", "optHi", "loop"} => Probed
    /\ pc \in {"optLo", "optHi"} => low <= high
    /\ pc \in {"discover", "probe", "optLo"} => iterations = <<>>
    /\ pc = "optHi" => /\ loRun.pass /\ loRun.pct = low /\ Measured(loRun)
                      /\ Separated(low, Full)
    /\ pc = "loop" => Separated(low, high)
    /\ BracketSound
    /\ pc = "done" => FloorMeasured /\ Separated(best, best)

\* clampPct, as optBinarySearch uses it, returns a rate and preserves order.
LEMMA ClampIsRate == ASSUME NEW v \in Int PROVE clampPct(v) \in Rates
BY SearchAssumption DEF clampPct, Max2, Min2, Rates

\* Clamping the two edges of a window keeps the lower edge below the upper one.
LEMMA ClampMonotone ==
    ASSUME NEW v \in Int, NEW w \in Int, v <= w
    PROVE  clampPct(v) <= clampPct(w)
BY SearchAssumption DEF clampPct, Max2, Min2

\* Either rounding of a midpoint stays inside the bracket it halves.
LEMMA MidpointInside ==
    ASSUME NEW l \in Rates, NEW h \in Rates, l <= h, NEW mid \in Midpoints(l, h)
    PROVE  mid \in Rates /\ l <= mid /\ mid <= h
BY SearchAssumption DEF Midpoints, Rates

\* A measurement is a RunResult of the rate that was asked for.
LEMMA RunIsResult ==
    ASSUME TypeOK, NEW pct \in Rates, NEW run \in perfRun(pct)
    PROVE  run \in RunResult /\ run.pct = pct /\ run.pass \in BOOLEAN
           /\ run = [pct |-> pct, pass |-> run.pass]
<1>0. Verdicts(pct) \subseteq BOOLEAN
  <2>1. CASE pct = 0 BY <2>1, Zenon DEF Verdicts
  <2>2. CASE pct # 0 /\ noisy BY <2>2, Zenon DEF Verdicts
  <2>3. CASE pct # 0 /\ ~noisy
    <3>1. (pct <= threshold) \in BOOLEAN BY DEF TypeOK, Rates
    <3> QED BY <2>3, <3>1, Zenon DEF Verdicts
  <2> QED BY <2>1, <2>2, <2>3
<1>1. PICK p \in BOOLEAN : run = [pct |-> pct, pass |-> p]
  BY <1>0, Zenon DEF perfRun
<1> QED BY <1>1 DEF RunResult

\* Appending to Results.Iterations forgets no measurement and adds only the new one.
LEMMA AppendMeasured ==
    ASSUME TypeOK, NEW run \in RunResult, iterations' = Append(iterations, run),
           first' = first
    PROVE  /\ iterations' \in Seq(RunResult)
           /\ \A r : Measured(r)' <=> (Measured(r) \/ r = run)
<1>1. /\ iterations' \in Seq(RunResult)
      /\ Len(iterations') = Len(iterations) + 1
      /\ Len(iterations) \in Nat
      /\ iterations'[Len(iterations) + 1] = run
      /\ \A k \in 1 .. Len(iterations) : iterations'[k] = iterations[k]
  BY DEF TypeOK
<1>2. ASSUME NEW r, Measured(r) \/ r = run PROVE Measured(r)'
  BY <1>1, <1>2 DEF Measured
<1>3. ASSUME NEW r, Measured(r)' PROVE Measured(r) \/ r = run
  <2>1. CASE r = first BY <2>1 DEF Measured
  <2>2. CASE r # first
    <3>1. PICK k \in 1 .. Len(iterations') : iterations'[k] = r
      BY <1>3, <2>2 DEF Measured
    <3>2. k \in 1 .. Len(iterations) \/ k = Len(iterations) + 1
      BY <1>1, <3>1
    <3> QED BY <1>1, <3>1, <3>2 DEF Measured
  <2> QED BY <2>1, <2>2
<1> QED BY <1>1, <1>2, <1>3

\* The same facts when no measurement is made.
LEMMA KeepMeasured ==
    ASSUME first' = first, iterations' = iterations
    PROVE  \A r : Measured(r)' <=> Measured(r)
BY DEF Measured

\* With no measurement but a failed probe, only the probe was measured.
LEMMA OnlyProbeMeasured ==
    ASSUME iterations = <<>>
    PROVE  \A r : Measured(r) <=> r = first
BY DEF Measured

\* Find starts in the inductive invariant: nothing was measured yet.
THEOREM InitInv == Init => IInv
<1> SUFFICES ASSUME Init PROVE IInv OBVIOUS
<1>1. TypeOK
  BY SearchAssumption DEF Init, TypeOK, Rates, RunResult, NoRun
<1> QED BY <1>1 DEF Init, IInv, BracketSound

\* Every call of search by Find or optBinarySearch starts from the invariant.
LEMMA BinarySearchInv ==
    ASSUME NEW l \in Rates, NEW h \in Rates, NEW run \in RunResult,
           l <= h, BinarySearch(l, h, l, run),
           first' \in RunResult, loRun' \in RunResult,
           iterations' \in Seq(RunResult), UNCHANGED fixed, TypeOK,
           Probed',
           (l = 0 /\ run = NoRun) \/ (run.pass /\ run.pct = l /\ Measured(run)'),
           Measured([pct |-> h, pass |-> FALSE])',
           Separated(l, h)'
    PROVE  IInv'
<1> USE DEF BinarySearch
<1>1. TypeOK'
  BY DEF TypeOK, fixed
<1>2. BracketSound'
  <2>1. FloorMeasured'
    BY DEF FloorMeasured, Measured, NoRun
  <2>2. CeilingMeasured'
    BY DEF CeilingMeasured, Measured
  <2> QED BY <2>1, <2>2 DEF BracketSound, Rates
<1>3. Separated(low, high)'
  BY DEF Separated, Measured
<1> QED BY <1>1, <1>2, <1>3 DEF IInv

\* Every step of Find, of the window's edges and of the bisection keeps it.
THEOREM StepInv == IInv /\ [Next]_vars => IInv'
<1> SUFFICES ASSUME IInv, [Next]_vars PROVE IInv' OBVIOUS
<1> USE SearchAssumption
<1>0. TypeOK /\ 0 \in Rates /\ Full \in Rates /\ NoRun \in RunResult
  BY DEF IInv, Rates, RunResult, NoRun
<1>1. CASE Discover
  <2>1. TypeOK' BY <1>0, <1>1 DEF Discover, TypeOK, fixed
  <2> QED BY <1>1, <2>1 DEF Discover, IInv, BracketSound
<1>2. CASE Probe
  <2>0. iterations = <<>> /\ iterations' = iterations /\ UNCHANGED <<loRun, fixed>>
    BY <1>2 DEF Probe, IInv
  <2>1. PICK run \in perfRun(Full) :
        /\ first' = run
        /\ \/ /\ run.pass
              /\ pc' = "done"
              /\ best' = Full /\ bestRun' = run
              /\ UNCHANGED <<low, high, i>>
           \/ /\ ~run.pass /\ cfg.optBinSearch
              /\ \E drop \in Rates : OptWindow(drop)
           \/ /\ ~run.pass /\ ~cfg.optBinSearch
              /\ BinarySearch(0, Full, 0, NoRun)
    BY <1>2 DEF Probe
  <2>2. /\ run \in RunResult /\ run.pct = Full
        /\ run = [pct |-> Full, pass |-> run.pass]
    BY <1>0, RunIsResult
  <2>3. \A r : Measured(r)' <=> r = run
    BY <2>0, <2>1, OnlyProbeMeasured DEF Measured
  <2>4. CASE run.pass /\ pc' = "done" /\ best' = Full /\ bestRun' = run
             /\ UNCHANGED <<low, high, i>>
    <3>1. TypeOK' BY <1>0, <2>0, <2>1, <2>2, <2>4 DEF TypeOK, fixed
    <3>2. FloorMeasured' BY <2>2, <2>3, <2>4 DEF FloorMeasured, Measured
    <3>3. Separated(best, best)'
      <4>1. \A r \in RunResult : Measured(r)' => r.pass /\ r.pct <= Full
        BY <2>2, <2>3, <2>4 DEF Rates
      <4> QED BY <2>4, <4>1 DEF Separated
    <3> QED BY <2>4, <3>1, <3>2, <3>3 DEF IInv, BracketSound
  <2>5. ASSUME ~run.pass, NEW drop \in Rates, OptWindow(drop) PROVE IInv'
    <3>0. cfg.optPercent \in Nat BY <1>0 DEF TypeOK, Config
    <3>1. /\ (Full - drop) - cfg.optPercent \in Int
          /\ (Full - drop) + cfg.optPercent \in Int
          /\ (Full - drop) - cfg.optPercent <= (Full - drop) + cfg.optPercent
      BY <3>0 DEF Rates
    <3>2. low' \in Rates /\ high' \in Rates
      BY <2>5, <3>1, ClampIsRate DEF OptWindow
    <3>3. low' <= high'
      BY <2>5, <3>1, ClampMonotone DEF OptWindow
    <3>4. TypeOK' BY <1>0, <2>0, <2>1, <2>2, <2>5, <3>2 DEF OptWindow, TypeOK, fixed
    <3>5. Probed'
      <4>1. run.pass = FALSE BY <1>0, <2>5, RunIsResult
      <4> QED BY <2>1, <2>2, <4>1 DEF Probed
    <3> QED BY <2>0, <2>5, <3>3, <3>4, <3>5 DEF OptWindow, IInv, BracketSound
  <2>6. CASE ~run.pass /\ BinarySearch(0, Full, 0, NoRun)
    <3>1. run = [pct |-> Full, pass |-> FALSE]
      <4>1. run.pass = FALSE BY <1>0, <2>6, RunIsResult
      <4> QED BY <2>2, <4>1
    <3>2. Probed' /\ Measured([pct |-> Full, pass |-> FALSE])'
      BY <2>1, <2>3, <3>1 DEF Probed
    <3>3. Separated(0, Full)'
      BY <2>3, <3>1 DEF Separated, Measured, RunResult, Rates
    <3>4. /\ first' \in RunResult /\ loRun' \in RunResult
          /\ iterations' \in Seq(RunResult)
      BY <1>0, <2>0, <2>1, <2>2 DEF TypeOK
    <3>5. 0 <= Full BY DEF Rates
    <3> QED BY <1>0, <2>0, <2>6, <3>2, <3>3, <3>4, <3>5, BinarySearchInv
  <2> QED BY <2>1, <2>4, <2>5, <2>6
<1>a. PICK l \in Rates, h \in Rates, lr \in RunResult :
        l = low /\ h = high /\ lr = loRun
  BY <1>0 DEF TypeOK
<1>3. CASE OptLo
  <2>0. /\ Probed /\ low <= high /\ low \in Rates /\ high \in Rates
        /\ iterations = <<>> /\ UNCHANGED <<first, fixed>>
    BY <1>0, <1>3 DEF OptLo, IInv, TypeOK
  <2>1. PICK run \in perfRun(l) :
        /\ iterations' = Append(iterations, run)
        /\ loRun' = run
        /\ \/ /\ run.pass
              /\ pc' = "optHi"
              /\ UNCHANGED <<low, high, best, bestRun, i>>
           \/ /\ ~run.pass
              /\ BinarySearch(0, l, 0, NoRun)
    BY <1>a, <1>3 DEF OptLo
  <2>2. /\ run \in RunResult /\ run.pct = l /\ run.pass \in BOOLEAN
        /\ run = [pct |-> l, pass |-> run.pass]
    BY <1>0, <2>0, RunIsResult
  <2>3. /\ iterations' \in Seq(RunResult)
        /\ \A r : Measured(r)' <=> (r = first \/ r = run)
    BY <1>0, <2>0, <2>1, <2>2, AppendMeasured, OnlyProbeMeasured
  <2>4. Probed' BY <2>0 DEF Probed
  <2>5. CASE run.pass /\ pc' = "optHi" /\ UNCHANGED <<low, high, best, bestRun, i>>
    <3>1. TypeOK' BY <1>0, <2>0, <2>1, <2>2, <2>3, <2>5 DEF TypeOK, fixed
    <3>2. (loRun.pass /\ loRun.pct = low /\ Measured(loRun))'
      <4>1. Measured(run)' BY <2>3
      <4> QED BY <1>a, <2>1, <2>2, <2>5, <4>1 DEF Measured
    <3>3. Separated(low, Full)'
      <4>1. \A r \in RunResult : Measured(r)' =>
               IF r.pass THEN r.pct <= l ELSE r.pct >= Full
        BY <2>0, <2>2, <2>3, <2>5 DEF Probed, Rates
      <4> QED BY <1>a, <2>5, <4>1 DEF Separated
    <3> QED BY <2>0, <2>4, <2>5, <3>1, <3>2, <3>3 DEF IInv, BracketSound
  <2>6. CASE ~run.pass /\ BinarySearch(0, l, 0, NoRun)
    <3>1. run = [pct |-> l, pass |-> FALSE] BY <2>2, <2>6
    <3>2. Measured([pct |-> l, pass |-> FALSE])' BY <2>3, <3>1
    <3>3. Separated(0, l)'
      <4>1. \A r \in RunResult : Measured(r)' =>
               IF r.pass THEN r.pct <= 0 ELSE r.pct >= l
        BY <2>0, <2>3, <3>1 DEF Probed, Rates
      <4> QED BY <4>1 DEF Separated
    <3>4. first' \in RunResult /\ loRun' \in RunResult
      BY <1>0, <2>0, <2>1, <2>2 DEF TypeOK
    <3>5. 0 <= l BY DEF Rates
    <3> QED BY <1>0, <2>0, <2>3, <2>4, <2>6, <3>2, <3>3, <3>4, <3>5, BinarySearchInv
  <2> QED BY <2>1, <2>5, <2>6
<1>4. CASE OptHi
  <2>0. /\ Probed /\ l <= h
        /\ UNCHANGED <<first, loRun, fixed>>
        /\ lr.pass /\ lr.pct = l /\ Measured(lr)
        /\ Separated(l, Full) /\ loRun \in RunResult /\ first \in RunResult
    BY <1>0, <1>a, <1>4 DEF OptHi, IInv, TypeOK
  <2>1. PICK run \in perfRun(h) :
        /\ iterations' = Append(iterations, run)
        /\ \/ run.pass  /\ BinarySearch(h, Full, h, run)
           \/ ~run.pass /\ BinarySearch(l, h, l, lr)
    BY <1>a, <1>4 DEF OptHi
  <2>2. /\ run \in RunResult /\ run.pct = h /\ run.pass \in BOOLEAN
        /\ run = [pct |-> h, pass |-> run.pass]
    BY <1>0, <2>0, RunIsResult
  <2>3. /\ iterations' \in Seq(RunResult)
        /\ \A r : Measured(r)' <=> (Measured(r) \/ r = run)
    BY <1>0, <2>0, <2>1, <2>2, AppendMeasured
  <2>4. Probed' BY <2>0 DEF Probed
  <2>5. CASE run.pass /\ BinarySearch(h, Full, h, run)
    <3>1. Measured([pct |-> Full, pass |-> FALSE])' /\ Measured(run)'
      <4>1. Measured([pct |-> Full, pass |-> FALSE]) BY <2>0 DEF Probed, Measured
      <4> QED BY <2>3, <4>1
    <3>2. Separated(h, Full)'
      <4>1. \A r \in RunResult : Measured(r) =>
               IF r.pass THEN r.pct <= l ELSE r.pct >= Full
        BY <2>0 DEF Separated
      <4>2. \A r \in RunResult : Measured(r)' =>
               IF r.pass THEN r.pct <= h ELSE r.pct >= Full
        BY <2>0, <2>2, <2>3, <2>5, <4>1 DEF RunResult, Rates
      <4> QED BY <4>2 DEF Separated
    <3>3. h <= Full BY DEF Rates
    <3> QED BY <1>0, <2>0, <2>2, <2>3, <2>4, <2>5, <3>1, <3>2, <3>3, BinarySearchInv
  <2>6. CASE ~run.pass /\ BinarySearch(l, h, l, lr)
    <3>1. run = [pct |-> h, pass |-> FALSE] BY <2>2, <2>6
    <3>2. Measured([pct |-> h, pass |-> FALSE])' /\ Measured(lr)'
      <4>1. Measured(lr)' BY <2>0, <2>3
      <4> QED BY <2>3, <3>1, <4>1
    <3>3. Separated(l, h)'
      <4>1. \A r \in RunResult : Measured(r) =>
               IF r.pass THEN r.pct <= l ELSE r.pct >= Full
        BY <2>0 DEF Separated
      <4>2. \A r \in RunResult : Measured(r)' =>
               IF r.pass THEN r.pct <= l ELSE r.pct >= h
        BY <2>0, <2>3, <3>1, <4>1 DEF RunResult, Rates
      <4> QED BY <4>2 DEF Separated
    <3> QED BY <1>0, <2>0, <2>3, <2>4, <2>6, <3>2, <3>3, BinarySearchInv
  <2> QED BY <2>1, <2>5, <2>6
<1>5. CASE Bisect
  <2>0. /\ pc = "loop" /\ pc' = "loop" /\ Probed /\ l <= h /\ best = l
        /\ UNCHANGED <<first, loRun, fixed>> /\ i' = i + 1
        /\ FloorMeasured /\ CeilingMeasured /\ Separated(l, h)
    BY <1>a, <1>5 DEF Bisect, IInv, BracketSound
  <2>a. PICK mid \in Midpoints(l, h) : \E run \in perfRun(mid) :
        /\ iterations' = Append(iterations, run)
        /\ \/ /\ run.pass
              /\ low' = mid
              /\ best' = mid /\ bestRun' = run
              /\ UNCHANGED high
           \/ /\ ~run.pass
              /\ high' = mid
              /\ UNCHANGED <<low, best, bestRun>>
    BY <1>a, <1>5 DEF Bisect
  <2>1. PICK run \in perfRun(mid) :
        /\ iterations' = Append(iterations, run)
        /\ \/ /\ run.pass
              /\ low' = mid
              /\ best' = mid /\ bestRun' = run
              /\ UNCHANGED high
           \/ /\ ~run.pass
              /\ high' = mid
              /\ UNCHANGED <<low, best, bestRun>>
    BY <2>a
  <2>2. mid \in Rates /\ l <= mid /\ mid <= h
    BY <2>0, MidpointInside
  <2>3. /\ run \in RunResult /\ run.pct = mid /\ run.pass \in BOOLEAN
        /\ run = [pct |-> mid, pass |-> run.pass]
    BY <1>0, <2>2, RunIsResult
  <2>4. /\ iterations' \in Seq(RunResult)
        /\ \A r : Measured(r)' <=> (Measured(r) \/ r = run)
    BY <1>0, <2>0, <2>1, <2>3, AppendMeasured
  <2>5. TypeOK'
    BY <1>0, <2>0, <2>1, <2>2, <2>3, <2>4 DEF TypeOK, fixed
  <2>6. Probed' BY <2>0 DEF Probed
  <2>7. \A r \in RunResult : Measured(r) =>
           IF r.pass THEN r.pct <= l ELSE r.pct >= h
    BY <2>0 DEF Separated
  <2>8. CASE run.pass /\ low' = mid /\ best' = mid /\ bestRun' = run /\ UNCHANGED high
    <3>1. FloorMeasured'
      <4>1. Measured(run)' BY <2>4
      <4> QED BY <2>3, <2>8, <4>1 DEF FloorMeasured, Measured
    <3>2. CeilingMeasured'
      <4>1. Measured([pct |-> h, pass |-> FALSE])'
        BY <1>a, <2>0, <2>4 DEF CeilingMeasured
      <4> QED BY <1>a, <2>8, <4>1 DEF CeilingMeasured, Measured
    <3>3. Separated(low, high)'
      <4>1. \A r \in RunResult : Measured(r)' =>
               IF r.pass THEN r.pct <= mid ELSE r.pct >= h
        <5> SUFFICES ASSUME NEW r \in RunResult, Measured(r)'
                     PROVE  IF r.pass THEN r.pct <= mid ELSE r.pct >= h
          OBVIOUS
        <5>0. r.pct \in Rates BY DEF RunResult
        <5>1. CASE r = run BY <2>2, <2>3, <2>8, <5>1 DEF Rates
        <5>2. CASE Measured(r) BY <2>2, <2>7, <5>0, <5>2 DEF Rates
        <5> QED BY <2>4, <5>1, <5>2
      <4> QED BY <1>a, <2>8, <4>1 DEF Separated
    <3> QED BY <1>a, <2>0, <2>2, <2>5, <2>6, <2>8, <3>1, <3>2, <3>3
            DEF IInv, BracketSound
  <2>9. CASE ~run.pass /\ high' = mid /\ UNCHANGED <<low, best, bestRun>>
    <3>0. run = [pct |-> mid, pass |-> FALSE] BY <2>3, <2>9
    <3>1. FloorMeasured'
      <4>1. \A r : Measured(r) => Measured(r)' BY <2>4
      <4> QED BY <2>0, <2>9, <4>1 DEF FloorMeasured, Measured
    <3>2. CeilingMeasured'
      <4>1. Measured([pct |-> mid, pass |-> FALSE])' BY <2>4, <3>0
      <4> QED BY <2>9, <4>1 DEF CeilingMeasured, Measured
    <3>3. Separated(low, high)'
      <4>1. \A r \in RunResult : Measured(r)' =>
               IF r.pass THEN r.pct <= l ELSE r.pct >= mid
        BY <2>2, <2>4, <2>7, <3>0 DEF RunResult, Rates
      <4> QED BY <1>a, <2>9, <4>1 DEF Separated
    <3> QED BY <1>a, <2>0, <2>2, <2>5, <2>6, <2>9, <3>1, <3>2, <3>3
            DEF IInv, BracketSound
  <2> QED BY <2>1, <2>8, <2>9
<1>6. CASE LoopExit
  <2>1. TypeOK' BY <1>0, <1>6 DEF LoopExit, TypeOK, fixed
  <2>2. /\ FloorMeasured' /\ l <= h /\ best' = l
        /\ \A r : Measured(r)' <=> Measured(r)
    BY <1>a, <1>6, KeepMeasured
       DEF LoopExit, IInv, BracketSound, FloorMeasured, Measured
  <2>3. Separated(best, best)'
    <3>1. \A r \in RunResult : Measured(r)' =>
             IF r.pass THEN r.pct <= l ELSE r.pct >= h
      BY <1>a, <1>6, <2>2 DEF LoopExit, IInv, Separated
    <3>2. \A r \in RunResult : Measured(r)' =>
             IF r.pass THEN r.pct <= l ELSE r.pct >= l
      BY <2>2, <3>1 DEF RunResult, Rates
    <3> QED BY <2>2, <3>2 DEF Separated
  <2> QED BY <1>6, <2>1, <2>2, <2>3 DEF LoopExit, IInv, BracketSound
<1>7. CASE MeasureError
  <2>1. TypeOK' BY <1>0, <1>7 DEF MeasureError, TypeOK, fixed
  <2> QED BY <1>7, <2>1 DEF MeasureError, IInv, BracketSound
<1>8. CASE UNCHANGED vars
  BY <1>8 DEF vars, fixed, IInv, TypeOK, Probed, Separated, BracketSound,
      FloorMeasured, CeilingMeasured, Measured
<1>9. CASE Finished BY <1>8, <1>9 DEF Finished
<1> QED BY <1>1, <1>2, <1>3, <1>4, <1>5, <1>6, <1>7, <1>8, <1>9 DEF Next

\* The invariant implies what the search promises when it returns.
LEMMA InvReports == IInv => ReportSeparates
<1> SUFFICES ASSUME IInv, pc = "done" PROVE
        /\ FloorMeasured
        /\ \A run \in RunResult :
              Measured(run) => IF run.pass THEN run.pct <= best
                                           ELSE run.pct >= best
  BY DEF ReportSeparates
<1> QED BY DEF IInv, Separated

\* Every reachable state of the search satisfies the inductive invariant.
THEOREM SearchInvariant == Spec => []IInv
<1> QED BY InitInv, StepInv, PTL DEF Spec

\* Rates never leave 0..100% and every variable keeps its type (clampPct and
\* the midpoint of search), for every window, cap and half-width.
THEOREM SearchTypeCorrect == Spec => []TypeOK
<1>1. IInv => TypeOK BY DEF IInv
<1> QED BY <1>1, SearchInvariant, PTL

\* Every bracket that Find and optBinarySearch hand to search, and every one
\* search narrows it to, has a floor that passed and a ceiling that failed.
THEOREM SearchBracketSound == Spec => []BracketSound
<1>1. IInv => BracketSound BY DEF IInv
<1> QED BY <1>1, SearchInvariant, PTL

\* The reported rate is 0 or a measured pass, no run passed above it and none
\* failed below it, for every device and however noisy its verdicts are.
THEOREM SearchReportSeparates == Spec => []ReportSeparates
<1> QED BY SearchInvariant, InvReports, PTL

\* No step of search widens the bracket or lowers the floor.
THEOREM SearchBracketShrinks == Spec => BracketShrinks
<1>1. IInv /\ [Next]_vars =>
        [pc = "loop" => low' >= low /\ high' <= high /\ best' >= best]_vars
  <2> SUFFICES ASSUME IInv, Next, pc = "loop"
               PROVE  low' >= low /\ high' <= high /\ best' >= best
    BY DEF vars
  <2>0. /\ low \in Rates /\ high \in Rates /\ best \in Rates
        /\ low <= high /\ best = low
    BY DEF IInv, TypeOK, BracketSound
  <2>1. CASE Bisect
    <3>1. PICK mid \in Midpoints(low, high) :
             \/ low' = mid /\ best' = mid /\ UNCHANGED high
             \/ high' = mid /\ UNCHANGED <<low, best>>
      BY <2>1 DEF Bisect
    <3>2. mid \in Rates /\ low <= mid /\ mid <= high BY <2>0, MidpointInside
    <3> QED BY <2>0, <3>1, <3>2, SearchAssumption DEF Rates
  <2>2. CASE UNCHANGED <<low, high, best>>
    BY <2>0, <2>2, SearchAssumption DEF Rates
  <2> QED BY <2>1, <2>2 DEF Next, Discover, Probe, OptLo, OptHi, LoopExit,
                            MeasureError, Finished, vars
<1> QED BY <1>1, SearchInvariant, PTL DEF Spec, BracketShrinks

-----------------------------------------------------------------------------
(* Powers of two *)

\* A set of natural numbers has a least one: what is shown with it for a least
\* counterexample is shown by induction.
LEMMA LeastNumber ==
    ASSUME NEW T, T \subseteq Nat, T # {} PROVE \E x \in T : \A y \in T : x <= y
<1>1. IsWellFoundedOn(OpToRel(<, Nat), Nat) BY NatLessThanWellFounded
<1>2. PICK x \in T : \A y \in T : ~(<<y, x>> \in OpToRel(<, Nat)) BY <1>1, WFMin
<1>3. \A y \in T : ~(y < x) BY <1>2 DEF OpToRel
<1> QED BY <1>3

\* The recursion of pow2 up to m.
IsPow(g, m) == g = [n \in 0 .. m |-> IF n = 0 THEN 1 ELSE 2 * g[n - 1]]

\* It has a solution for every m.
LEMMA PowExists == \A m \in Nat : \E g : IsPow(g, m)
<1> DEFINE T == {m \in Nat : ~ \E g : IsPow(g, m)}
<1> SUFFICES ASSUME T # {} PROVE FALSE OBVIOUS
<1>1. PICK x \in T : \A y \in T : x <= y BY LeastNumber
<1>2. CASE x = 0
  <2> DEFINE g == [n \in 0 .. 0 |-> 1]
  <2>1. IsPow(g, 0) BY DEF IsPow
  <2> QED BY <1>2, <2>1
<1>3. CASE x # 0
  <2>1. x \in Nat /\ x - 1 \in Nat /\ x - 1 \notin T BY <1>1, <1>3
  <2>2. PICK g : IsPow(g, x - 1) BY <2>1
  <2> DEFINE f == [n \in 0 .. x |-> IF n = x THEN 2 * g[x - 1] ELSE g[n]]
  <2>3. \A n \in 0 .. x - 1 : g[n] = IF n = 0 THEN 1 ELSE 2 * g[n - 1]
    BY <2>2 DEF IsPow
  <2>4. \A n \in 0 .. x : f[n] = IF n = 0 THEN 1 ELSE 2 * f[n - 1]
    <3> SUFFICES ASSUME NEW n \in 0 .. x PROVE f[n] = IF n = 0 THEN 1 ELSE 2 * f[n - 1]
      OBVIOUS
    <3>1. CASE n = 0 BY <1>3, <2>1, <2>3, <3>1
    <3>2. CASE n = x
      <4>1. f[n] = 2 * g[x - 1] /\ f[x - 1] = g[x - 1] BY <2>1, <3>2
      <4> QED BY <1>3, <3>2, <4>1
    <3>3. CASE n # 0 /\ n # x
      <4>1. n \in 0 .. x - 1 /\ n - 1 \in 0 .. x /\ n - 1 # x BY <2>1, <3>3
      <4>2. f[n] = g[n] /\ f[n - 1] = g[n - 1] BY <3>3, <4>1
      <4> QED BY <2>3, <3>3, <4>1, <4>2
    <3> QED BY <3>1, <3>2, <3>3
  <2>5. IsPow(f, x) BY <2>4 DEF IsPow
  <2> QED BY <2>5
<1> QED BY <1>2, <1>3

\* Two solutions agree where both are defined.
LEMMA PowUnique ==
    ASSUME NEW m \in Nat, NEW k \in Nat, NEW f, NEW g, IsPow(f, m), IsPow(g, k), m <= k
    PROVE  \A n \in 0 .. m : f[n] = g[n]
<1> DEFINE T == {n \in Nat : n <= m /\ f[n] # g[n]}
<1> SUFFICES ASSUME T # {} PROVE FALSE OBVIOUS
<1>1. PICK x \in T : \A y \in T : x <= y BY LeastNumber
<1>2. /\ \A n \in 0 .. m : f[n] = IF n = 0 THEN 1 ELSE 2 * f[n - 1]
      /\ \A n \in 0 .. k : g[n] = IF n = 0 THEN 1 ELSE 2 * g[n - 1]
  BY DEF IsPow
<1>3. x \in Nat /\ x \in 0 .. m /\ x \in 0 .. k BY <1>1
<1>4. x # 0 BY <1>1, <1>2, <1>3
<1>5. x - 1 \in Nat /\ x - 1 <= m /\ x - 1 \notin T BY <1>1, <1>3, <1>4
<1>6. f[x - 1] = g[x - 1] BY <1>5
<1>7. f[x] = g[x] BY <1>2, <1>3, <1>4, <1>6
<1> QED BY <1>1, <1>7

\* So pow2 satisfies the equation that defines it.
LEMMA PowDef == pow2 = [n \in Nat |-> IF n = 0 THEN 1 ELSE 2 * pow2[n - 1]]
<1> DEFINE sol(m) == CHOOSE g : IsPow(g, m)
           p == [n \in Nat |-> sol(n)[n]]
<1>1. \A m \in Nat : IsPow(sol(m), m) BY PowExists
<1> HIDE DEF sol
<1>2. ASSUME NEW n \in Nat PROVE p[n] = IF n = 0 THEN 1 ELSE 2 * p[n - 1]
  <2>1. IsPow(sol(n), n) /\ p[n] = sol(n)[n] BY <1>1
  <2>2. sol(n)[n] = IF n = 0 THEN 1 ELSE 2 * sol(n)[n - 1] BY <2>1 DEF IsPow
  <2>3. CASE n = 0 BY <2>1, <2>2, <2>3
  <2>4. CASE n # 0
    <3>1. n - 1 \in Nat /\ n - 1 \in 0 .. n - 1 /\ n - 1 <= n BY <2>4
    <3>2. IsPow(sol(n - 1), n - 1) /\ p[n - 1] = sol(n - 1)[n - 1] BY <1>1, <3>1
    <3>3. sol(n - 1)[n - 1] = sol(n)[n - 1] BY <2>1, <3>1, <3>2, PowUnique
    <3> QED BY <2>1, <2>2, <2>4, <3>2, <3>3
  <2> QED BY <2>3, <2>4
<1>3. p = [n \in Nat |-> IF n = 0 THEN 1 ELSE 2 * p[n - 1]] BY <1>2
<1> HIDE DEF p
<1>4. \E g : g = [n \in Nat |-> IF n = 0 THEN 1 ELSE 2 * g[n - 1]] BY <1>3
<1> QED BY <1>4 DEF pow2

\* Its first value, its step, and its type.
LEMMA PowFacts ==
    /\ pow2[0] = 1 /\ \A n \in Nat \ {0} : pow2[n] = 2 * pow2[n - 1]
    /\ \A n \in Nat : pow2[n] \in Nat
<1>1. \A n \in Nat : pow2[n] = IF n = 0 THEN 1 ELSE 2 * pow2[n - 1] BY PowDef
<1>2. \A n \in Nat : pow2[n] \in Nat
  <2> DEFINE T == {n \in Nat : pow2[n] \notin Nat}
  <2> SUFFICES ASSUME T # {} PROVE FALSE OBVIOUS
  <2>1. PICK x \in T : \A y \in T : x <= y BY LeastNumber
  <2>2. x # 0 BY <1>1, <2>1
  <2>3. x - 1 \in Nat /\ x - 1 \notin T BY <2>1, <2>2
  <2>4. pow2[x] = 2 * pow2[x - 1] /\ pow2[x - 1] \in Nat BY <1>1, <2>1, <2>2, <2>3
  <2> QED BY <2>1, <2>4
<1> QED BY <1>1, <1>2

-----------------------------------------------------------------------------
(* The accuracy of the report *)

\* The iteration cap leaves room to bisect 0..Full down to the window.
Room == /\ cfg.pdrError >= 1 /\ cfg.maxIterations >= 0
        /\ Full <= cfg.pdrError * pow2[cfg.maxIterations]

\* Of a device with a fixed no-drop rate every measurement tells the truth.
Truthful ==
    ~noisy /\ pc \in {"optLo", "optHi", "loop", "done"} =>
        \A run \in RunResult : Measured(run) => (run.pass <=> run.pct <= threshold)

\* Each turn of the loop uses up one of the halvings that remain.
Narrowed ==
    Room /\ pc = "loop" =>
        /\ i <= cfg.maxIterations
        /\ high - low <= cfg.pdrError * pow2[cfg.maxIterations - i]

\* What AccurateReport adds to the inductive invariant.
AccInv == Truthful /\ Narrowed /\ AccurateReport

\* What a device with a fixed no-drop rate reports.
LEMMA RunIsTruthful ==
    ASSUME TypeOK, ~noisy, NEW pct \in Rates, NEW run \in perfRun(pct)
    PROVE  run.pct = pct /\ (run.pass <=> run.pct <= threshold)
<1>0. threshold \in Rates /\ 0 <= threshold BY SearchAssumption DEF TypeOK, Rates
<1>1. PICK p \in Verdicts(pct) : run = [pct |-> pct, pass |-> p] BY DEF perfRun
<1>2. run.pct = pct /\ run.pass = p BY <1>1
<1>3. CASE pct = 0
  <2>1. p = TRUE BY <1>3, Zenon DEF Verdicts
  <2> QED BY <1>0, <1>2, <1>3, <2>1
<1>4. CASE pct # 0
  <2>1. p = (pct <= threshold) BY <1>4, Zenon DEF Verdicts
  <2> QED BY <1>2, <2>1
<1> QED BY <1>3, <1>4

\* A midpoint, rounded either way, halves a bracket of even size 2x.
LEMMA MidpointHalves ==
    ASSUME NEW l \in Rates, NEW h \in Rates, l <= h, NEW mid \in Midpoints(l, h),
           NEW x \in Int, h - l <= 2 * x
    PROVE  mid - l <= x /\ h - mid <= x
BY SearchAssumption DEF Midpoints, Rates

\* The window's loop starts with all of its halvings ahead.
LEMMA RoomAtStart ==
    ASSUME TypeOK, TypeOK', cfg' = cfg, pc' = "loop", i' = 0 PROVE Narrowed'
<1>0. PICK l \in Rates, h \in Rates : l = low' /\ h = high' BY DEF TypeOK
<1>1. h - l \in Int /\ Full \in Int /\ h - l <= Full
  BY SearchAssumption DEF Rates
<1>2. cfg.maxIterations - 0 = cfg.maxIterations BY DEF TypeOK, Config
<1>3. Room' => Full <= cfg.pdrError * pow2[cfg.maxIterations] /\ cfg.maxIterations >= 0
  BY DEF Room
<1>4. ASSUME Room' PROVE high' - low' <= cfg.pdrError * pow2[cfg.maxIterations]
  <2>1. cfg.pdrError \in Int /\ pow2[cfg.maxIterations] \in Nat
    BY <1>3, <1>4, PowFacts DEF TypeOK, Config
  <2> DEFINE x == cfg.pdrError * pow2[cfg.maxIterations]
  <2>2. x \in Int /\ Full <= x BY <1>3, <1>4, <2>1
  <2> HIDE DEF x
  <2>3. h - l <= x BY <1>1, <2>2
  <2> QED BY <1>0, <2>3 DEF x
<1> QED BY <1>2, <1>3, <1>4 DEF Narrowed

\* A measurement added to truthful ones.
LEMMA TruthfulAppend ==
    ASSUME TypeOK, Truthful, pc \in {"optLo", "optHi", "loop"}, UNCHANGED <<first, fixed>>,
           NEW pct \in Rates, NEW run \in perfRun(pct), iterations' = Append(iterations, run)
    PROVE  Truthful'
<1>1. run \in RunResult BY RunIsResult
<1>2. \A r : Measured(r)' <=> (Measured(r) \/ r = run) BY <1>1, AppendMeasured
<1>3. noisy' = noisy /\ threshold' = threshold BY DEF fixed
<1>4. ASSUME ~noisy PROVE run.pass <=> run.pct <= threshold BY <1>4, RunIsTruthful
<1>5. ASSUME ~noisy, NEW r \in RunResult, Measured(r)'
      PROVE  r.pass <=> r.pct <= threshold
  <2>1. CASE r = run BY <1>4, <1>5, <2>1
  <2>2. CASE Measured(r) BY <1>5, <2>2 DEF Truthful
  <2> QED BY <1>2, <1>5, <2>1, <2>2
<1> QED BY <1>3, <1>5 DEF Truthful

\* Every step keeps it.
THEOREM AccStep == IInv /\ IInv' /\ AccInv /\ [Next]_vars => AccInv'
<1> SUFFICES ASSUME IInv, IInv', AccInv, [Next]_vars PROVE AccInv' OBVIOUS
<1>0. TypeOK /\ TypeOK' BY DEF IInv
<1>1. CASE Discover
  BY <1>1 DEF Discover, AccInv, Truthful, Narrowed, AccurateReport
<1>2. CASE Probe
  <2>1. PICK run \in perfRun(Full) :
        /\ first' = run
        /\ \/ run.pass /\ pc' = "done" /\ best' = Full
           \/ ~run.pass /\ pc' = "optLo"
           \/ ~run.pass /\ pc' = "loop" /\ i' = 0
    BY <1>2 DEF Probe, OptWindow, BinarySearch
  <2>2. iterations = <<>> /\ UNCHANGED <<iterations, cfg, noisy, threshold>>
    BY <1>2 DEF Probe, IInv, fixed
  <2>3. Full \in Rates /\ Full \in Nat BY SearchAssumption DEF Rates
  <2>4. \A r : Measured(r)' <=> r = run BY <2>1, <2>2 DEF Measured
  <2>5. ~noisy => run.pct = Full /\ (run.pass <=> run.pct <= threshold)
    BY <1>0, <2>3, RunIsTruthful
  <2>6. Truthful' BY <2>2, <2>4, <2>5 DEF Truthful
  <2>7. Narrowed'
    <3>1. CASE pc' = "loop" BY <1>0, <2>1, <2>2, <3>1, RoomAtStart
    <3>2. CASE pc' # "loop" BY <3>2 DEF Narrowed
    <3> QED BY <3>1, <3>2
  <2>8. AccurateReport'
    <3> SUFFICES ASSUME pc' = "done", ~noisy' PROVE AccurateReport' BY DEF AccurateReport
    <3>1. best' = Full /\ Full <= threshold' BY <2>1, <2>2, <2>5
    <3>2. threshold' \in Rates /\ cfg' \in Config BY <1>0 DEF TypeOK
    <3>3. threshold' - best' <= 0 /\ best' <= threshold'
      <4>1. PICK t \in Rates : t = threshold' BY <3>2
      <4>2. t - Full <= 0 BY <2>3 DEF Rates
      <4> QED BY <3>1, <4>1, <4>2
    <3>4. cfg'.pdrError >= 1 => threshold' - best' <= cfg'.pdrError
      BY <2>3, <3>1, <3>2, <3>3 DEF Config, Rates
    <3> QED BY <3>3, <3>4 DEF AccurateReport
  <2> QED BY <2>6, <2>7, <2>8 DEF AccInv
<1>3. CASE OptLo \/ OptHi
  <2>1. \E pct \in Rates : \E run \in perfRun(pct) : iterations' = Append(iterations, run)
    BY <1>0, <1>3 DEF OptLo, OptHi, TypeOK
  <2>2. /\ pc \in {"optLo", "optHi"} /\ UNCHANGED <<first, fixed>>
        /\ pc' = "optHi" \/ (pc' = "loop" /\ i' = 0)
    BY <1>3 DEF OptLo, OptHi, BinarySearch
  <2>3. Truthful' BY <1>0, <2>1, <2>2, TruthfulAppend DEF AccInv
  <2>4. cfg' = cfg BY <2>2 DEF fixed
  <2>5. Narrowed'
    <3>1. CASE pc' = "loop" BY <1>0, <2>2, <2>4, <3>1, RoomAtStart
    <3>2. CASE pc' # "loop" BY <3>2 DEF Narrowed
    <3> QED BY <3>1, <3>2
  <2>6. AccurateReport' BY <2>2 DEF AccurateReport
  <2> QED BY <2>3, <2>5, <2>6 DEF AccInv
<1>4. CASE Bisect
  <2>0. /\ pc = "loop" /\ pc' = "loop" /\ i' = i + 1 /\ LoopGuard
        /\ UNCHANGED <<first, fixed>> /\ cfg' = cfg
    BY <1>4 DEF Bisect, fixed
  <2>1. /\ low \in Rates /\ high \in Rates /\ low <= high /\ i \in Nat
        /\ cfg.pdrError \in Int /\ cfg.maxIterations \in Int
    BY <1>0, <2>0 DEF IInv, BracketSound, TypeOK, Config
  <2>2. PICK mid \in Midpoints(low, high) : \E run \in perfRun(mid) :
           /\ iterations' = Append(iterations, run)
           /\ (low' = mid /\ high' = high) \/ (high' = mid /\ low' = low)
    BY <1>4 DEF Bisect
  <2>3. mid \in Rates BY <2>1, MidpointInside
  <2>4. Truthful' BY <1>0, <2>0, <2>2, <2>3, TruthfulAppend DEF AccInv
  <2>5. ASSUME Room'
        PROVE  /\ i' <= cfg'.maxIterations
               /\ high' - low' <= cfg'.pdrError * pow2[cfg'.maxIterations - i']
    <3> DEFINE n == cfg.maxIterations - i
               x == cfg.pdrError * pow2[n - 1]
    <3>1. Room BY <2>0, <2>5 DEF Room
    <3>2. i < cfg.maxIterations /\ high - low <= cfg.pdrError * pow2[n]
      BY <2>0, <3>1 DEF AccInv, Narrowed, LoopGuard
    <3>3. n \in Nat \ {0} /\ n - 1 \in Nat BY <2>1, <3>2
    <3>4. pow2[n] = 2 * pow2[n - 1] /\ pow2[n - 1] \in Nat BY <3>3, PowFacts
    <3>5. x \in Int /\ cfg.pdrError * pow2[n] = 2 * x BY <2>1, <3>4
    <3>6. high - low <= 2 * x BY <3>2, <3>5
    <3>7. mid - low <= x /\ high - mid <= x BY <2>1, <3>5, <3>6, MidpointHalves
    <3>8. high' - low' <= x BY <2>2, <3>7
    <3>9. cfg'.maxIterations - i' = n - 1 /\ i' <= cfg'.maxIterations
      BY <2>0, <2>1, <3>2
    <3> QED BY <2>0, <3>8, <3>9
  <2>6. Narrowed' BY <2>5 DEF Narrowed
  <2>7. AccurateReport' BY <2>0 DEF AccurateReport
  <2> QED BY <2>4, <2>6, <2>7 DEF AccInv
<1>5. CASE LoopExit
  <2>0. /\ pc = "loop" /\ pc' = "done" /\ ~LoopGuard
        /\ UNCHANGED <<low, high, best, i, first, iterations, cfg, noisy, threshold>>
    BY <1>5 DEF LoopExit, fixed
  <2>1. /\ low \in Rates /\ high \in Rates /\ threshold \in Rates /\ best = low /\ i \in Nat
        /\ low <= high /\ cfg.pdrError \in Int /\ cfg.maxIterations \in Int
        /\ FloorMeasured /\ CeilingMeasured /\ bestRun \in RunResult
    BY <1>0, <2>0 DEF IInv, BracketSound, TypeOK, Config
  <2>2. Truthful' BY <2>0 DEF AccInv, Truthful, Measured
  <2>3. ASSUME ~noisy
        PROVE  /\ best <= threshold
               /\ Room => threshold - best <= cfg.pdrError
    <3>1. \A run \in RunResult : Measured(run) => (run.pass <=> run.pct <= threshold)
      BY <2>0, <2>3 DEF AccInv, Truthful
    <3>2. best <= threshold
      <4>1. 0 <= threshold BY <2>1 DEF Rates
      <4> QED BY <2>1, <3>1, <4>1 DEF FloorMeasured
    <3>3. threshold < high
      <4> DEFINE top == [pct |-> high, pass |-> FALSE]
      <4>1. top \in RunResult BY <2>1, Zenon DEF RunResult
      <4>2. top.pct = high /\ ~top.pass /\ Measured(top) BY <2>1 DEF CeilingMeasured
      <4> HIDE DEF top
      <4>3. ~(high <= threshold) BY <3>1, <4>1, <4>2
      <4> QED BY <2>1, <4>3 DEF Rates
    <3>4. ASSUME Room PROVE high - low <= cfg.pdrError
      <4>1. CASE i < cfg.maxIterations BY <2>0, <2>1, <4>1, SearchAssumption DEF LoopGuard, Rates
      <4>2. CASE ~(i < cfg.maxIterations)
        <5>1. /\ i <= cfg.maxIterations
              /\ high - low <= cfg.pdrError * pow2[cfg.maxIterations - i]
          BY <2>0, <3>4 DEF AccInv, Narrowed
        <5>2. cfg.maxIterations - i = 0 BY <2>1, <4>2, <5>1
        <5> QED BY <2>1, <5>1, <5>2, PowFacts
      <4> QED BY <4>1, <4>2
    <3>5. Room => threshold - low <= cfg.pdrError
      BY <2>1, <3>3, <3>4, SearchAssumption DEF Rates
    <3> QED BY <2>1, <3>2, <3>5
  <2>4. AccurateReport' BY <2>0, <2>3 DEF AccurateReport, Room
  <2>5. Narrowed' BY <2>0 DEF Narrowed
  <2> QED BY <2>2, <2>4, <2>5 DEF AccInv
<1>6. CASE MeasureError
  BY <1>6 DEF MeasureError, AccInv, Truthful, Narrowed, AccurateReport
<1>7. CASE UNCHANGED vars
  BY <1>7 DEF vars, fixed, AccInv, Truthful, Narrowed, AccurateReport, Measured, Room
<1>8. CASE Finished BY <1>7, <1>8 DEF Finished
<1> QED BY <1>1, <1>2, <1>3, <1>4, <1>5, <1>6, <1>7, <1>8 DEF Next

\* For a device with a fixed no-drop rate Find never reports more, and is within
\* PDRError of it when the iteration cap leaves room for the halvings, whichever
\* way midpoints round and whatever window optBinarySearch tries first.
THEOREM SearchAccurate == Spec => []AccurateReport
<1>1. Init => AccInv
  BY DEF Init, AccInv, Truthful, Narrowed, AccurateReport
<1>2. AccInv => AccurateReport BY DEF AccInv
<1> QED BY <1>1, <1>2, AccStep, InitInv, StepInv, PTL DEF Spec
=============================================================================
