---------------------------- MODULE PerfRunProofs ----------------------------
(***************************************************************************)
(* TLAPS proofs about one measurement, for any number of ports, ramp       *)
(* steps, measurements and packets, with a Ctrl-C, a crash of the client   *)
(* and force-acquired ports at any moment.                                 *)
(***************************************************************************)
EXTENDS PerfRun, TLAPS

Idle(p)  == Ours(p) => rate[p] = 0
AllIdle  == \A p \in Ports : Idle(p)
Counters == [tx : Nat, rx : Nat, rxErr : Nat]

\* stopAll has reached port k: the ports before it are idle.  On a broken socket
\* nothing is stopped, but then nothing was started, or no verdict is reached.
StopProgress ==
    /\ pc \in {"idle", "clean", "base", "baseQF", "finalQF"} => AllIdle
    /\ sockOpen /\ pc \in {"stop", "defer"} => \A p \in 1 .. k - 1 : Idle(p)
    /\ sockOpen /\ pc \in {"drain", "final", "returned"} => AllIdle
    /\ pc \in {"defer", "returned"} /\ result.kind = "run" => AllIdle

\* Nothing is being transmitted and nothing is under way.
Quiet == AllIdle /\ inflight = 0

\* The counters have moved since the baseline b by what was sent, less what was
\* lost and is under way.
Moved(b) ==
    /\ tx - b.tx = sent
    /\ rx - b.rx + lost + inflight = sent /\ lost + inflight <= sent
    /\ rxErr - b.rxErr = bad

\* What a verdict says of the measurement: its own packets, and a pass only if
\* the device lost no more of them than PDR allows and damaged none.
TrueVerdict ==
    /\ result.tx = sent /\ result.drop = lost /\ result.rxErr = bad
    /\ result.pass => lost * 100 <= PDR * sent /\ bad = 0

\* The accounting of a measurement nobody disturbed, by the place perfRun is at.
Accounting ==
    /\ \A p \in Ports : Ours(p)
    /\ pc \in {"idle", "clean", "base"} =>
          Quiet /\ sent = 0 /\ lost = 0 /\ bad = 0
    /\ pc \in {"baseQF", "start", "rampSleep", "update", "hold", "stop", "drain", "final"} =>
          Moved(base)
    /\ pc = "final" /\ sockOpen => Quiet
    /\ pc = "finalQF" =>
          /\ Quiet /\ final.tx - base.tx = sent /\ lost <= sent
          /\ final.rx - base.rx + lost = sent /\ final.rxErr - base.rxErr = bad
    /\ pc \in {"defer", "returned"} /\ result.kind = "run" => Quiet /\ TrueVerdict

PerfType ==
    /\ TypeOK
    /\ base \in Counters /\ final \in Counters
    /\ sent \in Nat /\ lost \in Nat /\ bad \in Nat /\ stolen \in BOOLEAN
    /\ pc = "rampSleep" => step < Steps
    /\ pc \in {"defer", "returned"} => result = Failed \/ result.kind = "run"

\* The inductive invariant.  StoppedOnReturn needs the progress of the three
\* stopAll loops and that nothing restarts a port between them; VerdictExact
\* needs that a measurement begins with an empty path, so the previous one must
\* have ended with one.
IInv == PerfType /\ StopProgress /\ (~stolen => Accounting)

-----------------------------------------------------------------------------
(* The engine *)

\* The engine starts with its ports acquired, idle and silent.
THEOREM InitInv == Init => IInv
<1> SUFFICES ASSUME Init PROVE IInv OBVIOUS
<1>1. stolen \in BOOLEAN BY Zenon DEF Init
<1>s. ctxDone \in BOOLEAN /\ sockOpen \in BOOLEAN /\ (sockOpen \/ ctxDone)
  BY Zenon DEF Init
<1>2. TypeOK
  BY <1>s, PerfRunAssumption DEF Init, TypeOK, Ports, NoStats
<1>3. PerfType
  BY <1>1, <1>2 DEF Init, PerfType, Counters, Zero
<1>4. AllIdle /\ \A p \in Ports : Ours(p)
  BY DEF Init, AllIdle, Idle, Ours
<1>5. StopProgress
  BY <1>4 DEF Init, StopProgress
<1>6. Accounting
  BY <1>4 DEF Init, Accounting, Quiet
<1> QED BY <1>3, <1>5, <1>6 DEF IInv

\* A new measurement begins where the previous one left a quiet network.
LEMMA CallInv == ASSUME IInv, Call PROVE IInv'
<1>1. /\ pc = "idle" \/ (pc = "returned" /\ result # Failed)
      /\ runs < MaxRuns /\ runs' = runs + 1
      /\ pc' = "clean" /\ k' = 1 /\ step' = 1
      /\ sent' = 0 /\ lost' = 0 /\ bad' = 0
      /\ UNCHANGED <<base, baseQF, final, ctxDone, sockOpen, rate, owner, stolen, tx, rx,
                     rxErr, qf, inflight, storeQF>>
  BY DEF Call, ctx, ports
<1>2. PerfType'
  BY <1>1, PerfRunAssumption DEF IInv, PerfType, TypeOK, Ports
<1>3. StopProgress'
  <2>1. AllIdle BY <1>1 DEF IInv, PerfType, StopProgress
  <2>2. AllIdle' BY <1>1, <2>1 DEF AllIdle, Idle, Ours
  <2> QED BY <1>1, <2>2 DEF StopProgress
<1>4. ASSUME ~stolen' PROVE Accounting'
  <2>1. ~stolen /\ Accounting BY <1>1, <1>4 DEF IInv
  <2>2. Quiet
    BY <1>1, <2>1 DEF IInv, PerfType, Accounting
  <2>3. Quiet' /\ \A p \in Ports : Ours(p)'
    BY <1>1, <2>1, <2>2 DEF Quiet, AllIdle, Idle, Ours, Accounting
  <2> QED BY <1>1, <2>3 DEF Accounting
<1> QED BY <1>2, <1>3, <1>4 DEF IInv

\* One Stop: on an open socket the port is idle if it is ours, and the others
\* keep their rate.
LEMMA StopPortIdle ==
    ASSUME IInv, NEW p \in Ports, StopPort(p), owner' = owner
    PROVE  /\ rate' \in [Ports -> 0 .. Steps] /\ (sockOpen => Idle(p)')
           /\ \A q \in Ports : Idle(q) => Idle(q)'
<1>1. rate \in [Ports -> 0 .. Steps] /\ 0 \in 0 .. Steps
  BY PerfRunAssumption DEF IInv, PerfType, TypeOK
<1>2. CASE Accepted(p)
  <2>1. rate' = [rate EXCEPT ![p] = 0] BY <1>2 DEF StopPort
  <2> QED BY <1>1, <2>1 DEF Idle, Ours
<1>3. CASE ~Accepted(p)
  <2>1. rate' = rate BY <1>3 DEF StopPort
  <2> QED BY <1>1, <1>3, <2>1 DEF Idle, Ours, Accepted
<1> QED BY <1>2, <1>3

\* The last Stop of a loop leaves every port of ours idle.
LEMMA StopAllInv == ASSUME IInv, stopAll PROVE IInv'
<1>1. /\ pc \in {"clean", "stop", "defer"} /\ StopPort(k)
      /\ \/ k < NPorts /\ k' = k + 1 /\ pc' = pc
         \/ ~(k < NPorts) /\ k' = 1 /\ pc' = AfterStop(pc)
      /\ UNCHANGED <<step, base, baseQF, final, result, runs, ctxDone, sockOpen, owner,
                     stolen, net, storeQF>>
  BY DEF stopAll, ctx
<1>t. k \in Ports /\ NPorts \in Nat /\ 1 \in Ports
  BY PerfRunAssumption DEF IInv, PerfType, TypeOK, Ports
<1>j. PICK j \in Ports : j = k BY <1>t
<1>2. /\ rate' \in [Ports -> 0 .. Steps] /\ (sockOpen => Idle(j)')
      /\ \A q \in Ports : Idle(q) => Idle(q)'
  BY <1>1, <1>j, StopPortIdle
<1>3. ASSUME sockOpen PROVE \A p \in 1 .. j : Idle(p)'
  <2>0. \A p \in 1 .. j - 1 : p \in Ports BY <1>t, <1>j DEF Ports
  <2>1. \A p \in 1 .. j - 1 : Idle(p)
    BY <1>1, <1>3, <1>j, <2>0 DEF IInv, StopProgress, AllIdle
  <2> QED BY <1>2, <1>3, <1>j, <1>t, <2>0, <2>1 DEF Ports
<1>a. AllIdle => AllIdle' BY <1>2 DEF AllIdle
<1>4. CASE k < NPorts
  <2>1. k' = k + 1 /\ pc' = pc BY <1>1, <1>4
  <2>2. PerfType'
    BY <1>1, <1>2, <1>4, <1>t, <2>1 DEF IInv, PerfType, TypeOK, Ports, net
  <2>3. StopProgress'
    BY <1>1, <1>3, <1>a, <1>j, <1>t, <2>1 DEF IInv, StopProgress, Ports
  <2>4. ASSUME ~stolen' PROVE Accounting'
    <3>1. Accounting BY <1>1, <2>4 DEF IInv
    <3>2. Quiet => Quiet' BY <1>1, <1>2 DEF Quiet, AllIdle, net
    <3>3. Moved(base) => Moved(base)' BY <1>1 DEF Moved, net
    <3>4. TrueVerdict => TrueVerdict' BY <1>1 DEF TrueVerdict, net
    <3> QED BY <1>1, <2>1, <3>1, <3>2, <3>3, <3>4 DEF Accounting, Ours, net
  <2> QED BY <2>2, <2>3, <2>4 DEF IInv
<1>5. CASE ~(k < NPorts)
  <2>1. /\ k' = 1 /\ k = NPorts
        /\ \/ pc = "clean" /\ pc' = "base"
           \/ pc = "stop" /\ pc' = "drain"
           \/ pc = "defer" /\ pc' = "returned"
    BY <1>1, <1>5, <1>t DEF AfterStop, Ports
  <2>2. PerfType'
    BY <1>1, <1>2, <1>t, <2>1 DEF IInv, PerfType, TypeOK, net
  <2>3. sockOpen => AllIdle'
    BY <1>3, <1>j, <2>1 DEF AllIdle, Ports
  <2>4. StopProgress'
    BY <1>1, <1>a, <2>1, <2>3 DEF IInv, StopProgress
  <2>5. ASSUME ~stolen' PROVE Accounting'
    <3>1. Accounting BY <1>1, <2>5 DEF IInv
    <3>2. Quiet => Quiet' BY <1>1, <1>2 DEF Quiet, AllIdle, net
    <3>3. Moved(base) => Moved(base)' BY <1>1 DEF Moved, net
    <3>4. TrueVerdict => TrueVerdict' BY <1>1 DEF TrueVerdict, net
    <3> QED BY <1>1, <2>1, <3>1, <3>2, <3>3, <3>4 DEF Accounting, Ours, net
  <2> QED BY <2>2, <2>4, <2>5 DEF IInv
<1> QED BY <1>4, <1>5

\* The steps of perfRun that touch neither a port nor the network.
EngineOnly == UNCHANGED <<ctxDone, sockOpen, rate, owner, stolen, tx, rx, rxErr, qf,
                          inflight, sent, lost, bad, storeQF>>

\* Such a step keeps what is said of the network.
LEMMA EngineOnlyKeeps ==
    ASSUME IInv, EngineOnly
    PROVE  /\ (Quiet' <=> Quiet) /\ (AllIdle' <=> AllIdle)
           /\ \A p \in Ports : (Ours(p)' <=> Ours(p)) /\ (Idle(p)' <=> Idle(p))
           /\ base' = base => (Moved(base)' <=> Moved(base))
           /\ stolen' = stolen
BY DEF EngineOnly, Quiet, AllIdle, Idle, Ours, Moved

\* get_pgid_stats before the traffic: the baseline is taken from a quiet network.
LEMMA ReadBaseInv == ASSUME IInv, ReadBase PROVE IInv'
<1>1. /\ pc = "base" /\ pc' = "baseQF" /\ base' = Snapshot /\ EngineOnly
      /\ UNCHANGED <<k, step, baseQF, final, result, runs>>
  BY DEF ReadBase, EngineOnly, ctx, ports, net
<1>2. base' = [tx |-> tx, rx |-> rx, rxErr |-> rxErr] /\ base' \in Counters
  BY <1>1 DEF IInv, PerfType, TypeOK, Counters, Snapshot
<1>3. PerfType'
  BY <1>1, <1>2 DEF IInv, PerfType, TypeOK, EngineOnly
<1>4. StopProgress'
  BY <1>1, EngineOnlyKeeps DEF IInv, StopProgress
<1>5. ASSUME ~stolen' PROVE Accounting'
  <2>1. Accounting /\ Quiet BY <1>1, <1>5 DEF IInv, EngineOnly, Accounting
  <2>2. Moved(base)'
    BY <1>1, <1>2, <2>1 DEF IInv, PerfType, TypeOK, Moved, Accounting, Quiet, EngineOnly
  <2> QED BY <1>1, <2>1, <2>2, EngineOnlyKeeps DEF Accounting
<1> QED BY <1>3, <1>4, <1>5 DEF IInv

\* get_pgid_stats fails: no port has been started.
LEMMA BaseErrorInv == ASSUME IInv, BaseError PROVE IInv'
<1>1. /\ pc = "base" /\ pc' = "returned" /\ result' = Failed /\ EngineOnly
      /\ UNCHANGED <<k, step, base, baseQF, final, runs>>
  BY DEF BaseError, EngineOnly, ctx, ports, net
<1>2. PerfType'
  BY <1>1 DEF IInv, PerfType, TypeOK, EngineOnly
<1>3. StopProgress'
  BY <1>1, EngineOnlyKeeps DEF IInv, StopProgress, Failed
<1>4. ~stolen' => Accounting'
  BY <1>1, EngineOnlyKeeps DEF IInv, Accounting, Failed
<1> QED BY <1>2, <1>3, <1>4 DEF IInv

\* The queue-full baseline, the two sleeps of the ramp and of the hold.
LEMMA QuietStepInv ==
    ASSUME IInv, ReadBaseQF \/ RampSleep \/ Hold PROVE IInv'
<1>1. /\ \/ pc = "baseQF" /\ pc' = "start" /\ k' = 1 /\ step' = step
         \/ pc = "rampSleep" /\ pc' = "update" /\ step' = step + 1 /\ k' = k
         \/ pc = "hold" /\ pc' = "stop" /\ k' = 1 /\ step' = step
      /\ EngineOnly /\ UNCHANGED <<base, final, result, runs>>
  BY DEF ReadBaseQF, RampSleep, Hold, EngineOnly, ctx, ports, net
<1>2. k' \in Ports /\ step' \in 1 .. Steps
  BY <1>1, PerfRunAssumption DEF IInv, PerfType, TypeOK, Ports
<1>3. PerfType'
  BY <1>1, <1>2 DEF IInv, PerfType, TypeOK, EngineOnly
<1>4. StopProgress'
  BY <1>1 DEF StopProgress
<1>5. ~stolen' => Accounting'
  BY <1>1, EngineOnlyKeeps DEF IInv, Accounting
<1> QED BY <1>3, <1>4, <1>5 DEF IInv

\* Start and Update set a rate the ramp has reached on a port that is ours.
LEMMA RampInv == ASSUME IInv, Ramp PROVE IInv'
<1>1. /\ pc \in {"start", "update"} /\ rate' = [rate EXCEPT ![k] = step]
      /\ \/ k < NPorts /\ k' = k + 1 /\ pc' = pc
         \/ ~(k < NPorts) /\ k' = 1 /\ pc' = AfterStep(step)
      /\ UNCHANGED <<step, base, baseQF, final, result, runs, ctxDone, sockOpen, owner,
                     stolen, net, storeQF>>
  BY DEF Ramp, SetRate, ctx
<1>2. rate' \in [Ports -> 0 .. Steps] /\ k' \in Ports
  BY <1>1, PerfRunAssumption DEF IInv, PerfType, TypeOK, Ports
<1>3. /\ pc' \in {"start", "update", "rampSleep", "hold"}
      /\ pc' = "rampSleep" => step' < Steps
  BY <1>1 DEF AfterStep
<1>4. PerfType'
  BY <1>1, <1>2, <1>3 DEF IInv, PerfType, TypeOK, net
<1>5. StopProgress'
  BY <1>3 DEF StopProgress
<1>6. ASSUME ~stolen' PROVE Accounting'
  <2>1. Accounting BY <1>1, <1>6 DEF IInv
  <2>2. Moved(base)' BY <1>1, <2>1 DEF Accounting, Moved, net
  <2> QED BY <1>1, <1>3, <2>1, <2>2 DEF Accounting, Ours
<1> QED BY <1>4, <1>5, <1>6 DEF IInv

\* The drain ends with nothing in flight, as every port was stopped before it.
LEMMA DrainInv == ASSUME IInv, Drain PROVE IInv'
<1>1. /\ pc = "drain" /\ pc' = "final" /\ EngineOnly
      /\ inflight = 0 \/ \E p \in Ports : rate[p] > 0
      /\ UNCHANGED <<k, step, base, final, result, runs>>
  BY DEF Drain, EngineOnly, ctx, ports, net
<1>2. PerfType'
  BY <1>1 DEF IInv, PerfType, TypeOK, EngineOnly
<1>3. StopProgress'
  BY <1>1, EngineOnlyKeeps DEF IInv, StopProgress, EngineOnly
<1>4. ASSUME ~stolen' PROVE Accounting'
  <2>1. Accounting /\ (sockOpen => AllIdle)
    BY <1>1, <1>4 DEF IInv, EngineOnly, StopProgress
  <2>2. sockOpen => Quiet
    BY <1>1, <2>1 DEF IInv, PerfType, TypeOK, Quiet, AllIdle, Idle, Accounting
  <2> QED BY <1>1, <2>1, <2>2, EngineOnlyKeeps DEF Accounting, EngineOnly
<1> QED BY <1>2, <1>3, <1>4 DEF IInv

\* The final snapshot is taken from a network that has gone quiet again.
LEMMA ReadFinalInv == ASSUME IInv, ReadFinal PROVE IInv'
<1>1. /\ pc = "final" /\ sockOpen /\ pc' = "finalQF" /\ final' = Snapshot /\ EngineOnly
      /\ UNCHANGED <<k, step, base, result, runs>>
  BY DEF ReadFinal, EngineOnly, ctx, ports, net
<1>2. final' = [tx |-> tx, rx |-> rx, rxErr |-> rxErr] /\ final' \in Counters
  BY <1>1 DEF IInv, PerfType, TypeOK, Counters, Snapshot
<1>3. PerfType'
  BY <1>1, <1>2 DEF IInv, PerfType, TypeOK, EngineOnly
<1>4. StopProgress'
  BY <1>1, EngineOnlyKeeps DEF IInv, StopProgress
<1>5. ASSUME ~stolen' PROVE Accounting'
  <2>1. Accounting /\ Quiet /\ Moved(base)
    BY <1>1, <1>5 DEF IInv, EngineOnly, Accounting
  <2>2. /\ final'.tx - base.tx = sent /\ lost <= sent
        /\ final'.rx - base.rx + lost = sent /\ final'.rxErr - base.rxErr = bad
    BY <1>2, <2>1 DEF IInv, PerfType, TypeOK, Counters, Moved, Quiet
  <2> QED BY <1>1, <2>1, <2>2, EngineOnlyKeeps DEF Accounting, EngineOnly
<1> QED BY <1>3, <1>4, <1>5 DEF IInv

\* An error enters the deferred stop at its first port.
LEMMA ErrorReturnInv == ASSUME IInv, ErrorReturn PROVE IInv'
<1>1. /\ pc' = "defer" /\ k' = 1 /\ result' = Failed /\ EngineOnly
      /\ UNCHANGED <<step, base, final, runs>>
  BY DEF ErrorReturn, EngineOnly, ctx, ports, net
<1>2. PerfType'
  BY <1>1, PerfRunAssumption DEF IInv, PerfType, TypeOK, EngineOnly, Ports
<1>3. StopProgress'
  BY <1>1 DEF StopProgress, Failed
<1>4. ~stolen' => Accounting'
  BY <1>1, EngineOnlyKeeps DEF IInv, Accounting, Failed
<1> QED BY <1>2, <1>3, <1>4 DEF IInv

\* evaluate's counts and verdict in terms of the two snapshots.
LEMMA EvaluateFields ==
    ASSUME NEW b \in Counters, NEW f \in Counters, NEW bq, NEW fq,
           NEW s \in Nat, NEW l \in 0 .. s, f.tx - b.tx = s, f.rx - b.rx + l = s
    PROVE  LET r == evaluate(b, f, bq, fq)
           IN  /\ r.kind = "run" /\ r.tx = s /\ r.drop = l
               /\ r.rxErr = f.rxErr - b.rxErr
               /\ r.pass => l * 100 <= PDR * s /\ f.rxErr - b.rxErr = 0
<1> DEFINE t == f.tx - b.tx
           r == f.rx - b.rx
           d == IF t > r THEN t - r ELSE 0
           q == fq - bq
           e == f.rxErr - b.rxErr
           ok == /\ t > 0 => d * 100 <= PDR * t /\ q * 100 <= QFullResolution * t
                 /\ e = 0
           res == [kind |-> "run", tx |-> t, drop |-> d, qf |-> q, rxErr |-> e, pass |-> ok]
<1>1. b.tx \in Nat /\ b.rx \in Nat /\ b.rxErr \in Nat
      /\ f.tx \in Nat /\ f.rx \in Nat /\ f.rxErr \in Nat
  BY DEF Counters
<1>2. evaluate(b, f, bq, fq) = res
  BY Zenon DEF evaluate
<1>3. t = s /\ d = l
  BY <1>1
<1>4. ok => l * 100 <= PDR * s /\ e = 0
  <2>1. CASE s > 0 BY <1>3, <2>1
  <2>2. CASE s = 0
    <3>1. l = 0 BY <1>1, <2>2
    <3> QED BY <2>2, <3>1, PerfRunAssumption
  <2> QED BY <2>1, <2>2
<1>5. res.kind = "run" /\ res.tx = t /\ res.drop = d /\ res.rxErr = e /\ res.pass = ok
  BY Zenon
<1> QED BY <1>2, <1>3, <1>4, <1>5, Zenon

\* The verdict is computed from the two snapshots and nothing moves any more.
LEMMA EvaluateInv == ASSUME IInv, Evaluate PROVE IInv'
<1>1. /\ pc = "finalQF" /\ pc' = "defer" /\ k' = 1 /\ EngineOnly
      /\ result' = evaluate(base, final, baseQF, GlobalCounter)
      /\ UNCHANGED <<step, base, final, runs>>
  BY DEF Evaluate, EngineOnly, ctx, ports, net
<1>t. base \in Counters /\ final \in Counters /\ sent \in Nat /\ lost \in Nat
  BY DEF IInv, PerfType
<1>2. result'.kind = "run"
  BY <1>1, Zenon DEF evaluate
<1>3. PerfType'
  BY <1>1, <1>2, PerfRunAssumption DEF IInv, PerfType, TypeOK, EngineOnly, Ports
<1>4. StopProgress'
  <2>1. AllIdle' BY <1>1, EngineOnlyKeeps DEF IInv, StopProgress
  <2>2. k' - 1 < 1 BY <1>1
  <2> QED BY <1>1, <2>1, <2>2 DEF StopProgress
<1>5. ASSUME ~stolen' PROVE Accounting'
  <2>1. /\ Accounting /\ Quiet /\ final.tx - base.tx = sent /\ lost <= sent
        /\ final.rx - base.rx + lost = sent /\ final.rxErr - base.rxErr = bad
    BY <1>1, <1>5 DEF IInv, EngineOnly, Accounting
  <2>2. lost \in 0 .. sent BY <1>t, <2>1
  <2>3. /\ result'.tx = sent /\ result'.drop = lost /\ result'.rxErr = bad
        /\ result'.pass => lost * 100 <= PDR * sent /\ bad = 0
    BY <1>1, <1>t, <2>1, <2>2, EvaluateFields
  <2>4. TrueVerdict'
    BY <1>1, <2>3 DEF TrueVerdict, EngineOnly
  <2> QED BY <1>1, <2>1, <2>4, EngineOnlyKeeps DEF Accounting
<1> QED BY <1>3, <1>4, <1>5 DEF IInv

-----------------------------------------------------------------------------
(* The environment *)

\* Ctrl-C, the death of the client and the stats feed touch nothing else.
LEMMA AsideInv == ASSUME IInv, Cancel \/ Crash \/ Publish PROVE IInv'
<1>1. /\ pc' = pc \/ pc' = "crashed"
      /\ UNCHANGED <<k, step, base, final, result, runs, rate, owner, stolen, tx, rx, rxErr,
                     qf, inflight, sent, lost, bad>>
      /\ storeQF' = storeQF \/ storeQF' = qf
  BY DEF Cancel, Crash, Publish, engine, ctx, ports, net
<1>s. /\ sockOpen' => sockOpen
      /\ ctxDone' \in BOOLEAN /\ sockOpen' \in BOOLEAN /\ (sockOpen' \/ ctxDone')
  <2>1. CASE Cancel
    <3>1. ~ctxDone /\ ctxDone' = TRUE /\ sockOpen' \in BOOLEAN BY <2>1 DEF Cancel
    <3>2. sockOpen BY <3>1 DEF IInv, PerfType, TypeOK
    <3> QED BY <3>1, <3>2, Zenon
  <2>2. CASE Crash \/ Publish
    <3>1. ctxDone' = ctxDone /\ sockOpen' = sockOpen BY <2>2 DEF Crash, Publish, ctx
    <3> QED BY <3>1, Zenon DEF IInv, PerfType, TypeOK
  <2> QED BY <2>1, <2>2
<1>2. PerfType'
  BY <1>1, <1>s DEF IInv, PerfType, TypeOK
<1>3. StopProgress'
  BY <1>1, <1>s DEF IInv, StopProgress, AllIdle, Idle, Ours
<1>4. ~stolen' => Accounting'
  BY <1>1, <1>s DEF IInv, Accounting, Quiet, AllIdle, Idle, Ours, Moved, TrueVerdict
<1> QED BY <1>2, <1>3, <1>4 DEF IInv

\* A port that is force-acquired by another session is no longer ours to stop.
LEMMA StealInv == ASSUME IInv, NEW p \in Ports, Steal(p) PROVE IInv'
<1>1. /\ owner' = [owner EXCEPT ![p] = "other"] /\ stolen' = TRUE
      /\ UNCHANGED <<engine, ctxDone, sockOpen, rate, net, storeQF>>
  BY DEF Steal, ctx
<1>2. owner' \in [Ports -> {"us", "other"}] /\ \A q \in Ports : Idle(q) => Idle(q)'
  BY <1>1 DEF IInv, PerfType, TypeOK, Idle, Ours
<1>3. stolen' /\ stolen' \in BOOLEAN
  BY <1>1, Zenon
<1>4. PerfType'
  BY <1>1, <1>2, <1>3 DEF IInv, PerfType, TypeOK, engine, net
<1>5. StopProgress'
  <2>1. pc' = pc /\ k' = k /\ result' = result /\ sockOpen' = sockOpen BY <1>1 DEF engine
  <2>2. k \in Ports BY DEF IInv, PerfType, TypeOK
  <2>3. \A q \in 1 .. k - 1 : q \in Ports
    BY <2>2, PerfRunAssumption DEF Ports
  <2>4. AllIdle => AllIdle' BY <1>2 DEF AllIdle
  <2> QED BY <1>2, <2>1, <2>3, <2>4 DEF IInv, StopProgress
<1> QED BY <1>3, <1>4, <1>5 DEF IInv

\* A packet is sent only by a port that transmits, so never on a quiet network.
LEMMA TransmitInv == ASSUME IInv, NEW p \in Ports, Transmit(p) PROVE IInv'
<1>1. /\ rate[p] > 0 /\ UNCHANGED <<engine, ctx, ports, rx, rxErr, lost, bad, storeQF>>
      /\ \/ tx' = tx + 1 /\ sent' = sent + 1 /\ inflight' = inflight + 1 /\ qf' = qf
         \/ qf' = qf + 1 /\ UNCHANGED <<tx, sent, inflight>>
  BY DEF Transmit
<1>2. PerfType'
  BY <1>1 DEF IInv, PerfType, TypeOK, engine, ctx, ports
<1>3. StopProgress'
  BY <1>1 DEF IInv, StopProgress, AllIdle, Idle, Ours, engine, ctx, ports
<1>4. ASSUME ~stolen' PROVE Accounting'
  <2>1. Accounting BY <1>1, <1>4 DEF IInv, ports
  <2>2. ~Quiet
    BY <1>1, <2>1 DEF IInv, PerfType, TypeOK, Accounting, Quiet, AllIdle, Idle
  <2>3. Moved(base) => Moved(base)'
    BY <1>1 DEF IInv, PerfType, TypeOK, Counters, Moved, engine
  <2>4. /\ pc' = pc /\ \A q \in Ports : Ours(q)' <=> Ours(q)
        /\ result' = result /\ sockOpen' = sockOpen
    BY <1>1 DEF engine, ctx, ports, Ours
  <2> QED BY <2>1, <2>2, <2>3, <2>4 DEF Accounting
<1> QED BY <1>2, <1>3, <1>4 DEF IInv

\* A packet in flight arrives, intact or not, or is lost: never on a quiet network.
LEMMA ArriveInv == ASSUME IInv, Arrive PROVE IInv'
<1>1. /\ inflight > 0 /\ inflight' = inflight - 1
      /\ \/ rx' = rx + 1 /\ UNCHANGED <<rxErr, bad, lost>>
         \/ rx' = rx + 1 /\ rxErr' = rxErr + 1 /\ bad' = bad + 1 /\ UNCHANGED lost
         \/ lost' = lost + 1 /\ UNCHANGED <<rx, rxErr, bad>>
      /\ UNCHANGED <<engine, ctx, ports, tx, qf, sent, storeQF>>
  BY DEF Arrive
<1>2. PerfType'
  BY <1>1 DEF IInv, PerfType, TypeOK, engine, ctx, ports
<1>3. StopProgress'
  BY <1>1 DEF IInv, StopProgress, AllIdle, Idle, Ours, engine, ctx, ports
<1>4. ASSUME ~stolen' PROVE Accounting'
  <2>1. Accounting /\ ~Quiet BY <1>1, <1>4 DEF IInv, PerfType, TypeOK, Quiet, ports
  <2>t. /\ tx \in Nat /\ rx \in Nat /\ rxErr \in Nat /\ inflight \in Nat
        /\ sent \in Nat /\ lost \in Nat /\ bad \in Nat
        /\ base.tx \in Nat /\ base.rx \in Nat /\ base.rxErr \in Nat
        /\ base' = base /\ tx' = tx /\ sent' = sent
    BY <1>1 DEF IInv, PerfType, TypeOK, Counters, engine
  <2>2. Moved(base) => Moved(base)'
    <3>1. CASE rx' = rx + 1 /\ UNCHANGED <<rxErr, bad, lost>>
      BY <1>1, <2>t, <3>1 DEF Moved
    <3>2. CASE rx' = rx + 1 /\ rxErr' = rxErr + 1 /\ bad' = bad + 1 /\ UNCHANGED lost
      BY <1>1, <2>t, <3>2 DEF Moved
    <3>3. CASE lost' = lost + 1 /\ UNCHANGED <<rx, rxErr, bad>>
      BY <1>1, <2>t, <3>3 DEF Moved
    <3> QED BY <1>1, <3>1, <3>2, <3>3
  <2>3. /\ pc' = pc /\ \A q \in Ports : Ours(q)' <=> Ours(q)
        /\ result' = result /\ sockOpen' = sockOpen
    BY <1>1 DEF engine, ctx, ports, Ours
  <2> QED BY <2>1, <2>2, <2>3 DEF Accounting
<1> QED BY <1>2, <1>3, <1>4 DEF IInv

-----------------------------------------------------------------------------
(* The theorems *)

\* Every step of the engine and of its environment preserves the invariant.
THEOREM StepInv == IInv /\ [Next]_vars => IInv'
<1> SUFFICES ASSUME IInv, [Next]_vars PROVE IInv' OBVIOUS
<1>1. CASE Call BY <1>1, CallInv
<1>2. CASE Engine
  BY <1>2, StopAllInv, ReadBaseInv, BaseErrorInv, QuietStepInv, RampInv, DrainInv,
     ReadFinalInv, ErrorReturnInv, EvaluateInv DEF Engine
<1>3. CASE Cancel \/ Crash \/ Publish BY <1>3, AsideInv
<1>4. CASE Arrive BY <1>4, ArriveInv
<1>5. ASSUME NEW p \in Ports, Steal(p) \/ Transmit(p) PROVE IInv'
  BY <1>5, StealInv, TransmitInv
<1>6. CASE UNCHANGED vars
  <2>1. UNCHANGED <<pc, k, step, base, final, result, runs, ctxDone, sockOpen, rate, owner,
                    stolen, tx, rx, rxErr, qf, inflight, sent, lost, bad, storeQF>>
    BY <1>6 DEF vars, engine, ctx, ports, net
  <2>2. PerfType' BY <2>1 DEF IInv, PerfType, TypeOK
  <2>3. StopProgress' BY <2>1 DEF IInv, StopProgress, AllIdle, Idle, Ours
  <2>4. ~stolen' => Accounting'
    BY <2>1 DEF IInv, Accounting, Quiet, AllIdle, Idle, Ours, Moved, TrueVerdict
  <2> QED BY <2>2, <2>3, <2>4 DEF IInv
<1> QED BY <1>1, <1>2, <1>3, <1>4, <1>5, <1>6 DEF Next

\* The inductive invariant holds of every search.
THEOREM Invariance == Spec => []IInv
BY InitInv, StepInv, PTL DEF Spec

\* Type correctness of the engine, the server and the store.
THEOREM TypeCorrect == Spec => []TypeOK
BY Invariance, PTL DEF IInv, PerfType

\* perfRun's deferred stop "guarantee[s] it is stopped on every return path":
\* whatever fails and whenever Ctrl-C comes, no port of ours transmits after it,
\* unless the Ctrl-C broke the socket and the measurement ended in an error.
THEOREM StoppedOnEveryReturn == Spec => []StoppedOnReturn
<1>1. IInv => StoppedOnReturn
  BY DEF IInv, PerfType, StopProgress, AllIdle, Idle, StoppedOnReturn
<1> QED BY <1>1, Invariance, PTL

\* A verdict of perfRun counts the packets of its own measurement and no others,
\* for any number of measurements before it and any timing of the traffic.
THEOREM VerdictCountsExactly == Spec => []VerdictExact
<1>1. IInv => VerdictExact
  BY DEF IInv, Accounting, TrueVerdict, VerdictExact
<1> QED BY <1>1, Invariance, PTL

\* A measurement that passes lost no more than PDR percent of what was really
\* sent during it, and no packet came back damaged.
PassMeansDeviceHealthy ==
    (pc = "returned" /\ result.kind = "run" /\ ~stolen) =>
        (result.pass => lost * 100 <= PDR * sent /\ bad = 0)

\* evaluate's verdict is sound for the device, though it may not be for the
\* generator (PassMeansGeneratorHealthy fails).
THEOREM PassIsSound == Spec => []PassMeansDeviceHealthy
<1>1. IInv => PassMeansDeviceHealthy
  BY DEF IInv, Accounting, TrueVerdict, PassMeansDeviceHealthy
<1> QED BY <1>1, Invariance, PTL
=============================================================================
