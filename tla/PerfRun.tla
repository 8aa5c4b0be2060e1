------------------------------- MODULE PerfRun -------------------------------
(***************************************************************************)
(* Engine.perfRun of pkg/ndr/engine.go: one measurement, from the cleaning *)
(* stop to the verdict, on every port of the engine, against a server that *)
(* transmits meanwhile, a device that may lose packets, a stats store fed  *)
(* asynchronously, Ctrl-C, a crash of the client, and another session that *)
(* force-acquires a port.                                                  *)
(*                                                                         *)
(* A port's rate is the number of ramp steps it has reached: 0 is idle and *)
(* Steps is the target percentage.  A packet stands for a burst.           *)
(***************************************************************************)
EXTENDS Integers

CONSTANTS
    NPorts,      \* Engine.ports is the sequence 1..NPorts
    Steps,       \* ramp steps: int(RampUpTime/100ms) + 1, or 1
    MaxRuns,     \* bound: measurements in one search
    MaxPkts,     \* bound: packets offered in one search
    PDR, QFullResolution, \* Config, percentages
    InitQF,      \* possible m_total_queue_full left by earlier sessions
    CanSteal, CanCrash

ASSUME PerfRunAssumption ==
    /\ NPorts \in Nat \ {0} /\ Steps \in Nat \ {0}
    /\ MaxRuns \in Nat /\ MaxPkts \in Nat
    /\ PDR \in 0 .. 100 /\ QFullResolution \in 0 .. 100
    /\ CanSteal \in BOOLEAN /\ CanCrash \in BOOLEAN
    /\ InitQF \subseteq Nat

Ports   == 1 .. NPorts
NoStats == -1     \* no trex-global message has been received

VARIABLES
    \* the engine
    pc, k, step, base, baseQF, final, result, ctxDone, sockOpen, runs,
    \* the server, the network and the store
    rate, owner, tx, rx, rxErr, qf, inflight, storeQF,
    \* what really happened in the current measurement
    sent, lost, bad, full, stolen

engine == <<pc, k, step, base, baseQF, final, result, runs>>
ports  == <<rate, owner, stolen>>
net    == <<tx, rx, rxErr, qf, inflight, sent, lost, bad, full>>
ctx    == <<ctxDone, sockOpen>>
vars   == <<engine, ctx, ports, net, storeQF>>

Snapshot == [tx |-> tx, rx |-> rx, rxErr |-> rxErr]
Zero     == [tx |-> 0, rx |-> 0, rxErr |-> 0]
None     == [kind |-> "none"]
Failed   == [kind |-> "error"]

Init ==
    /\ pc = "idle" /\ k = 1 /\ step = 1 /\ runs = 0
    /\ base = Zero /\ final = Zero /\ baseQF = 0 /\ result = None
    /\ ctxDone = FALSE /\ sockOpen = TRUE
    /\ rate = [p \in Ports |-> 0]
    /\ owner = [p \in Ports |-> "us"] /\ stolen = FALSE
    /\ tx = 0 /\ rx = 0 /\ rxErr = 0 /\ inflight = 0
    /\ qf \in InitQF
    /\ storeQF = NoStats
    /\ sent = 0 /\ lost = 0 /\ bad = 0 /\ full = 0

-----------------------------------------------------------------------------
(* The server's ports as Port.Start, Update and Stop see them *)

Ours(p) == owner[p] = "us"

\* A call reaches the server and its handler is current.
Accepted(p) == sockOpen /\ Ours(p)

\* start_traffic and update_traffic.
SetRate(p, r) == Accepted(p) /\ rate' = [rate EXCEPT ![p] = r]

\* stop_traffic: idle and stolen ports answer with an error, a broken socket
\* does not send.
StopPort(p) == rate' = IF Accepted(p) THEN [rate EXCEPT ![p] = 0] ELSE rate

-----------------------------------------------------------------------------
(* perfRun *)

\* Find measures again only after a measurement without error.
Call ==
    /\ pc = "idle" \/ (pc = "returned" /\ result # Failed)
    /\ runs < MaxRuns
    /\ runs' = runs + 1
    /\ pc' = "clean" /\ k' = 1 /\ step' = 1 /\ result' = None
    /\ sent' = 0 /\ lost' = 0 /\ bad' = 0 /\ full' = 0
    /\ UNCHANGED <<base, baseQF, final, ctx, ports, tx, rx, rxErr, qf,
                   inflight, storeQF>>

\* What follows the last Stop of each of the three uses of stopAll.
AfterStop(l) ==
    CASE l = "clean" -> "base"
      [] l = "stop"  -> "drain"
      [] l = "defer" -> "returned"

\* One Stop of stopAll, whose error is ignored.
stopAll ==
    /\ pc \in {"clean", "stop", "defer"}
    /\ StopPort(k)
    /\ IF k < NPorts THEN k' = k + 1 /\ pc' = pc
                     ELSE k' = 1 /\ pc' = AfterStop(pc)
    /\ UNCHANGED <<step, base, baseQF, final, result, runs, ctx, owner,
                   stolen, net, storeQF>>

\* GlobalCounter(queueFullKey), whose missing second result is ignored.
GlobalCounter ==
    IF storeQF = NoStats THEN 0 ELSE storeQF

ReadBase ==
    /\ pc = "base" /\ sockOpen
    /\ base' = Snapshot
    /\ pc' = "baseQF"
    /\ UNCHANGED <<k, step, baseQF, final, result, runs, ctx, ports, net, storeQF>>

\* get_pgid_stats fails before any traffic: the deferred stop is not yet set up.
BaseError ==
    /\ pc = "base"
    /\ pc' = "returned" /\ result' = Failed
    /\ UNCHANGED <<k, step, base, baseQF, final, runs, ctx, ports, net, storeQF>>

ReadBaseQF ==
    /\ pc = "baseQF"
    /\ baseQF' = GlobalCounter
    /\ pc' = "start" /\ k' = 1
    /\ UNCHANGED <<step, base, final, result, runs, ctx, ports, net, storeQF>>

\* Where rampTo goes once every port has reached step s.
AfterStep(s) == IF s < Steps THEN "rampSleep" ELSE "hold"

\* One Start (step 1) or Update (later steps) of rampTo.
Ramp ==
    /\ pc \in {"start", "update"}
    /\ SetRate(k, step)
    /\ IF k < NPorts THEN k' = k + 1 /\ pc' = pc
                     ELSE k' = 1 /\ pc' = AfterStep(step)
    /\ UNCHANGED <<step, base, baseQF, final, result, runs, ctx, owner,
                   stolen, net, storeQF>>

RampSleep ==
    /\ pc = "rampSleep"
    /\ pc' = "update" /\ step' = step + 1
    /\ UNCHANGED <<k, base, baseQF, final, result, runs, ctx, ports, net, storeQF>>

Hold ==
    /\ pc = "hold"
    /\ pc' = "stop" /\ k' = 1
    /\ UNCHANGED <<step, base, baseQF, final, result, runs, ctx, ports, net, storeQF>>

DrainTooShort ==
    /\ pc = "drain"
    /\ pc' = "final"
    /\ UNCHANGED <<k, step, base, baseQF, final, result, runs, ctx, ports, net, storeQF>>

\* RxDelayMs exceeds the path's latency: what is in flight arrives or is lost
\* while the engine drains, unless a stolen port is still transmitting.
Drain ==
    /\ pc = "drain"
    /\ inflight = 0 \/ \E p \in Ports : rate[p] > 0
    /\ pc' = "final"
    /\ UNCHANGED <<k, step, base, baseQF, final, result, runs, ctx, ports, net, storeQF>>

ReadFinal ==
    /\ pc = "final" /\ sockOpen
    /\ final' = Snapshot
    /\ pc' = "finalQF"
    /\ UNCHANGED <<k, step, base, baseQF, result, runs, ctx, ports, net, storeQF>>

ErrorReturnNoDefer ==
    /\ \/ pc \in {"start", "update", "final"}
       \/ pc \in {"rampSleep", "hold", "drain"} /\ ctxDone
    /\ pc' = "returned" /\ k' = 1 /\ result' = Failed
    /\ UNCHANGED <<step, base, baseQF, final, runs, ctx, ports, net, storeQF>>

ErrorRetriesStart ==
    /\ \/ pc \in {"update", "final"}
       \/ pc \in {"rampSleep", "hold", "drain"} /\ ctxDone
    /\ pc' = "defer" /\ k' = 1 /\ result' = Failed
    /\ UNCHANGED <<step, base, baseQF, final, runs, ctx, ports, net, storeQF>>

\* An RPC error, or ctx.Done() in one of the sleeps: the deferred stop runs.
ErrorReturn ==
    /\ \/ pc \in {"start", "update", "final"}
       \/ pc \in {"rampSleep", "hold", "drain"} /\ ctxDone
    /\ pc' = "defer" /\ k' = 1 /\ result' = Failed
    /\ UNCHANGED <<step, base, baseQF, final, runs, ctx, ports, net, storeQF>>

\* Percentages are compared cross-multiplied; with tx = 0 both are left at 0.  The
\* server's counters only grow here, so the unsigned differences do not wrap.
evaluate(b, f, bq, fq) ==
    LET t == f.tx - b.tx
        r == f.rx - b.rx
        d == IF t > r THEN t - r ELSE 0
        q == fq - bq
        e == f.rxErr - b.rxErr
    IN  [kind |-> "run", tx |-> t, drop |-> d, qf |-> q, rxErr |-> e,
         pass |-> /\ t > 0 => d * 100 <= PDR * t /\ q * 100 <= QFullResolution * t
                  /\ e = 0]

Evaluate ==
    /\ pc = "finalQF"
    /\ result' = evaluate(base, final, baseQF, GlobalCounter)
    /\ pc' = "defer" /\ k' = 1
    /\ UNCHANGED <<step, base, baseQF, final, runs, ctx, ports, net, storeQF>>

Engine ==
    \/ stopAll \/ ReadBase \/ BaseError \/ ReadBaseQF \/ Ramp \/ RampSleep
    \/ Hold \/ Drain \/ ReadFinal \/ ErrorReturn \/ Evaluate

-----------------------------------------------------------------------------
(* The environment *)

\* Ctrl-C cancels the command's context, and with it the one the REQ socket was
\* dialled with: whether the ZMQ library then breaks the socket is left open, as
\* in Connection.
Cancel ==
    /\ ~ctxDone /\ ctxDone' = TRUE
    /\ sockOpen' \in BOOLEAN
    /\ UNCHANGED <<engine, ports, net, storeQF>>

\* The client process dies; the server knows nothing of it.
Crash ==
    /\ CanCrash /\ pc \notin {"idle", "returned", "crashed"}
    /\ pc' = "crashed"
    /\ UNCHANGED <<k, step, base, baseQF, final, result, runs, ctx, ports, net, storeQF>>

\* Another session force-acquires a port, which goes on transmitting.
Steal(p) ==
    /\ CanSteal /\ Ours(p) /\ pc \notin {"idle", "returned", "crashed"}
    /\ owner' = [owner EXCEPT ![p] = "other"]
    /\ stolen' = TRUE
    /\ UNCHANGED <<engine, ctx, rate, net, storeQF>>

\* A transmitting port sends a packet, or its queue is full.
Transmit(p) ==
    /\ rate[p] > 0 /\ tx + qf < MaxPkts
    /\ \/ /\ tx' = tx + 1 /\ sent' = sent + 1 /\ inflight' = inflight + 1
          /\ UNCHANGED <<qf, full>>
       \/ /\ qf' = qf + 1 /\ full' = full + 1
          /\ UNCHANGED <<tx, sent, inflight>>
    /\ UNCHANGED <<engine, ctx, ports, rx, rxErr, lost, bad, storeQF>>

\* The device forwards a packet, damages it, or drops it.
Arrive ==
    /\ inflight > 0 /\ inflight' = inflight - 1
    /\ \/ rx' = rx + 1 /\ UNCHANGED <<rxErr, bad, lost>>
       \/ rx' = rx + 1 /\ rxErr' = rxErr + 1 /\ bad' = bad + 1 /\ UNCHANGED lost
       \/ lost' = lost + 1 /\ UNCHANGED <<rx, rxErr, bad>>
    /\ UNCHANGED <<engine, ctx, ports, tx, qf, sent, full, storeQF>>

\* A trex-global message reaches the store.
Publish ==
    /\ storeQF # qf
    /\ storeQF' = qf
    /\ UNCHANGED <<engine, ctx, ports, net>>

Next ==
    \/ Call \/ Engine \/ Cancel \/ Crash \/ Arrive \/ Publish
    \/ \E p \in Ports : Steal(p) \/ Transmit(p)

Spec == Init /\ [][Next]_vars

\* The engine's goroutine runs, RPCs are answered and sleeps end; packets in
\* flight arrive or are lost.
FairSpec == Spec /\ WF_vars(Engine) /\ WF_vars(Arrive)

-----------------------------------------------------------------------------
(* Properties *)

\* Types of the engine's and the server's state.
TypeOK ==
    /\ pc \in {"idle", "clean", "base", "baseQF", "start", "rampSleep", "update",
               "hold", "stop", "drain", "final", "finalQF", "defer", "returned",
               "crashed"}
    /\ k \in Ports /\ step \in 1 .. Steps /\ runs \in 0 .. MaxRuns
    /\ rate \in [Ports -> 0 .. Steps]
    /\ owner \in [Ports -> {"us", "other"}]
    /\ tx \in Nat /\ rx \in Nat /\ rxErr \in Nat /\ qf \in Nat
    /\ inflight \in Nat /\ storeQF \in Nat \cup {NoStats}
    /\ ctxDone \in BOOLEAN /\ sockOpen \in BOOLEAN /\ (sockOpen \/ ctxDone)

\* perfRun returns, with a verdict, an error or on Ctrl-C, only with every port
\* that is still ours idle ("guarantee it is stopped on every return path").  The
\* exception is an error return after Ctrl-C has broken the socket, on which no
\* stop goes out.
StoppedOnReturn ==
    pc = "returned" /\ (sockOpen \/ result # Failed) =>
        \A p \in Ports : Ours(p) => rate[p] = 0

\* A verdict counts exactly the packets of its own measurement, ramp included,
\* whatever ran before it, as long as nobody stole a port.
VerdictExact ==
    (pc = "returned" /\ result.kind = "run" /\ ~stolen) =>
        result.tx = sent /\ result.drop = lost /\ result.rxErr = bad

\* "A run passes only if the DUT (not the generator) stayed healthy": one that
\* sent packets and passes met a full queue no more often than QFullResolution
\* allows, with a store the server has fed.
PassMeansGeneratorHealthy ==
    (pc = "returned" /\ result.kind = "run" /\ ~stolen /\ sent > 0 /\ storeQF # NoStats) =>
        (result.pass => full * 100 <= QFullResolution * sent)

\* The same by the numbers of the result itself, however fresh they are: a run
\* whose queue-full count exceeds QFullResolution does not pass.
PassMeansWithinLimits ==
    (pc = "returned" /\ result.kind = "run" /\ result.pass) =>
        result.qf * 100 <= QFullResolution * result.tx

\* Every measurement returns: no sleep outlives a cancelled context and no
\* ignored Stop error blocks the way out.
MeasurementReturns == (pc = "clean") ~> (pc \in {"returned", "crashed"})

=============================================================================
