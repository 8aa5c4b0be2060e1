------------------------------ MODULE AsyncStats -----------------------------
(***************************************************************************)
(* The asynchronous side of a client: Subscriber.handle, pull and checkSeq *)
(* (pkg/rpc/subscriber.go), stats.Store and its reference point            *)
(* (pkg/stats), Client.Barrier (pkg/session/client.go) and the commands    *)
(* clear and stats that use them.  An RPC is one step here: module         *)
(* Connection shows that the shared connection allows it.                  *)
(***************************************************************************)
EXTENDS Integers, Sequences

CONSTANTS
    MaxCtr,     \* bound: the server's counter
    MaxEvents,  \* bound: server events
    PubCap,     \* bound: messages on the SUB channel
    MaxGen,     \* bound: generation up to which the server publishes by itself
    MaxCmds     \* bound: commands

ASSUME AsyncAssumption ==
    /\ MaxCtr \in Nat /\ MaxEvents \in Nat /\ PubCap \in Nat
    /\ MaxGen \in Nat /\ MaxCmds \in Nat

NoData == -1

VARIABLES
    \* the server
    ctr, pub, evq, evSeq,
    \* the subscriber
    inbox, expected, gaps, delivered,
    \* stats.Store: latest trex-global, the reference, the generation
    latest, ref, gen,
    \* main: Barrier, clear and stats
    bpc, bgen, cur, delta, cmds,
    \* history: the counter and the emptiness of the channel when Barrier was
    \* called, and the counter when the last such clear was
    bstart, bquiet, cleared

server == <<ctr, pub, evq, evSeq>>
sub    == <<inbox, expected, gaps, delivered>>
store  == <<latest, ref, gen>>
main   == <<bpc, bgen, bstart, bquiet, cleared, cur, delta, cmds>>
vars   == <<server, sub, store, main>>

Global(v) == [name |-> "trex-global", val |-> v]
Flow      == [name |-> "flow_stats"]
Trigger   == [name |-> ""]
Stats(v)  == <<Global(v), Flow>>   \* one tick of the publisher

Init ==
    /\ ctr = 0 /\ pub = <<>> /\ evq = <<>> /\ evSeq = 0
    /\ inbox = <<>> /\ expected = 0 /\ gaps = 0 /\ delivered = <<>>
    /\ latest = NoData /\ ref = NoData /\ gen = 0
    /\ bpc = "prompt" /\ bgen = 0 /\ bstart = 0 /\ bquiet = FALSE /\ cleared = NoData
    /\ cur = 0 /\ delta = 0 /\ cmds = 0

-----------------------------------------------------------------------------
(* The server *)

Count ==
    /\ ctr < MaxCtr /\ ctr' = ctr + 1
    /\ UNCHANGED <<pub, evq, evSeq, sub, store, main>>

\* About once a second the server publishes by itself.
PublishStats ==
    /\ gen < MaxGen /\ Len(pub) + 2 <= PubCap
    /\ pub' = pub \o Stats(ctr)
    /\ UNCHANGED <<ctr, evq, evSeq, sub, store, main>>

\* A discrete event is queued for the session and an empty trigger sent.
Event ==
    /\ evSeq < MaxEvents /\ Len(pub) < PubCap
    /\ evq' = Append(evq, evSeq) /\ evSeq' = evSeq + 1
    /\ pub' = Append(pub, Trigger)
    /\ UNCHANGED <<ctr, sub, store, main>>

-----------------------------------------------------------------------------
(* Subscriber *)

Idle == inbox = <<>>

HandleStatsNoGen ==
    /\ Idle /\ pub # <<>> /\ Head(pub).name # ""
    /\ pub' = Tail(pub)
    /\ latest' = IF Head(pub).name = "trex-global" THEN Head(pub).val ELSE latest
    /\ UNCHANGED <<ctr, evq, evSeq, sub, gen, ref, main>>

\* handle: a stats message goes straight to Store.Dispatch.
HandleStats ==
    /\ Idle /\ pub # <<>> /\ Head(pub).name # ""
    /\ pub' = Tail(pub)
    /\ latest' = IF Head(pub).name = "trex-global" THEN Head(pub).val ELSE latest
    /\ gen' = gen + 1
    /\ UNCHANGED <<ctr, evq, evSeq, sub, ref, main>>

PullKeepsQueue ==
    /\ Idle /\ pub # <<>> /\ Head(pub).name = ""
    /\ pub' = Tail(pub)
    /\ inbox' = evq /\ UNCHANGED evq
    /\ UNCHANGED <<ctr, evSeq, expected, gaps, delivered, store, main>>

\* handle: a trigger pulls what is queued; the server forgets what it returns,
\* also when the reply cannot be decoded.
Pull ==
    /\ Idle /\ pub # <<>> /\ Head(pub).name = ""
    /\ pub' = Tail(pub)
    /\ evq' = <<>>
    /\ inbox' \in {evq, <<>>}
    /\ UNCHANGED <<ctr, evSeq, expected, gaps, delivered, store, main>>

checkSeqResync(exp, seq) == [next |-> seq + 1, ok |-> exp = 0 \/ seq >= exp]

\* The first event and a server that starts again from 0 are not gaps.
checkSeq(exp, seq) ==
    [next |-> seq + 1, ok |-> exp = 0 \/ seq = 0 \/ seq = exp]

\* The loop of pull: a gap is reported and the event dispatched all the same.
DispatchEvent ==
    /\ inbox # <<>>
    /\ LET c == checkSeq(expected, Head(inbox)) IN
       /\ expected' = c.next
       /\ gaps' = IF c.ok THEN gaps ELSE gaps + 1
    /\ delivered' = Append(delivered, Head(inbox))
    /\ inbox' = Tail(inbox)
    /\ UNCHANGED <<server, store, main>>

Subscriber == HandleStats \/ Pull \/ DispatchEvent

-----------------------------------------------------------------------------
(* main: ClearCmd with Barrier, StatsCmd with GlobalDelta *)

\* ClearCmd.Run calls Barrier, which reads the generation first.
BarrierCall ==
    /\ bpc = "prompt" /\ cmds < MaxCmds
    /\ cmds' = cmds + 1
    /\ bgen' = gen /\ bstart' = ctr /\ bquiet' = (pub = <<>>)
    /\ bpc' = "publish"
    /\ UNCHANGED <<server, sub, store, cleared, cur, delta>>

\* publish_now: the server publishes all stats and a trigger before it answers.
PublishNow ==
    /\ bpc = "publish" /\ Len(pub) + 3 <= PubCap
    /\ pub' = pub \o Append(Stats(ctr), Trigger)
    /\ bpc' = "wait"
    /\ UNCHANGED <<ctr, evq, evSeq, sub, store, bgen, bstart, bquiet, cleared, cur, delta, cmds>>

BarrierTickOnce ==
    /\ bpc = "wait"
    /\ bpc' = "fresh"
    /\ UNCHANGED <<server, sub, store, bgen, bstart, bquiet, cleared, cur, delta, cmds>>

\* A tick: done when anything was dispatched since the call, else once more.
BarrierTick ==
    /\ bpc = "wait"
    /\ bpc' = IF gen > bgen THEN "fresh" ELSE "publish"
    /\ UNCHANGED <<server, sub, store, bgen, bstart, bquiet, cleared, cur, delta, cmds>>

\* The deadline, or an error of publish_now: clear returns without clearing.
BarrierTimeout ==
    /\ bpc \in {"wait", "publish"}
    /\ bpc' = "prompt"
    /\ UNCHANGED <<server, sub, store, bgen, bstart, bquiet, cleared, cur, delta, cmds>>

ClearDropsReference ==
    /\ bpc = "fresh"
    /\ ref' = NoData
    /\ cleared' = IF bquiet THEN bstart ELSE NoData
    /\ bpc' = "prompt" /\ delta' = 0
    /\ UNCHANGED <<server, sub, latest, gen, bgen, bstart, bquiet, cur, cmds>>

\* Store.Clear: what is latest becomes the reference.
Clear ==
    /\ bpc = "fresh"
    /\ ref' = latest
    /\ cleared' = IF bquiet THEN bstart ELSE NoData
    /\ bpc' = "prompt" /\ delta' = 0
    /\ UNCHANGED <<server, sub, latest, gen, bgen, bstart, bquiet, cur, cmds>>

\* GlobalDelta reads the counter and then, in another critical section, the
\* reference; without one it returns the counter.
DeltaReadCounter ==
    /\ bpc = "prompt" /\ cmds < MaxCmds /\ latest # NoData
    /\ cmds' = cmds + 1
    /\ cur' = latest
    /\ bpc' = "delta"
    /\ UNCHANGED <<server, sub, store, bgen, bstart, bquiet, cleared, delta>>

DeltaReadReference ==
    /\ bpc = "delta"
    /\ delta' = IF ref = NoData THEN cur ELSE cur - ref
    /\ bpc' = "prompt"
    /\ UNCHANGED <<server, sub, store, bgen, bstart, bquiet, cleared, cur, cmds>>

Main == PublishNow \/ BarrierTick \/ Clear \/ DeltaReadReference

Next ==
    \/ Count \/ PublishStats \/ Event \/ Subscriber
    \/ BarrierCall \/ BarrierTimeout \/ DeltaReadCounter \/ Main

Spec     == Init /\ [][Next]_vars
FairSpec == Spec /\ WF_vars(Subscriber) /\ WF_vars(Main)

-----------------------------------------------------------------------------
(* Properties *)

\* Types of the server's, the subscriber's and the store's state.
TypeOK ==
    /\ ctr \in 0 .. MaxCtr /\ Len(pub) <= PubCap
    /\ latest \in {NoData} \cup (0 .. MaxCtr) /\ ref \in {NoData} \cup (0 .. MaxCtr)
    /\ gen \in Nat /\ expected \in 0 .. MaxEvents /\ gaps \in Nat
    /\ bpc \in {"prompt", "publish", "wait", "fresh", "delta"}

\* Server events are dispatched in the server's order, none twice, however
\* triggers and pulls interleave; one that is lost between two dispatched ones
\* makes checkSeq report a gap.
EventsAccounted ==
    /\ \A m, n \in 1 .. Len(delivered) : m < n => delivered[m] < delivered[n]
    /\ (\E n \in 1 .. Len(delivered) - 1 : delivered[n + 1] # delivered[n] + 1) => gaps > 0

\* "guaranteeing the stats store holds current data": with no older publication
\* on its way when Barrier is called, what it returns with is no older than the
\* call.  (Otherwise that publication ends it.)
BarrierFreshWhenQuiet == (bpc = "fresh" /\ bquiet) => latest >= bstart

\* The same with no condition, as the comment of Barrier has it.  It fails: the
\* generation advances with every message the subscriber dispatches, one that was
\* published before the call too.
BarrierFresh == bpc = "fresh" => latest >= bstart

\* After such a clear the stats command shows only what was counted after the
\* clear command was given ("Baseline stats counters."), never a negative count.
DeltaSinceClear ==
    (bpc = "prompt" /\ cleared # NoData) => delta \in 0 .. (ctr - cleared)

\* Barrier ends by itself, without its deadline: a message it asked for arrives.
BarrierEnds == (bpc = "publish") ~> (bpc \in {"fresh", "prompt"})

=============================================================================
