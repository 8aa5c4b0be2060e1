-------------------------- MODULE AsyncStatsProofs ---------------------------
(***************************************************************************)
(* TLAPS proofs about the asynchronous side of a client, for any values of *)
(* the bounds.                                                             *)
(***************************************************************************)
EXTENDS AsyncStats, TLAPS

Msgs         == {Global(v) : v \in 0 .. MaxCtr} \cup {Flow, Trigger}
IsGlobal(m)  == m.name = "trex-global"
IsTrigger(m) == m.name = ""
Val(m)       == m.val

Types ==
    /\ ctr \in 0 .. MaxCtr /\ pub \in Seq(Msgs) /\ Len(pub) <= PubCap
    /\ latest \in {NoData} \cup (0 .. MaxCtr) /\ ref \in {NoData} \cup (0 .. MaxCtr)
    /\ gen \in Nat /\ bgen \in Nat
    /\ bpc \in {"prompt", "publish", "wait", "fresh", "delta"}
    /\ bstart \in 0 .. MaxCtr /\ bstart <= ctr /\ bquiet \in BOOLEAN
    /\ cleared \in {NoData} \cup (0 .. MaxCtr) /\ cleared <= ctr
    /\ cur \in 0 .. MaxCtr /\ cur <= ctr /\ delta \in Int

\* The counter only grows and the SUB channel keeps its order: the reference, the
\* latest value, the values on their way and the server's are in this order.
Monotone ==
    /\ ref <= latest /\ latest <= ctr
    /\ \A i \in 1 .. Len(pub) : IsGlobal(pub[i]) => latest <= Val(pub[i]) /\ Val(pub[i]) <= ctr
    /\ \A i, j \in 1 .. Len(pub) :
          i < j /\ IsGlobal(pub[i]) /\ IsGlobal(pub[j]) => Val(pub[i]) <= Val(pub[j])

\* A Barrier called with the channel empty: all that is on its way was counted
\* after the call, and the first statistics to be dispatched are global ones.
BarrierInv ==
    bpc \in {"publish", "wait", "fresh"} =>
        /\ bgen <= gen /\ (bpc = "fresh" => gen > bgen)
        /\ bquiet =>
              /\ \A i \in 1 .. Len(pub) : IsGlobal(pub[i]) => bstart <= Val(pub[i])
              /\ gen > bgen => bstart <= latest
              /\ gen = bgen => \A i \in 1 .. Len(pub) : pub[i] = Flow =>
                    \E j \in 1 .. Len(pub) : j < i /\ IsGlobal(pub[j])

\* What stats computes: between its two reads the reference stays, and after a
\* quiet clear the reference is no older than the command.
DeltaInv ==
    /\ bpc = "delta" => ref <= cur
    /\ cleared # NoData => cleared <= ref /\ 0 <= delta /\ delta <= ctr - cleared

StatsInv == Types /\ Monotone /\ BarrierInv /\ DeltaInv

Increasing(s) == \A m, n \in 1 .. Len(s) : m < n => s[m] < s[n]
Below(s, t)   == \A m \in 1 .. Len(s), n \in 1 .. Len(t) : s[m] < t[n]

\* The events dispatched, pulled and queued are in the server's order, and
\* checkSeq expects the successor of the last one dispatched.
EventInv ==
    /\ evSeq \in 0 .. MaxEvents /\ gaps \in Nat
    /\ evq \in Seq(Nat) /\ inbox \in Seq(Nat) /\ delivered \in Seq(Nat)
    /\ Increasing(delivered) /\ Increasing(inbox) /\ Increasing(evq)
    /\ Below(delivered, inbox) /\ Below(delivered, evq) /\ Below(inbox, evq)
    /\ \A n \in 1 .. Len(delivered) : delivered[n] < evSeq
    /\ \A n \in 1 .. Len(inbox) : inbox[n] < evSeq
    /\ \A n \in 1 .. Len(evq) : evq[n] < evSeq
    /\ expected = IF delivered = <<>> THEN 0 ELSE delivered[Len(delivered)] + 1
    /\ EventsAccounted

\* The inductive invariant.
IInv == StatsInv /\ EventInv

-----------------------------------------------------------------------------
(* Messages and sequences *)

\* The three kinds of messages are told apart by their names.
LEMMA MsgFacts ==
    /\ \A m \in Msgs : /\ IsGlobal(m) => Val(m) \in 0 .. MaxCtr
                       /\ ~IsTrigger(m) /\ ~IsGlobal(m) => m = Flow
                       /\ IsTrigger(m) => m = Trigger
    /\ ~IsGlobal(Flow) /\ ~IsGlobal(Trigger) /\ Flow # Trigger
    /\ \A v \in 0 .. MaxCtr :
          Global(v) \in Msgs /\ IsGlobal(Global(v)) /\ Val(Global(v)) = v /\ Global(v) # Flow
    /\ Flow \in Msgs /\ Trigger \in Msgs
<1>1. Flow.name = "flow_stats" /\ Trigger.name = "" BY DEF Flow, Trigger
<1>2. \A v : Global(v).name = "trex-global" /\ Global(v).val = v BY DEF Global
<1>3. \A v : Global(v) # Flow BY <1>1, <1>2
<1>4. Flow # Trigger BY <1>1
<1> QED BY <1>1, <1>2, <1>3, <1>4 DEF Msgs, IsGlobal, IsTrigger, Val

\* The elements of a tail.
LEMMA TailFacts ==
    ASSUME NEW S, NEW s \in Seq(S), s # <<>>
    PROVE  /\ Head(s) = s[1] /\ Head(s) \in S /\ 1 \in 1 .. Len(s) /\ Tail(s) \in Seq(S)
           /\ Len(s) \in Nat /\ Len(Tail(s)) = Len(s) - 1
           /\ \A k \in 1 .. Len(Tail(s)) : k + 1 \in 1 .. Len(s) /\ Tail(s)[k] = s[k + 1]
           /\ \A k \in 2 .. Len(s) : k - 1 \in 1 .. Len(Tail(s)) /\ Tail(s)[k - 1] = s[k]
OBVIOUS

\* The elements of a sequence after those of another.
LEMMA ConcatFacts ==
    ASSUME NEW S, NEW s \in Seq(S), NEW t \in Seq(S)
    PROVE  /\ s \o t \in Seq(S) /\ Len(s) \in Nat /\ Len(t) \in Nat
           /\ Len(s \o t) = Len(s) + Len(t)
           /\ \A k \in 1 .. Len(s) : k \in 1 .. Len(s \o t) /\ (s \o t)[k] = s[k]
           /\ \A k \in 1 .. Len(t) : /\ Len(s) + k \in 1 .. Len(s \o t)
                                     /\ (s \o t)[Len(s) + k] = t[k]
           /\ \A k \in 1 .. Len(s \o t) : k \in 1 .. Len(s) \/ (k - Len(s)) \in 1 .. Len(t)
OBVIOUS

-----------------------------------------------------------------------------
(* The statistics *)

\* The server publishes: what it appends carries the present counter, and its
\* flow statistics follow global ones.
LEMMA ExtendInv ==
    ASSUME StatsInv, NEW t \in Seq(Msgs), pub' = pub \o t, Len(pub') <= PubCap,
           \A k \in 1 .. Len(t) : IsGlobal(t[k]) => Val(t[k]) = ctr,
           \A k \in 1 .. Len(t) : t[k] = Flow => \E j \in 1 .. Len(t) : j < k /\ IsGlobal(t[j]),
           \A j, k \in 1 .. Len(t) : IsGlobal(t[j]) /\ IsGlobal(t[k]) => j = k,
           UNCHANGED <<ctr, latest, ref, gen, bgen, bstart, bquiet, cleared, cur, delta>>,
           bpc' = bpc \/ (bpc = "publish" /\ bpc' = "wait")
    PROVE  StatsInv'
<1>1. /\ pub \in Seq(Msgs) /\ ctr \in 0 .. MaxCtr /\ latest <= ctr /\ bstart <= ctr
      /\ latest \in Int /\ bstart \in Int
  BY DEF StatsInv, Types, Monotone, NoData
<1>2. /\ pub' \in Seq(Msgs) /\ Len(pub) \in Nat
      /\ \A k \in 1 .. Len(pub) : k \in 1 .. Len(pub') /\ pub'[k] = pub[k]
      /\ \A k \in 1 .. Len(t) : Len(pub) + k \in 1 .. Len(pub') /\ pub'[Len(pub) + k] = t[k]
      /\ \A k \in 1 .. Len(pub') : k \in 1 .. Len(pub) \/ (k - Len(pub)) \in 1 .. Len(t)
  BY <1>1, ConcatFacts
<1>3. Types'
  BY <1>2 DEF StatsInv, Types
<1>4. \A k \in 1 .. Len(pub') :
         \/ k \in 1 .. Len(pub) /\ pub'[k] = pub[k]
         \/ k > Len(pub) /\ k - Len(pub) \in 1 .. Len(t) /\ pub'[k] = t[k - Len(pub)]
  BY <1>2
<1>5. Monotone'
  <2>1. \A i \in 1 .. Len(pub') : IsGlobal(pub'[i]) => latest <= Val(pub'[i]) /\ Val(pub'[i]) <= ctr
    BY <1>1, <1>4 DEF StatsInv, Monotone
  <2>2. \A i, j \in 1 .. Len(pub') :
           i < j /\ IsGlobal(pub'[i]) /\ IsGlobal(pub'[j]) => Val(pub'[i]) <= Val(pub'[j])
    <3> SUFFICES ASSUME NEW i \in 1 .. Len(pub'), NEW j \in 1 .. Len(pub'), i < j,
                        IsGlobal(pub'[i]), IsGlobal(pub'[j])
                 PROVE  Val(pub'[i]) <= Val(pub'[j])
      OBVIOUS
    <3>1. CASE j > Len(pub)
      <4>1. Val(pub'[j]) = ctr BY <1>1, <1>2, <1>4, <3>1
      <4> QED BY <2>1, <4>1
    <3>2. CASE j <= Len(pub)
      <4>1. /\ i \in 1 .. Len(pub) /\ j \in 1 .. Len(pub)
            /\ pub'[i] = pub[i] /\ pub'[j] = pub[j]
        BY <1>2, <3>2
      <4> QED BY <4>1 DEF StatsInv, Monotone
    <3> QED BY <1>2, <3>1, <3>2
  <2> QED BY <2>1, <2>2 DEF StatsInv, Monotone, IsGlobal, Val
<1>6. BarrierInv'
  <2> SUFFICES ASSUME bpc' \in {"publish", "wait", "fresh"} PROVE BarrierInv' BY DEF BarrierInv
  <2>1. /\ bpc \in {"publish", "wait", "fresh"}
        /\ bgen <= gen /\ (bpc' = "fresh" => gen > bgen)
        /\ bquiet => /\ \A i \in 1 .. Len(pub) : IsGlobal(pub[i]) => bstart <= Val(pub[i])
                     /\ gen > bgen => bstart <= latest
                     /\ gen = bgen => \A i \in 1 .. Len(pub) : pub[i] = Flow =>
                           \E j \in 1 .. Len(pub) : j < i /\ IsGlobal(pub[j])
    BY DEF StatsInv, BarrierInv
  <2>2. bquiet => \A i \in 1 .. Len(pub') : IsGlobal(pub'[i]) => bstart <= Val(pub'[i])
    BY <1>1, <1>4, <2>1
  <2>3. ASSUME bquiet, gen = bgen, NEW i \in 1 .. Len(pub'), pub'[i] = Flow
        PROVE  \E j \in 1 .. Len(pub') : j < i /\ IsGlobal(pub'[j])
    <3>1. CASE i \in 1 .. Len(pub)
      <4>1. PICK j \in 1 .. Len(pub) : j < i /\ IsGlobal(pub[j]) BY <1>2, <2>1, <2>3, <3>1
      <4> QED BY <1>2, <4>1
    <3>2. CASE i > Len(pub) /\ i - Len(pub) \in 1 .. Len(t) /\ pub'[i] = t[i - Len(pub)]
      <4>1. PICK j \in 1 .. Len(t) : j < i - Len(pub) /\ IsGlobal(t[j]) BY <2>3, <3>2
      <4>2. Len(pub) + j < i BY <1>2, <4>1
      <4> QED BY <1>2, <4>1, <4>2
    <3> QED BY <1>4, <3>1, <3>2
  <2> QED BY <2>1, <2>2, <2>3 DEF BarrierInv, IsGlobal, Val
<1>7. DeltaInv'
  BY DEF StatsInv, DeltaInv
<1> QED BY <1>3, <1>5, <1>6, <1>7 DEF StatsInv

\* The server publishes by itself, or an event's trigger, or because it was asked.
LEMMA PublishInv == ASSUME StatsInv, PublishStats \/ Event \/ PublishNow PROVE StatsInv'
<1>1. /\ ctr \in 0 .. MaxCtr /\ pub \in Seq(Msgs) /\ Len(pub) \in Nat /\ PubCap \in Nat
  BY AsyncAssumption DEF StatsInv, Types
<1>2. /\ Global(ctr) \in Msgs /\ IsGlobal(Global(ctr)) /\ Val(Global(ctr)) = ctr
      /\ Global(ctr) # Flow
  BY <1>1, MsgFacts
<1>3. UNCHANGED <<ctr, latest, ref, gen, bgen, bstart, bquiet, cleared, cur, delta>>
  BY DEF PublishStats, Event, PublishNow, store, main
<1>4. CASE PublishStats
  <2> DEFINE t == <<Global(ctr), Flow>>
  <2>1. t \in Seq(Msgs) /\ Len(t) = 2 /\ t[1] = Global(ctr) /\ t[2] = Flow BY <1>2, MsgFacts
  <2>2. pub' = pub \o t /\ bpc' = bpc /\ Len(pub) + 2 <= PubCap
    BY <1>4 DEF PublishStats, main, Stats
  <2>3. Len(pub') <= PubCap BY <1>1, <2>1, <2>2, ConcatFacts
  <2>4. 1 .. Len(t) = {1, 2} BY <2>1
  <2> HIDE DEF t
  <2>5. \A k \in 1 .. Len(t) : /\ IsGlobal(t[k]) => k = 1 /\ Val(t[k]) = ctr
                               /\ t[k] = Flow => 1 < k /\ IsGlobal(t[1])
    BY <1>2, <2>1, <2>4, MsgFacts
  <2>6. \A k \in 1 .. Len(t) : t[k] = Flow => \E j \in 1 .. Len(t) : j < k /\ IsGlobal(t[j])
    BY <2>4, <2>5
  <2> QED BY <1>3, <2>1, <2>2, <2>3, <2>5, <2>6, ExtendInv
<1>5. CASE Event
  <2> DEFINE t == <<Trigger>>
  <2>1. t \in Seq(Msgs) /\ Len(t) = 1 /\ t[1] = Trigger BY MsgFacts
  <2>2. pub' = pub \o t /\ bpc' = bpc /\ Len(pub) + 1 <= PubCap
    <3>1. Append(pub, Trigger) = pub \o t BY <1>1, MsgFacts
    <3> QED BY <1>1, <1>5, <3>1 DEF Event, main
  <2>3. Len(pub') <= PubCap BY <1>1, <2>1, <2>2, ConcatFacts
  <2> HIDE DEF t
  <2> QED BY <1>2, <1>3, <2>1, <2>2, <2>3, MsgFacts, ExtendInv
<1>6. CASE PublishNow
  <2> DEFINE t == Append(Stats(ctr), Trigger)
  <2>1. /\ t \in Seq(Msgs) /\ Len(t) = 3
        /\ t[1] = Global(ctr) /\ t[2] = Flow /\ t[3] = Trigger
    BY <1>2, MsgFacts DEF Stats
  <2>2. pub' = pub \o t /\ bpc = "publish" /\ bpc' = "wait" /\ Len(pub) + 3 <= PubCap
    BY <1>6 DEF PublishNow
  <2>3. Len(pub') <= PubCap BY <1>1, <2>1, <2>2, ConcatFacts
  <2>4. 1 .. Len(t) = {1, 2, 3} BY <2>1
  <2> HIDE DEF t
  <2>5. \A k \in 1 .. Len(t) : /\ IsGlobal(t[k]) => k = 1 /\ Val(t[k]) = ctr
                               /\ t[k] = Flow => 1 < k /\ IsGlobal(t[1])
    BY <1>2, <2>1, <2>4, MsgFacts
  <2>6. \A k \in 1 .. Len(t) : t[k] = Flow => \E j \in 1 .. Len(t) : j < k /\ IsGlobal(t[j])
    BY <2>4, <2>5
  <2> QED BY <1>3, <2>1, <2>2, <2>3, <2>5, <2>6, ExtendInv
<1> QED BY <1>4, <1>5, <1>6

\* Store.Dispatch: the latest value moves up to the first one on its way.
LEMMA HandleInv == ASSUME StatsInv, HandleStats PROVE StatsInv'
<1>1. /\ pub # <<>> /\ ~IsTrigger(Head(pub)) /\ pub' = Tail(pub) /\ gen' = gen + 1
      /\ latest' = IF IsGlobal(Head(pub)) THEN Val(Head(pub)) ELSE latest
      /\ UNCHANGED <<ctr, ref, bpc, bgen, bstart, bquiet, cleared, cur, delta, cmds>>
  BY DEF HandleStats, main, IsGlobal, IsTrigger, Val
<1>2. /\ ctr \in 0 .. MaxCtr /\ pub \in Seq(Msgs) /\ gen \in Nat /\ bgen \in Nat
      /\ latest \in Int /\ ref \in Int /\ latest <= ctr /\ ref <= latest
  BY DEF StatsInv, Types, Monotone, NoData
<1>3. /\ Head(pub) = pub[1] /\ Head(pub) \in Msgs /\ 1 \in 1 .. Len(pub)
      /\ pub' \in Seq(Msgs) /\ Len(pub') = Len(pub) - 1 /\ Len(pub) \in Nat
      /\ \A k \in 1 .. Len(pub') : k + 1 \in 1 .. Len(pub) /\ pub'[k] = pub[k + 1]
  BY <1>1, <1>2, TailFacts
<1>4. IsGlobal(pub[1]) => Val(pub[1]) \in 0 .. MaxCtr /\ latest <= Val(pub[1]) /\ Val(pub[1]) <= ctr
  BY <1>3, MsgFacts DEF StatsInv, Monotone
<1>5. /\ latest' \in {NoData} \cup (0 .. MaxCtr) /\ latest <= latest' /\ latest' <= ctr
  BY <1>1, <1>2, <1>3, <1>4 DEF StatsInv, Types
<1>6. Types'
  BY <1>1, <1>2, <1>3, <1>5, AsyncAssumption DEF StatsInv, Types
<1>7. \A i \in 1 .. Len(pub') : IsGlobal(pub'[i]) => latest' <= Val(pub'[i]) /\ Val(pub'[i]) <= ctr
  BY <1>1, <1>2, <1>3 DEF StatsInv, Monotone
<1>8. Monotone'
  <2>1. \A i, j \in 1 .. Len(pub') :
           i < j /\ IsGlobal(pub'[i]) /\ IsGlobal(pub'[j]) => Val(pub'[i]) <= Val(pub'[j])
    BY <1>3 DEF StatsInv, Monotone
  <2>2. ref' <= latest' BY <1>1, <1>2, <1>5, <1>6 DEF Types, NoData
  <2> QED BY <1>1, <1>5, <1>7, <2>1, <2>2 DEF Monotone, IsGlobal, Val
<1>9. BarrierInv'
  <2> SUFFICES ASSUME bpc' \in {"publish", "wait", "fresh"} PROVE BarrierInv' BY DEF BarrierInv
  <2>1. gen' > bgen /\ bgen' = bgen
    BY <1>1, <1>2 DEF StatsInv, BarrierInv
  <2>2. ASSUME bquiet PROVE bstart <= latest'
    <3>1. CASE IsGlobal(pub[1])
      BY <1>1, <1>3, <2>2, <3>1 DEF StatsInv, BarrierInv
    <3>2. CASE ~IsGlobal(pub[1])
      <4>1. pub[1] = Flow BY <1>1, <1>3, <3>2, MsgFacts
      <4>2. gen # bgen BY <1>1, <1>3, <2>2, <4>1 DEF StatsInv, BarrierInv
      <4>3. bstart <= latest BY <1>1, <1>2, <2>2, <4>2 DEF StatsInv, BarrierInv
      <4> QED BY <1>1, <1>3, <3>2, <4>3
    <3> QED BY <3>1, <3>2
  <2>3. bquiet => \A i \in 1 .. Len(pub') : IsGlobal(pub'[i]) => bstart <= Val(pub'[i])
    BY <1>1, <1>3 DEF StatsInv, BarrierInv
  <2>4. gen' # bgen' /\ bgen' <= gen' BY <1>1, <1>2, <2>1
  <2> QED BY <1>1, <2>1, <2>2, <2>3, <2>4 DEF BarrierInv, IsGlobal, Val
<1>10. DeltaInv'
  BY <1>1 DEF StatsInv, DeltaInv
<1> QED BY <1>6, <1>8, <1>9, <1>10 DEF StatsInv

\* A pull only takes the trigger off the channel.
LEMMA PullInv == ASSUME StatsInv, Pull PROVE StatsInv'
<1>1. /\ pub # <<>> /\ IsTrigger(Head(pub)) /\ pub' = Tail(pub)
      /\ UNCHANGED <<ctr, latest, gen, ref, bpc, bgen, bstart, bquiet, cleared, cur, delta, cmds>>
  BY DEF Pull, main, store, IsTrigger
<1>2. pub \in Seq(Msgs) BY DEF StatsInv, Types
<1>3. /\ Head(pub) = pub[1] /\ pub[1] = Trigger /\ Len(pub) \in Nat
      /\ pub' \in Seq(Msgs) /\ Len(pub') = Len(pub) - 1
      /\ \A k \in 1 .. Len(pub') : k + 1 \in 1 .. Len(pub) /\ pub'[k] = pub[k + 1]
      /\ \A k \in 2 .. Len(pub) : k - 1 \in 1 .. Len(pub') /\ pub'[k - 1] = pub[k]
  BY <1>1, <1>2, TailFacts, MsgFacts
<1>4. Types'
  BY <1>1, <1>3, AsyncAssumption DEF StatsInv, Types
<1>5. Monotone'
  BY <1>1, <1>3 DEF StatsInv, Monotone, IsGlobal, Val
<1>6. BarrierInv'
  <2> SUFFICES ASSUME bpc' \in {"publish", "wait", "fresh"} PROVE BarrierInv' BY DEF BarrierInv
  <2>1. bquiet => \A i \in 1 .. Len(pub') : IsGlobal(pub'[i]) => bstart <= Val(pub'[i])
    BY <1>1, <1>3 DEF StatsInv, BarrierInv
  <2>2. ASSUME bquiet, gen = bgen, NEW i \in 1 .. Len(pub'), pub'[i] = Flow
        PROVE  \E j \in 1 .. Len(pub') : j < i /\ IsGlobal(pub'[j])
    <3>1. i + 1 \in 1 .. Len(pub) /\ pub[i + 1] = Flow BY <1>3, <2>2
    <3>2. PICK j \in 1 .. Len(pub) : j < i + 1 /\ IsGlobal(pub[j])
      BY <1>1, <2>2, <3>1 DEF StatsInv, BarrierInv
    <3>3. j # 1 BY <1>3, <3>2, MsgFacts
    <3>4. j - 1 \in 1 .. Len(pub') /\ pub'[j - 1] = pub[j] /\ j - 1 < i BY <1>3, <3>2, <3>3
    <3> QED BY <3>2, <3>4
  <2> QED BY <1>1, <2>1, <2>2 DEF StatsInv, BarrierInv, IsGlobal, Val
<1>7. DeltaInv'
  BY <1>1 DEF StatsInv, DeltaInv
<1> QED BY <1>4, <1>5, <1>6, <1>7 DEF StatsInv

\* The counter moves on.
LEMMA CountInv == ASSUME StatsInv, Count PROVE StatsInv'
<1>1. /\ ctr' = ctr + 1 /\ ctr < MaxCtr
      /\ UNCHANGED <<pub, latest, gen, ref, bpc, bgen, bstart, bquiet, cleared, cur, delta, cmds>>
  BY DEF Count, store, main
<1>2. Types'
  BY <1>1, AsyncAssumption DEF StatsInv, Types, NoData
<1>3. \A i \in 1 .. Len(pub) : IsGlobal(pub[i]) => Val(pub[i]) \in Int
  <2>1. \A i \in 1 .. Len(pub) : pub[i] \in Msgs BY DEF StatsInv, Types
  <2> QED BY <2>1, MsgFacts
<1>4. Monotone'
  BY <1>1, <1>3 DEF StatsInv, Types, Monotone, IsGlobal, Val, NoData
<1>5. BarrierInv'
  BY <1>1 DEF StatsInv, BarrierInv, IsGlobal, Val
<1>6. DeltaInv'
  BY <1>1 DEF StatsInv, Types, DeltaInv
<1> QED BY <1>2, <1>4, <1>5, <1>6 DEF StatsInv

\* Barrier, clear and stats.
LEMMA MainInv ==
    ASSUME StatsInv,
           BarrierCall \/ BarrierTick \/ BarrierTimeout \/ Clear \/ DeltaReadCounter \/ DeltaReadReference
    PROVE  StatsInv'
<1>1. UNCHANGED <<ctr, pub, latest, gen>>
  BY DEF BarrierCall, BarrierTick, BarrierTimeout, Clear, DeltaReadCounter, DeltaReadReference,
         server, store
<1>2. /\ ctr \in 0 .. MaxCtr /\ latest \in {NoData} \cup (0 .. MaxCtr) /\ gen \in Nat /\ bgen \in Nat
      /\ ref \in {NoData} \cup (0 .. MaxCtr) /\ latest <= ctr /\ ref <= latest
      /\ bstart \in 0 .. MaxCtr /\ bstart <= ctr /\ bquiet \in BOOLEAN
      /\ cleared \in {NoData} \cup (0 .. MaxCtr) /\ cleared <= ctr
      /\ cur \in 0 .. MaxCtr /\ cur <= ctr /\ delta \in Int
  BY DEF StatsInv, Types, Monotone
<1>3. ASSUME ref' = ref \/ ref' = latest PROVE Monotone'
  BY <1>1, <1>2, <1>3 DEF StatsInv, Monotone, IsGlobal, Val, NoData
<1>4. CASE BarrierCall
  <2>1. /\ bgen' = gen /\ bstart' = ctr /\ bquiet' = (pub = <<>>) /\ bpc' = "publish"
        /\ UNCHANGED <<ref, cleared, cur, delta>>
    BY <1>4 DEF BarrierCall, store
  <2>2. bquiet' \in BOOLEAN BY <2>1, Zenon
  <2>3. Types' BY <1>1, <1>2, <2>1, <2>2 DEF StatsInv, Types
  <2>4. bquiet' => Len(pub') = 0
    <3>1. Len(<<>>) = 0 OBVIOUS
    <3> QED BY <1>1, <2>1, <3>1, Zenon
  <2>5. BarrierInv' BY <1>1, <1>2, <2>1, <2>4 DEF BarrierInv
  <2>6. DeltaInv' BY <1>1, <2>1 DEF StatsInv, DeltaInv
  <2> QED BY <1>3, <2>1, <2>3, <2>5, <2>6 DEF StatsInv
<1>5. CASE BarrierTick \/ BarrierTimeout
  <2>1. /\ UNCHANGED <<ref, bgen, bstart, bquiet, cleared, cur, delta>>
        /\ bpc \in {"publish", "wait"} /\ bpc' \in {"prompt", "publish", "fresh"}
        /\ bpc' = "fresh" => gen > bgen
    BY <1>5 DEF BarrierTick, BarrierTimeout, store
  <2>2. Types' BY <1>1, <2>1 DEF StatsInv, Types
  <2>3. BarrierInv' BY <1>1, <2>1 DEF StatsInv, BarrierInv, IsGlobal, Val
  <2>4. DeltaInv' BY <1>1, <2>1 DEF StatsInv, DeltaInv
  <2> QED BY <1>3, <2>1, <2>2, <2>3, <2>4 DEF StatsInv
<1>6. CASE Clear
  <2>1. /\ bpc = "fresh" /\ bpc' = "prompt" /\ ref' = latest /\ delta' = 0
        /\ cleared' = IF bquiet THEN bstart ELSE NoData
        /\ UNCHANGED <<bgen, bstart, bquiet, cur>>
    BY <1>6 DEF Clear
  <2>2. Types' BY <1>1, <1>2, <2>1 DEF StatsInv, Types, NoData
  <2>3. BarrierInv' BY <2>1 DEF BarrierInv
  <2>4. bquiet => bstart <= latest BY <2>1 DEF StatsInv, BarrierInv
  <2>5. DeltaInv' BY <1>1, <1>2, <2>1, <2>4 DEF DeltaInv, NoData
  <2> QED BY <1>3, <2>1, <2>2, <2>3, <2>5 DEF StatsInv
<1>7. CASE DeltaReadCounter
  <2>1. /\ latest # NoData /\ cur' = latest /\ bpc' = "delta"
        /\ UNCHANGED <<ref, bgen, bstart, bquiet, cleared, delta>>
    BY <1>7 DEF DeltaReadCounter, store
  <2>2. Types' BY <1>1, <1>2, <2>1 DEF StatsInv, Types
  <2>3. BarrierInv' BY <2>1 DEF BarrierInv
  <2>4. DeltaInv' BY <1>1, <1>2, <2>1 DEF StatsInv, DeltaInv
  <2> QED BY <1>3, <2>1, <2>2, <2>3, <2>4 DEF StatsInv
<1>8. CASE DeltaReadReference
  <2>1. /\ bpc = "delta" /\ delta' = (IF ref = NoData THEN cur ELSE cur - ref) /\ bpc' = "prompt"
        /\ UNCHANGED <<ref, bgen, bstart, bquiet, cleared, cur>>
    BY <1>8 DEF DeltaReadReference, store
  <2>2. Types' BY <1>1, <1>2, <2>1 DEF StatsInv, Types, NoData
  <2>3. BarrierInv' BY <2>1 DEF BarrierInv
  <2>4. DeltaInv' BY <1>1, <1>2, <2>1 DEF StatsInv, DeltaInv, NoData
  <2> QED BY <1>3, <2>1, <2>2, <2>3, <2>4 DEF StatsInv
<1> QED BY <1>4, <1>5, <1>6, <1>7, <1>8

-----------------------------------------------------------------------------
(* The server's events *)

\* The elements of a sequence with one more.
LEMMA AppendFacts ==
    ASSUME NEW S, NEW s \in Seq(S), NEW x \in S
    PROVE  /\ Append(s, x) \in Seq(S) /\ Append(s, x) # <<>> /\ Len(s) \in Nat
           /\ Len(Append(s, x)) = Len(s) + 1 /\ Append(s, x)[Len(s) + 1] = x
           /\ \A k \in 1 .. Len(s) : Append(s, x)[k] = s[k]
OBVIOUS

\* An event takes the next number.
LEMMA EventQueued == ASSUME EventInv, Event PROVE EventInv'
<1>1. /\ evSeq < MaxEvents /\ evq' = Append(evq, evSeq) /\ evSeq' = evSeq + 1
      /\ UNCHANGED <<inbox, expected, gaps, delivered>>
  BY DEF Event, sub
<1>2. /\ evSeq \in Nat /\ MaxEvents \in Nat /\ evq \in Seq(Nat)
      /\ inbox \in Seq(Nat) /\ delivered \in Seq(Nat)
  BY AsyncAssumption DEF EventInv
<1>3. /\ evq' \in Seq(Nat) /\ Len(evq') = Len(evq) + 1 /\ Len(evq) \in Nat
      /\ evq'[Len(evq) + 1] = evSeq
      /\ \A k \in 1 .. Len(evq) : evq'[k] = evq[k]
  BY <1>1, <1>2
<1>4. \A k \in 1 .. Len(evq') : (k \in 1 .. Len(evq) /\ evq'[k] = evq[k])
                                 \/ (k = Len(evq) + 1 /\ evq'[k] = evSeq)
  BY <1>3
<1>5. /\ \A n \in 1 .. Len(delivered) : delivered[n] \in Nat /\ delivered[n] < evSeq
      /\ \A n \in 1 .. Len(inbox) : inbox[n] \in Nat /\ inbox[n] < evSeq
      /\ \A n \in 1 .. Len(evq) : evq[n] \in Nat /\ evq[n] < evSeq
  BY <1>2 DEF EventInv
<1>6. Increasing(evq')
  <2>1. \A m, n \in 1 .. Len(evq) : m < n => evq[m] < evq[n] BY DEF EventInv, Increasing
  <2> SUFFICES ASSUME NEW m \in 1 .. Len(evq'), NEW n \in 1 .. Len(evq'), m < n
               PROVE  evq'[m] < evq'[n]
    BY DEF Increasing
  <2>2. m \in 1 .. Len(evq) /\ evq'[m] = evq[m] BY <1>3, <1>4
  <2>3. CASE n \in 1 .. Len(evq) /\ evq'[n] = evq[n] BY <2>1, <2>2, <2>3
  <2>4. CASE n = Len(evq) + 1 /\ evq'[n] = evSeq BY <1>5, <2>2, <2>4
  <2> QED BY <1>4, <2>3, <2>4
<1>7. Below(delivered, evq') /\ Below(inbox, evq')
  BY <1>4, <1>5 DEF EventInv, Below
<1>8. /\ \A n \in 1 .. Len(delivered) : delivered[n] < evSeq'
      /\ \A n \in 1 .. Len(inbox) : inbox[n] < evSeq'
      /\ \A n \in 1 .. Len(evq') : evq'[n] < evSeq'
  BY <1>1, <1>2, <1>4, <1>5
<1>9. EventsAccounted' BY <1>1 DEF EventInv, EventsAccounted
<1>10. evSeq' \in 0 .. MaxEvents BY <1>1, <1>2
<1> QED BY <1>1, <1>3, <1>6, <1>7, <1>8, <1>9, <1>10 DEF EventInv, Increasing, Below

\* A pull takes all that is queued, or loses it.
LEMMA EventPulled == ASSUME EventInv, Pull PROVE EventInv'
<1>1. /\ inbox = <<>> /\ evq' = <<>> /\ inbox' \in {evq, <<>>}
      /\ UNCHANGED <<evSeq, expected, gaps, delivered>>
  BY DEF Pull, Idle
<1>2. Len(<<>>) = 0 /\ <<>> \in Seq(Nat) OBVIOUS
<1>3. Len(evq') = 0 /\ evq' \in Seq(Nat) BY <1>1, <1>2, Zenon
<1>4. /\ Increasing(inbox') /\ Below(delivered, inbox') /\ inbox' \in Seq(Nat)
      /\ \A n \in 1 .. Len(inbox') : inbox'[n] < evSeq
  <2>1. CASE inbox' = evq BY <2>1 DEF EventInv
  <2>2. CASE inbox' = <<>>
    <3>1. Len(inbox') = 0 /\ inbox' \in Seq(Nat) BY <1>2, <2>2, Zenon
    <3> QED BY <3>1 DEF Increasing, Below
  <2> QED BY <1>1, <2>1, <2>2
<1>5. /\ Increasing(evq') /\ Below(delivered, evq') /\ Below(inbox', evq')
      /\ \A n \in 1 .. Len(evq') : evq'[n] < evSeq
  BY <1>3 DEF Increasing, Below
<1>6. EventsAccounted' BY <1>1 DEF EventInv, EventsAccounted
<1> QED BY <1>1, <1>3, <1>4, <1>5, <1>6 DEF EventInv, Increasing, Below

\* A dispatch: the event follows all that were dispatched, and when it does not
\* follow the last one directly checkSeq reports a gap.
LEMMA EventDispatched == ASSUME EventInv, DispatchEvent PROVE EventInv'
<1> DEFINE e == Head(inbox)
<1>1. /\ inbox # <<>> /\ expected' = e + 1
      /\ gaps' = (IF expected = 0 \/ e = 0 \/ e = expected THEN gaps ELSE gaps + 1)
      /\ delivered' = Append(delivered, e) /\ inbox' = Tail(inbox)
      /\ UNCHANGED <<evq, evSeq>>
  BY DEF DispatchEvent, checkSeq, server
<1>2. /\ evq \in Seq(Nat) /\ inbox \in Seq(Nat) /\ delivered \in Seq(Nat) /\ gaps \in Nat
      /\ evSeq \in 0 .. MaxEvents
  BY DEF EventInv
<1>3. /\ e = inbox[1] /\ e \in Nat /\ 1 \in 1 .. Len(inbox)
      /\ inbox' \in Seq(Nat) /\ Len(inbox) \in Nat /\ Len(inbox') = Len(inbox) - 1
      /\ \A k \in 1 .. Len(inbox') : k + 1 \in 1 .. Len(inbox) /\ inbox'[k] = inbox[k + 1]
  BY <1>1, <1>2, TailFacts
<1>4. /\ delivered' \in Seq(Nat) /\ Len(delivered) \in Nat /\ Len(delivered') = Len(delivered) + 1
      /\ delivered'[Len(delivered) + 1] = e /\ delivered' # <<>>
      /\ \A k \in 1 .. Len(delivered) : delivered'[k] = delivered[k]
  BY <1>1, <1>2, <1>3, AppendFacts
<1> HIDE DEF e
<1>5. \A k \in 1 .. Len(delivered') : \/ k \in 1 .. Len(delivered) /\ delivered'[k] = delivered[k]
                                      \/ k = Len(delivered) + 1 /\ delivered'[k] = e
  BY <1>4
<1>6. /\ \A k \in 1 .. Len(delivered) : delivered[k] \in Nat /\ delivered[k] < e
      /\ \A k \in 1 .. Len(inbox') : e < inbox'[k] /\ inbox'[k] < evSeq
      /\ \A k \in 1 .. Len(evq) : e < evq[k]
      /\ e < evSeq
  <2>1. /\ \A m, n \in 1 .. Len(inbox) : m < n => inbox[m] < inbox[n]
        /\ \A m \in 1 .. Len(delivered), n \in 1 .. Len(inbox) : delivered[m] < inbox[n]
        /\ \A m \in 1 .. Len(inbox), n \in 1 .. Len(evq) : inbox[m] < evq[n]
        /\ \A n \in 1 .. Len(inbox) : inbox[n] < evSeq
    BY DEF EventInv, Increasing, Below
  <2>2. \A k \in 1 .. Len(delivered) : delivered[k] \in Nat BY <1>2
  <2>3. \A k \in 1 .. Len(inbox') : 1 < k + 1 OBVIOUS
  <2> QED BY <1>3, <2>1, <2>2, <2>3
<1>7. Increasing(delivered')
  <2>1. \A m, n \in 1 .. Len(delivered) : m < n => delivered[m] < delivered[n]
    BY DEF EventInv, Increasing
  <2> SUFFICES ASSUME NEW m \in 1 .. Len(delivered'), NEW n \in 1 .. Len(delivered'), m < n
               PROVE  delivered'[m] < delivered'[n]
    BY DEF Increasing
  <2>2. m \in 1 .. Len(delivered) /\ delivered'[m] = delivered[m] BY <1>4, <1>5
  <2>3. CASE n \in 1 .. Len(delivered) /\ delivered'[n] = delivered[n] BY <2>1, <2>2, <2>3
  <2>4. CASE n = Len(delivered) + 1 /\ delivered'[n] = e BY <1>6, <2>2, <2>4
  <2> QED BY <1>5, <2>3, <2>4
<1>8. Increasing(inbox')
  <2>1. \A m, n \in 1 .. Len(inbox) : m < n => inbox[m] < inbox[n] BY DEF EventInv, Increasing
  <2> SUFFICES ASSUME NEW m \in 1 .. Len(inbox'), NEW n \in 1 .. Len(inbox'), m < n
               PROVE  inbox'[m] < inbox'[n]
    BY DEF Increasing
  <2>2. m + 1 < n + 1 OBVIOUS
  <2> QED BY <1>3, <2>1, <2>2
<1>9. /\ Below(delivered', inbox') /\ Below(delivered', evq) /\ Below(inbox', evq)
  <2>1. \A m \in 1 .. Len(delivered), n \in 1 .. Len(inbox') : delivered[m] < inbox'[n]
    BY <1>3 DEF EventInv, Below
  <2>2. \A m \in 1 .. Len(delivered), n \in 1 .. Len(evq) : delivered[m] < evq[n]
    BY DEF EventInv, Below
  <2>3. Below(inbox', evq) BY <1>3 DEF EventInv, Below
  <2> QED BY <1>5, <1>6, <2>1, <2>2, <2>3 DEF Below
<1>10. \A n \in 1 .. Len(delivered') : delivered'[n] < evSeq
  <2>1. \A n \in 1 .. Len(delivered) : delivered[n] < evSeq BY DEF EventInv
  <2> QED BY <1>5, <1>6, <2>1
<1>11. expected' = delivered'[Len(delivered')] + 1 BY <1>1, <1>4
<1>12. gaps' \in Nat /\ gaps' >= gaps BY <1>1, <1>2
<1>13. EventsAccounted'
  <2>1. ASSUME NEW n \in 1 .. Len(delivered') - 1, delivered'[n + 1] # delivered'[n] + 1
        PROVE  gaps' > 0
    <3>1. n \in 1 .. Len(delivered) /\ delivered'[n] = delivered[n] BY <1>4
    <3>2. CASE n + 1 <= Len(delivered)
      <4>1. n \in 1 .. Len(delivered) - 1 /\ delivered'[n + 1] = delivered[n + 1]
        BY <1>4, <3>1, <3>2
      <4>2. gaps > 0 BY <2>1, <3>1, <4>1 DEF EventInv, EventsAccounted
      <4> QED BY <1>2, <1>12, <4>2
    <3>3. CASE n + 1 > Len(delivered)
      <4>1. n = Len(delivered) /\ delivered'[n + 1] = e BY <1>4, <3>1, <3>3
      <4>2. delivered # <<>> BY <1>4, <3>1
      <4>3. expected = delivered[n] + 1 BY <4>1, <4>2 DEF EventInv
      <4>4. delivered[n] \in Nat /\ delivered[n] < e BY <1>6, <3>1
      <4>5. e # expected /\ expected # 0 /\ e # 0 BY <1>3, <2>1, <3>1, <4>1, <4>3, <4>4
      <4> QED BY <1>1, <1>2, <4>5
    <3> QED BY <1>4, <3>2, <3>3
  <2> QED BY <1>7, <2>1 DEF EventsAccounted, Increasing
<1> QED BY <1>1, <1>2, <1>3, <1>4, <1>6, <1>7, <1>8, <1>9, <1>10, <1>11, <1>12, <1>13
        DEF EventInv, Increasing, Below

-----------------------------------------------------------------------------
(* The results *)

\* At the start nothing was published or dispatched.
THEOREM InitInv == Init => IInv
<1> SUFFICES ASSUME Init PROVE IInv OBVIOUS
<1>0. /\ pub = <<>> /\ evq = <<>> /\ inbox = <<>> /\ delivered = <<>>
      /\ ctr = 0 /\ latest = NoData /\ ref = NoData /\ gen = 0 /\ bgen = 0
      /\ bpc = "prompt" /\ bstart = 0 /\ bquiet = FALSE /\ cleared = NoData /\ cur = 0 /\ delta = 0
      /\ evSeq = 0 /\ expected = 0 /\ gaps = 0
  BY DEF Init
<1>1. Len(<<>>) = 0 /\ <<>> \in Seq(Nat) /\ <<>> \in Seq(Msgs) OBVIOUS
<1>2. /\ Len(pub) = 0 /\ Len(evq) = 0 /\ Len(inbox) = 0 /\ Len(delivered) = 0
      /\ pub \in Seq(Msgs) /\ evq \in Seq(Nat) /\ inbox \in Seq(Nat) /\ delivered \in Seq(Nat)
      /\ bquiet \in BOOLEAN
  BY <1>0, <1>1, Zenon
<1>3. Types BY <1>0, <1>2, AsyncAssumption DEF Types, NoData
<1>4. Monotone /\ BarrierInv /\ DeltaInv
  BY <1>0, <1>2 DEF Monotone, BarrierInv, DeltaInv, NoData
<1>5. EventInv
  BY <1>0, <1>2, AsyncAssumption DEF EventInv, Increasing, Below, EventsAccounted
<1> QED BY <1>3, <1>4, <1>5 DEF IInv, StatsInv

\* The statistics do not move.
LEMMA StatsSame ==
    ASSUME StatsInv, UNCHANGED <<ctr, pub, latest, gen, ref, bpc, bgen, bstart, bquiet, cleared, cur, delta>>
    PROVE  StatsInv'
BY DEF StatsInv, Types, Monotone, BarrierInv, DeltaInv

\* The events do not move.
LEMMA EventsSame ==
    ASSUME EventInv, UNCHANGED <<evq, evSeq, inbox, expected, gaps, delivered>>
    PROVE  EventInv'
BY DEF EventInv, Increasing, Below, EventsAccounted

\* Every step keeps the invariant.
THEOREM StepInv == IInv /\ [Next]_vars => IInv'
<1> SUFFICES ASSUME IInv, [Next]_vars PROVE IInv' OBVIOUS
<1> USE DEF IInv
<1>1. CASE Count BY <1>1, CountInv, EventsSame DEF Count, sub
<1>2. CASE PublishStats \/ PublishNow
  <2>1. UNCHANGED <<evq, evSeq, inbox, expected, gaps, delivered>>
    BY <1>2 DEF PublishStats, PublishNow, sub
  <2> QED BY <1>2, <2>1, PublishInv, EventsSame
<1>3. CASE Event BY <1>3, PublishInv, EventQueued
<1>4. CASE HandleStats
  <2>1. UNCHANGED <<evq, evSeq, inbox, expected, gaps, delivered>>
    BY <1>4 DEF HandleStats, sub
  <2> QED BY <1>4, <2>1, HandleInv, EventsSame
<1>5. CASE Pull BY <1>5, PullInv, EventPulled
<1>6. CASE DispatchEvent
  <2>1. UNCHANGED <<ctr, pub, latest, gen, ref, bpc, bgen, bstart, bquiet, cleared, cur, delta>>
    BY <1>6 DEF DispatchEvent, server, store, main
  <2> QED BY <1>6, <2>1, StatsSame, EventDispatched
<1>7. CASE BarrierCall \/ BarrierTick \/ BarrierTimeout \/ Clear \/ DeltaReadCounter \/ DeltaReadReference
  <2>1. UNCHANGED <<evq, evSeq, inbox, expected, gaps, delivered>>
    BY <1>7 DEF BarrierCall, BarrierTick, BarrierTimeout, Clear, DeltaReadCounter,
                DeltaReadReference, server, sub
  <2> QED BY <1>7, <2>1, MainInv, EventsSame
<1>8. CASE UNCHANGED vars
  <2>1. UNCHANGED <<evq, evSeq, inbox, expected, gaps, delivered,
                    ctr, pub, latest, gen, ref, bpc, bgen, bstart, bquiet, cleared, cur, delta>>
    BY <1>8 DEF vars, server, sub, store, main
  <2> QED BY <2>1, StatsSame, EventsSame
<1> QED BY <1>1, <1>2, <1>3, <1>4, <1>5, <1>6, <1>7, <1>8 DEF Next, Subscriber, Main

\* The invariant holds throughout.
THEOREM Invariance == Spec => []IInv
BY InitInv, StepInv, PTL DEF Spec

\* Types of the server's, the subscriber's and the store's state.
THEOREM TypeCorrect == Spec => []TypeOK
<1>1. IInv => expected \in 0 .. MaxEvents
  <2> SUFFICES ASSUME IInv PROVE expected \in 0 .. MaxEvents OBVIOUS
  <2>1. delivered \in Seq(Nat) /\ evSeq \in 0 .. MaxEvents BY DEF IInv, EventInv
  <2>2. CASE delivered = <<>> BY <2>1, <2>2, AsyncAssumption DEF IInv, EventInv
  <2>3. CASE delivered # <<>>
    <3>1. Len(delivered) \in 1 .. Len(delivered) /\ delivered[Len(delivered)] \in Nat BY <2>1, <2>3
    <3>2. delivered[Len(delivered)] < evSeq BY <3>1 DEF IInv, EventInv
    <3> QED BY <2>1, <2>3, <3>1, <3>2, AsyncAssumption DEF IInv, EventInv
  <2> QED BY <2>2, <2>3
<1>2. IInv => TypeOK
  BY <1>1 DEF IInv, StatsInv, Types, EventInv, TypeOK
<1> QED BY <1>2, Invariance, PTL

\* A Barrier that found the channel empty returns with a counter no older than
\* its call, whichever publication ended it.
THEOREM BarrierIsFresh == Spec => []BarrierFreshWhenQuiet
<1>1. IInv => BarrierFreshWhenQuiet
  BY DEF IInv, StatsInv, Types, BarrierInv, BarrierFreshWhenQuiet, NoData
<1> QED BY <1>1, Invariance, PTL

\* After such a clear what stats shows was counted after the command was given,
\* although it reads the counter and the reference in two critical sections.
THEOREM DeltaIsSinceClear == Spec => []DeltaSinceClear
<1>1. IInv => DeltaSinceClear
  BY DEF IInv, StatsInv, Types, DeltaInv, DeltaSinceClear, NoData
<1> QED BY <1>1, Invariance, PTL

\* Events are dispatched in order, none twice, and a loss between two dispatched
\* ones is reported.
THEOREM EventsAreAccounted == Spec => []EventsAccounted
<1>1. IInv => EventsAccounted BY DEF IInv, EventInv
<1> QED BY <1>1, Invariance, PTL
=============================================================================
