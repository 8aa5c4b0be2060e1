--------------------------- MODULE EventBusProofs ----------------------------
(***************************************************************************)
(* TLAPS proofs about the event bus, for any ports, waiters, assignment of *)
(* ports to waiters and buffer capacity.                                   *)
(***************************************************************************)
EXTENDS EventBus, TLAPS

\* p is among the events of a queue.
On(s, p) == \E k \in 1 .. Len(s) : s[k] = p

\* A job-done event about p can only exist if this holds.
Finished(p) == runs[p] >= 1 /\ (runs[p] = 1 => ~running[p])

BusType ==
    /\ TypeOK
    /\ buf \in [Waiters -> Seq(Ports)]
    /\ running \in [Ports -> BOOLEAN] /\ runs \in [Ports -> Nat]
    /\ portOf \in [Waiters -> Ports]

\* Who is registered and whose channel is closed, by where the caller is:
\* deleting the entry and closing the channel are one critical section.
Registered ==
    \A w \in Waiters :
        /\ w \in subs <=> wpc[w] \in {"subscribed", "waiting", "waitingLate"}
        /\ closed[w] => wpc[w] \in {"returned", "cancelled"}
        /\ gpc[w] = "none" => wpc[w] \in {"idle", "started"}
        /\ gpc[w] = "exited" /\ w \in subs => done[w]
        /\ wpc[w] = "returned" => done[w]

\* Every event under way, and every signal given, is about a run that ended.
EventsTrue ==
    /\ \A p \in Ports : running[p] => runs[p] >= 1
    /\ \A p \in Ports : On(wire, p) => Finished(p)
    /\ \A w \in Waiters : \A p \in Ports : On(buf[w], p) => Finished(p)
    /\ \A w \in Waiters : done[w] => Finished(portOf[w])

\* The safety half of WaitReturns.  A caller that waits without a signal still has a
\* goroutine, and its event is ahead of it: the port runs, or the event is on its
\* way or in the buffer.  Only a full buffer, or a subscription after the event,
\* breaks this.
NotMissed ==
    \A w \in Waiters :
        wpc[w] \in {"waiting", "waitingLate"} /\ w \notin dropped \cup late /\ ~done[w]
        => /\ gpc[w] = "recv"
           /\ running[portOf[w]] \/ On(wire, portOf[w]) \/ On(buf[w], portOf[w])

\* The inductive invariant.  NoSendOnClosed needs the relation between the
\* registry and the closed channels; DoneMeansFinished needs that of every
\* event that may still become a signal.
IInv == BusType /\ Registered /\ EventsTrue /\ NotMissed /\ NoSendOnClosed

-----------------------------------------------------------------------------
(* Queues *)

\* Appending an event adds it and keeps the others.
LEMMA OnAppend ==
    ASSUME NEW s \in Seq(Ports), NEW x \in Ports
    PROVE  /\ Append(s, x) \in Seq(Ports) /\ Len(Append(s, x)) = Len(s) + 1
           /\ \A p : On(Append(s, x), p) <=> (On(s, p) \/ p = x)
<1>1. /\ Append(s, x) \in Seq(Ports)
      /\ Len(s) \in Nat /\ Len(Append(s, x)) = Len(s) + 1
      /\ Append(s, x)[Len(s) + 1] = x
      /\ \A k \in 1 .. Len(s) : Append(s, x)[k] = s[k]
  OBVIOUS
<1>2. ASSUME NEW p, On(Append(s, x), p) PROVE On(s, p) \/ p = x
  BY <1>1, <1>2 DEF On
<1>3. ASSUME NEW p, On(s, p) PROVE On(Append(s, x), p)
  BY <1>1, <1>3 DEF On
<1>4. On(Append(s, x), x)
  BY <1>1 DEF On
<1> QED BY <1>1, <1>2, <1>3, <1>4

\* Taking the head of a queue leaves the other events.
LEMMA OnTail ==
    ASSUME NEW s \in Seq(Ports), s # <<>>
    PROVE  /\ Tail(s) \in Seq(Ports) /\ Len(Tail(s)) = Len(s) - 1 /\ Len(s) \in Nat
           /\ Head(s) \in Ports /\ On(s, Head(s))
           /\ \A p : On(s, p) <=> (On(Tail(s), p) \/ p = Head(s))
<1>1. /\ Tail(s) \in Seq(Ports) /\ Head(s) \in Ports /\ Head(s) = s[1]
      /\ Len(s) \in Nat /\ Len(s) >= 1 /\ Len(Tail(s)) = Len(s) - 1
      /\ \A k \in 1 .. Len(Tail(s)) : Tail(s)[k] = s[k + 1]
  OBVIOUS
<1>2. ASSUME NEW p, On(Tail(s), p) PROVE On(s, p)
  <2>1. PICK k \in 1 .. Len(Tail(s)) : Tail(s)[k] = p
    BY <1>2 DEF On
  <2> QED BY <1>1, <2>1 DEF On
<1>3. ASSUME NEW p, On(s, p) PROVE On(Tail(s), p) \/ p = Head(s)
  <2>1. PICK k \in 1 .. Len(s) : s[k] = p
    BY <1>3 DEF On
  <2>2. CASE k = 1 BY <1>1, <2>1, <2>2
  <2>3. CASE k # 1
    <3>1. k - 1 \in 1 .. Len(Tail(s)) /\ Tail(s)[k - 1] = p
      BY <1>1, <2>1, <2>3
    <3> QED BY <3>1 DEF On
  <2> QED BY <2>2, <2>3
<1>4. On(s, Head(s))
  BY <1>1 DEF On
<1> QED BY <1>1, <1>2, <1>3, <1>4

\* Nothing is on an empty queue.
LEMMA OnEmpty == \A p : ~On(<<>>, p)
BY DEF On

-----------------------------------------------------------------------------
(* The actions *)

\* The bus starts without events, subscribers or waits.
THEOREM InitInv == Init => IInv
<1> SUFFICES ASSUME Init PROVE IInv OBVIOUS
<1>1. \A w \in Waiters : wpc[w] = "idle" /\ closed[w] = FALSE /\ done[w] = FALSE
                         /\ buf[w] = <<>> /\ gpc[w] = "none"
  BY DEF Init
<1>2. \A p \in Ports : running[p] = FALSE
  BY DEF Init
<1>3. running \in [Ports -> BOOLEAN] /\ done \in [Waiters -> BOOLEAN]
      /\ closed \in [Waiters -> BOOLEAN]
  BY Zenon DEF Init
<1>4. BusType
  BY <1>3, BusAssumption DEF Init, BusType, TypeOK
<1>5. Registered
  BY <1>1 DEF Init, Registered
<1>6. EventsTrue
  BY <1>1, <1>2, OnEmpty DEF Init, EventsTrue
<1>7. NotMissed
  BY <1>1 DEF NotMissed
<1> QED BY <1>4, <1>5, <1>6, <1>7, Zenon DEF IInv, NoSendOnClosed, Init

\* Starting traffic on p makes it run and falsifies no event: those about p
\* belong to an earlier run.
LEMMA StartInv ==
    ASSUME IInv, NEW p \in Ports, Start(p)
    PROVE  /\ running' \in [Ports -> BOOLEAN] /\ runs' \in [Ports -> Nat]
           /\ running'[p] /\ runs'[p] >= 1
           /\ \A q \in Ports : q # p => running'[q] = running[q] /\ runs'[q] = runs[q]
           /\ \A q \in Ports : Finished(q) => Finished(q)'
           /\ \A q \in Ports : running[q] => running'[q]
           /\ \A q \in Ports : running'[q] => runs'[q] >= 1
<1>1. runs \in [Ports -> Nat] /\ runs' = [runs EXCEPT ![p] = runs[p] + 1]
  BY DEF IInv, BusType, Start
<1>2. running \in [Ports -> BOOLEAN] /\ running' = [running EXCEPT ![p] = TRUE]
  BY DEF IInv, BusType, Start
<1>3. /\ running' \in [Ports -> BOOLEAN] /\ running'[p]
      /\ \A q \in Ports : q # p => running'[q] = running[q]
  BY <1>2, Zenon
<1>4. /\ runs' \in [Ports -> Nat] /\ runs'[p] = runs[p] + 1 /\ runs[p] \in Nat
      /\ \A q \in Ports : q # p => runs'[q] = runs[q]
  BY <1>1
<1>5. ASSUME NEW q \in Ports, Finished(q) PROVE Finished(q)'
  <2>1. CASE q = p BY <1>4, <1>5, <2>1 DEF Finished
  <2>2. CASE q # p BY <1>3, <1>4, <1>5, <2>2 DEF Finished
  <2> QED BY <2>1, <2>2
<1>6. \A q \in Ports : running'[q] => runs'[q] >= 1
  BY <1>3, <1>4 DEF IInv, EventsTrue
<1> QED BY <1>3, <1>4, <1>5, <1>6

\* A step that starts traffic on p and moves no event: what is left to show is
\* what the caller of Start does to the registry and to its own wait.
LEMMA StartKeepsEvents ==
    ASSUME IInv, NEW p \in Ports, Start(p), UNCHANGED <<wire, buf, done, portOf>>
    PROVE  EventsTrue'
<1>0. portOf \in [Waiters -> Ports]
  BY DEF IInv, BusType
<1>1. (\A q \in Ports : On(wire, q) => Finished(q))'
  BY StartInv DEF IInv, EventsTrue
<1>2. (\A w \in Waiters : \A q \in Ports : On(buf[w], q) => Finished(q))'
  BY StartInv DEF IInv, EventsTrue
<1>3. (\A w \in Waiters : done[w] => Finished(portOf[w]))'
  BY <1>0, StartInv DEF IInv, EventsTrue
<1> QED BY <1>1, <1>2, <1>3, StartInv DEF EventsTrue

\* A server step on a port nobody waits for.
LEMMA StartOtherInv == ASSUME IInv, NEW p \in Ports, StartOther(p) PROVE IInv'
<1>1. Start(p) /\ UNCHANGED <<wire, subs, buf, closed, gpc, done, portOf, wpc, ghosts>>
  BY DEF StartOther
<1>2. BusType'
  BY <1>1, StartInv DEF IInv, BusType, TypeOK
<1>3. Registered'
  BY <1>1 DEF IInv, Registered
<1>4. EventsTrue'
  BY <1>1, StartKeepsEvents
<1>5. NotMissed'
  BY <1>1, StartInv DEF IInv, BusType, NotMissed, ghosts
<1> QED BY <1>1, <1>2, <1>3, <1>4, <1>5, Zenon DEF IInv, NoSendOnClosed, ghosts

\* The end of a run turns the port's state into an event about it.
LEMMA JobDoneInv == ASSUME IInv, NEW p \in Ports, JobDone(p) PROVE IInv'
<1>1. /\ running[p] /\ running' = [running EXCEPT ![p] = FALSE]
      /\ wire' = Append(wire, p)
      /\ UNCHANGED <<runs, subs, buf, closed, gpc, done, portOf, wpc, ghosts>>
  BY DEF JobDone
<1>t. running \in [Ports -> BOOLEAN] /\ runs \in [Ports -> Nat]
      /\ wire \in Seq(Ports) /\ portOf \in [Waiters -> Ports]
  BY DEF IInv, BusType, TypeOK
<1>2. /\ running' \in [Ports -> BOOLEAN] /\ ~running'[p]
      /\ \A q \in Ports : q # p => running'[q] = running[q]
  BY <1>1, <1>t, Zenon
<1>3. /\ wire' \in Seq(Ports)
      /\ \A q : On(wire', q) <=> (On(wire, q) \/ q = p)
  BY <1>1, <1>t, OnAppend
<1>4. BusType'
  BY <1>1, <1>2, <1>3 DEF IInv, BusType, TypeOK
<1>5. Registered'
  BY <1>1 DEF IInv, Registered
<1>6. EventsTrue'
  <2>1. Finished(p)'
    BY <1>1, <1>2 DEF IInv, EventsTrue, Finished
  <2>2. \A q \in Ports : Finished(q) => Finished(q)'
    BY <1>1, <1>2, <2>1 DEF Finished
  <2>3. (\A q \in Ports : running[q] => runs[q] >= 1)'
    BY <1>1, <1>2 DEF IInv, EventsTrue
  <2>4. (\A q \in Ports : On(wire, q) => Finished(q))'
    BY <1>3, <2>1, <2>2 DEF IInv, EventsTrue
  <2>5. (\A w \in Waiters : \A q \in Ports : On(buf[w], q) => Finished(q))'
    BY <1>1, <2>2 DEF IInv, EventsTrue
  <2>6. (\A w \in Waiters : done[w] => Finished(portOf[w]))'
    BY <1>1, <1>t, <2>2 DEF IInv, EventsTrue
  <2> QED BY <2>3, <2>4, <2>5, <2>6 DEF EventsTrue
<1>7. NotMissed'
  BY <1>1, <1>t, <1>2, <1>3 DEF IInv, NotMissed, ghosts
<1> QED BY <1>1, <1>4, <1>5, <1>6, <1>7, Zenon DEF IInv, NoSendOnClosed, ghosts

\* Publish: the event leaves the wire for the buffer of every subscriber, or is
\* recorded as dropped; every registered channel is open.
LEMMA PublishInv == ASSUME IInv, Publish PROVE IInv'
<1> DEFINE e == Head(wire)
           full(w) == ~(w \in subs /\ Len(buf[w]) < BufCap)
<1>1. /\ wire # <<>> /\ wire' = Tail(wire)
      /\ buf' = [w \in Waiters |-> IF ~full(w) THEN Append(buf[w], e) ELSE buf[w]]
      /\ dropped' = dropped \cup {w \in subs : Len(buf[w]) = BufCap /\ e = portOf[w]}
      /\ UNCHANGED <<running, runs, subs, closed, gpc, done, portOf, wpc, late>>
  BY DEF Publish
<1>t. /\ wire \in Seq(Ports) /\ buf \in [Waiters -> Seq(Ports)] /\ subs \subseteq Waiters
      /\ \A w \in Waiters : Len(buf[w]) <= BufCap /\ Len(buf[w]) \in Nat
      /\ portOf \in [Waiters -> Ports]
  BY DEF IInv, BusType, TypeOK
<1>2. /\ wire' \in Seq(Ports) /\ e \in Ports
      /\ \A q : On(wire, q) <=> (On(wire', q) \/ q = e)
  BY <1>1, <1>t, OnTail
<1>3. ASSUME NEW w \in Waiters
      PROVE  /\ buf'[w] \in Seq(Ports) /\ Len(buf'[w]) <= BufCap
             /\ full(w) => buf'[w] = buf[w]
             /\ ~full(w) => \A q : On(buf'[w], q) <=> (On(buf[w], q) \/ q = e)
  <2>1. CASE full(w)
    <3>1. buf'[w] = buf[w] BY <1>1, <2>1
    <3> QED BY <1>t, <2>1, <3>1
  <2>2. CASE ~full(w)
    <3>1. buf'[w] = Append(buf[w], e) BY <1>1, <2>2
    <3>2. /\ Append(buf[w], e) \in Seq(Ports)
          /\ Len(Append(buf[w], e)) = Len(buf[w]) + 1
          /\ \A q : On(Append(buf[w], e), q) <=> (On(buf[w], q) \/ q = e)
      BY <1>t, <1>2, OnAppend
    <3> QED BY <1>t, <2>2, <3>1, <3>2, BusAssumption
  <2> QED BY <2>1, <2>2
<1>4. BusType'
  <2>1. buf' \in [Waiters -> Seq(Ports)]
    BY <1>1, <1>3
  <2> QED BY <1>1, <1>2, <1>3, <2>1 DEF IInv, BusType, TypeOK
<1>5. Registered'
  BY <1>1 DEF IInv, Registered
<1>6. EventsTrue'
  <2>1. \A q \in Ports : Finished(q)' <=> Finished(q)
    BY <1>1 DEF Finished
  <2>2. Finished(e)
    BY <1>2 DEF IInv, EventsTrue
  <2>3. (\A w \in Waiters : \A q \in Ports : On(buf[w], q) => Finished(q))'
    BY <1>3, <2>1, <2>2 DEF IInv, EventsTrue
  <2> QED BY <1>1, <1>2, <1>t, <2>1, <2>3 DEF IInv, EventsTrue
<1>7. NotMissed'
  <2> SUFFICES ASSUME NEW w \in Waiters, wpc'[w] \in {"waiting", "waitingLate"},
                      w \notin dropped' \cup late', ~done'[w]
               PROVE  /\ gpc'[w] = "recv"
                      /\ \/ running'[portOf'[w]] \/ On(wire', portOf'[w])
                         \/ On(buf'[w], portOf'[w])
    BY DEF NotMissed
  <2>1. /\ w \in subs /\ gpc[w] = "recv"
        /\ running[portOf[w]] \/ On(wire, portOf[w]) \/ On(buf[w], portOf[w])
    BY <1>1 DEF IInv, NotMissed, Registered
  <2>2. CASE full(w)
    <3>1. Len(buf[w]) = BufCap
      BY <1>t, <2>1, <2>2, BusAssumption
    <3>2. e # portOf[w]
      BY <1>1, <2>1, <3>1
    <3> QED BY <1>1, <1>2, <1>3, <2>1, <2>2, <3>2
  <2>3. CASE ~full(w)
    BY <1>1, <1>2, <1>3, <2>1, <2>3
  <2> QED BY <2>2, <2>3
<1>8. NoSendOnClosed'
  <2>1. \A w \in subs : ~closed[w]
    BY <1>t DEF IInv, Registered
  <2> QED BY <2>1, Zenon DEF IInv, NoSendOnClosed, Publish
<1> QED BY <1>4, <1>5, <1>6, <1>7, <1>8 DEF IInv

\* The bus and its events as they are left by a step of a caller.
QuietServer == UNCHANGED <<running, runs, wire, buf, portOf>>

\* Such a step keeps the truth of events when it raises no signal.
LEMMA QuietEvents ==
    ASSUME IInv, QuietServer, done' = done
    PROVE  EventsTrue' /\ (\A q \in Ports : Finished(q)' <=> Finished(q))
<1>1. \A q \in Ports : Finished(q)' <=> Finished(q)
  BY DEF QuietServer, Finished
<1> QED BY <1>1 DEF IInv, BusType, EventsTrue, QuietServer

\* WaitJobDone before Start, or WaitOnTraffic after it: the channel is new.
LEMMA SubscribeInv ==
    ASSUME IInv, NEW w \in Waiters, SubscribeBefore(w) \/ WaitOnTraffic(w) PROVE IInv'
<1>1. /\ subs' = subs \cup {w} /\ gpc' = [gpc EXCEPT ![w] = "recv"]
      /\ UNCHANGED <<server, buf, closed, done, portOf, panicked, dropped>>
      /\ \/ /\ wpc[w] = "idle" /\ wpc' = [wpc EXCEPT ![w] = "subscribed"]
            /\ late' = late
         \/ /\ wpc[w] = "started" /\ wpc' = [wpc EXCEPT ![w] = "waitingLate"]
            /\ late' = IF running[portOf[w]] \/ On(wire, portOf[w]) THEN late
                       ELSE late \cup {w}
  BY DEF SubscribeBefore, WaitOnTraffic, Subscribe, On, ghosts
<1>t. /\ gpc \in [Waiters -> {"none", "recv", "exited"}]
      /\ wpc \in [Waiters -> {"idle", "subscribed", "started", "waiting",
                              "waitingLate", "returned", "cancelled"}]
  BY DEF IInv, BusType, TypeOK
<1>2. /\ gpc' \in [Waiters -> {"none", "recv", "exited"}] /\ gpc'[w] = "recv"
      /\ wpc' \in [Waiters -> {"idle", "subscribed", "started", "waiting",
                               "waitingLate", "returned", "cancelled"}]
      /\ wpc'[w] \in {"subscribed", "waitingLate"}
      /\ \A u \in Waiters : u # w => gpc'[u] = gpc[u] /\ wpc'[u] = wpc[u]
  BY <1>1, <1>t
<1>3. QuietServer BY <1>1 DEF QuietServer, server
<1>4. BusType'
  BY <1>1, <1>2, <1>3 DEF IInv, BusType, TypeOK, QuietServer
<1>5. Registered'
  BY <1>1, <1>2 DEF IInv, Registered
<1>6. EventsTrue'
  BY <1>1, <1>3, QuietEvents
<1>7. NotMissed'
  BY <1>1, <1>2, <1>3 DEF IInv, NotMissed, QuietServer
<1> QED BY <1>1, <1>4, <1>5, <1>6, <1>7, Zenon DEF IInv, NoSendOnClosed

\* The traffic starts after the subscription, or before it.
LEMMA StartByWaiterInv ==
    ASSUME IInv, NEW w \in Waiters, StartSubscribed(w) \/ StartUnsubscribed(w) PROVE IInv'
<1>1. /\ Start(portOf[w])
      /\ UNCHANGED <<wire, subs, buf, closed, gpc, done, portOf, panicked, dropped, late>>
      /\ \/ wpc[w] = "subscribed" /\ wpc' = [wpc EXCEPT ![w] = "waiting"]
         \/ wpc[w] = "idle" /\ wpc' = [wpc EXCEPT ![w] = "started"]
  BY DEF StartSubscribed, StartUnsubscribed
<1>t. /\ portOf \in [Waiters -> Ports]
      /\ wpc \in [Waiters -> {"idle", "subscribed", "started", "waiting",
                              "waitingLate", "returned", "cancelled"}]
      /\ gpc \in [Waiters -> {"none", "recv", "exited"}]
  BY DEF IInv, BusType, TypeOK
<1>2. /\ wpc' \in [Waiters -> {"idle", "subscribed", "started", "waiting",
                               "waitingLate", "returned", "cancelled"}]
      /\ \/ wpc[w] = "subscribed" /\ wpc'[w] = "waiting"
         \/ wpc[w] = "idle" /\ wpc'[w] = "started"
      /\ \A u \in Waiters : u # w => wpc'[u] = wpc[u]
  BY <1>1, <1>t
<1>3. portOf[w] \in Ports BY <1>t
<1>4. BusType'
  BY <1>1, <1>2, <1>3, StartInv DEF IInv, BusType, TypeOK
<1>5. Registered'
  BY <1>1, <1>2 DEF IInv, Registered
<1>6. EventsTrue'
  BY <1>1, <1>3, StartKeepsEvents
<1>7. NotMissed'
  <2>1. \A q \in Ports : running[q] => running'[q]
    BY <1>1, <1>3, StartInv
  <2>2. running'[portOf[w]]
    BY <1>1, <1>3, StartInv
  <2>3. wpc'[w] = "waiting" /\ ~done[w] => gpc[w] = "recv"
    BY <1>2, <1>t DEF IInv, Registered
  <2> QED BY <1>1, <1>2, <1>t, <2>1, <2>2, <2>3 DEF IInv, NotMissed, ghosts
<1> QED BY <1>1, <1>4, <1>5, <1>6, <1>7, Zenon DEF IInv, NoSendOnClosed, ghosts

\* A caller returns, with its signal or with its context's error.
LEMMA LeaveInv ==
    ASSUME IInv, NEW w \in Waiters, Receive(w) \/ CtxDone(w) PROVE IInv'
<1>1. /\ subs' = subs \ {w} /\ closed' = [closed EXCEPT ![w] = TRUE]
      /\ UNCHANGED <<server, buf, gpc, done, portOf, ghosts>>
      /\ wpc[w] \in {"subscribed", "waiting", "waitingLate"}
      /\ \/ wpc' = [wpc EXCEPT ![w] = "returned"] /\ done[w]
         \/ wpc' = [wpc EXCEPT ![w] = "cancelled"]
  BY DEF Receive, CtxDone, Unsubscribe
<1>t. /\ wpc \in [Waiters -> {"idle", "subscribed", "started", "waiting",
                              "waitingLate", "returned", "cancelled"}]
      /\ closed \in [Waiters -> BOOLEAN]
  BY DEF IInv, BusType, TypeOK
<1>2. /\ wpc' \in [Waiters -> {"idle", "subscribed", "started", "waiting",
                               "waitingLate", "returned", "cancelled"}]
      /\ wpc'[w] \in {"returned", "cancelled"} /\ (wpc'[w] = "returned" => done[w])
      /\ \A u \in Waiters : u # w => wpc'[u] = wpc[u]
  BY <1>1, <1>t
<1>3. /\ closed' \in [Waiters -> BOOLEAN]
      /\ \A u \in Waiters : u # w => closed'[u] = closed[u]
  BY <1>1, <1>t, Zenon
<1>4. QuietServer BY <1>1 DEF QuietServer, server
<1>5. BusType'
  BY <1>1, <1>2, <1>3, <1>4 DEF IInv, BusType, TypeOK, QuietServer
<1>6. Registered'
  BY <1>1, <1>2, <1>3 DEF IInv, Registered
<1>7. EventsTrue'
  BY <1>1, <1>4, QuietEvents
<1>8. NotMissed'
  BY <1>1, <1>2, <1>4 DEF IInv, NotMissed, QuietServer, ghosts
<1> QED BY <1>1, <1>5, <1>6, <1>7, <1>8, Zenon DEF IInv, NoSendOnClosed, ghosts

\* The goroutine skips the events of other ports and signals the first of its own.
LEMMA GoroutineInv == ASSUME IInv, NEW w \in Waiters, Goroutine(w) PROVE IInv'
<1> DEFINE e == Head(buf[w])
<1>1. /\ gpc[w] = "recv" /\ buf[w] # <<>> /\ buf' = [buf EXCEPT ![w] = Tail(buf[w])]
      /\ UNCHANGED <<server, subs, closed, portOf, wpc, ghosts>>
      /\ \/ /\ e = portOf[w] /\ gpc' = [gpc EXCEPT ![w] = "exited"]
            /\ done' = [done EXCEPT ![w] = TRUE]
         \/ e # portOf[w] /\ UNCHANGED <<gpc, done>>
  BY DEF Goroutine
<1>t. /\ buf \in [Waiters -> Seq(Ports)] /\ \A u \in Waiters : Len(buf[u]) <= BufCap
      /\ gpc \in [Waiters -> {"none", "recv", "exited"}]
      /\ done \in [Waiters -> BOOLEAN] /\ portOf \in [Waiters -> Ports]
  BY DEF IInv, BusType, TypeOK
<1>2. /\ Tail(buf[w]) \in Seq(Ports) /\ Len(Tail(buf[w])) = Len(buf[w]) - 1
      /\ Len(buf[w]) \in Nat /\ e \in Ports /\ On(buf[w], e)
      /\ \A p : On(buf[w], p) <=> (On(Tail(buf[w]), p) \/ p = e)
  BY <1>1, <1>t, OnTail
<1>3. /\ buf' \in [Waiters -> Seq(Ports)] /\ buf'[w] = Tail(buf[w])
      /\ \A u \in Waiters : u # w => buf'[u] = buf[u]
  BY <1>1, <1>t, <1>2
<1>4. \A u \in Waiters : Len(buf'[u]) <= BufCap
  <2>1. Len(buf'[w]) <= BufCap
    BY <1>t, <1>2, <1>3, BusAssumption
  <2> QED BY <1>t, <1>3, <2>1
<1>5. /\ done' \in [Waiters -> BOOLEAN] /\ (e = portOf[w] => done'[w])
      /\ \A u \in Waiters : u # w => done'[u] = done[u]
      /\ e # portOf[w] => done'[w] = done[w]
  BY <1>1, <1>t, Zenon
<1>6. /\ gpc' \in [Waiters -> {"none", "recv", "exited"}]
      /\ \A u \in Waiters : u # w => gpc'[u] = gpc[u]
      /\ e # portOf[w] => gpc'[w] = "recv"
      /\ gpc'[w] # "none"
  BY <1>1, <1>t
<1>7. BusType'
  BY <1>1, <1>3, <1>4, <1>5, <1>6 DEF IInv, BusType, TypeOK, server
<1>8. Registered'
  BY <1>1, <1>5, <1>6 DEF IInv, Registered
<1>9. EventsTrue'
  <2>1. \A q \in Ports : Finished(q)' <=> Finished(q)
    BY <1>1 DEF Finished, server
  <2>2. Finished(e)
    <3>1. \A q \in Ports : On(buf[w], q) => Finished(q)
      BY DEF IInv, EventsTrue
    <3> QED BY <1>2, <3>1
  <2>3. (\A u \in Waiters : \A q \in Ports : On(buf[u], q) => Finished(q))'
    BY <1>2, <1>3, <2>1 DEF IInv, EventsTrue
  <2>4. (\A u \in Waiters : done[u] => Finished(portOf[u]))'
    BY <1>1, <1>t, <1>5, <2>1, <2>2 DEF IInv, EventsTrue
  <2> QED BY <1>1, <2>1, <2>3, <2>4 DEF IInv, EventsTrue, server
<1>10. NotMissed'
  BY <1>1, <1>2, <1>3, <1>5, <1>6 DEF IInv, NotMissed, server, ghosts
<1> QED BY <1>1, <1>7, <1>8, <1>9, <1>10, Zenon DEF IInv, NoSendOnClosed, ghosts

\* The range loop over a closed channel ends; its caller has left.
LEMMA GoroutineEndsInv == ASSUME IInv, NEW w \in Waiters, GoroutineEnds(w) PROVE IInv'
<1>1. /\ gpc[w] = "recv" /\ closed[w] /\ gpc' = [gpc EXCEPT ![w] = "exited"]
      /\ UNCHANGED <<server, subs, buf, closed, done, portOf, wpc, ghosts>>
  BY DEF GoroutineEnds
<1>2. /\ gpc' \in [Waiters -> {"none", "recv", "exited"}] /\ gpc'[w] = "exited"
      /\ \A u \in Waiters : u # w => gpc'[u] = gpc[u]
  BY <1>1 DEF IInv, BusType, TypeOK
<1>3. wpc[w] \in {"returned", "cancelled"} /\ w \notin subs
  BY <1>1 DEF IInv, Registered
<1>4. QuietServer BY <1>1 DEF QuietServer, server
<1>5. BusType'
  BY <1>1, <1>2, <1>4 DEF IInv, BusType, TypeOK, QuietServer
<1>6. Registered'
  BY <1>1, <1>2, <1>3 DEF IInv, Registered
<1>7. EventsTrue'
  BY <1>1, <1>4, QuietEvents
<1>8. NotMissed'
  BY <1>1, <1>2, <1>3, <1>4 DEF IInv, NotMissed, QuietServer, ghosts
<1> QED BY <1>1, <1>5, <1>6, <1>7, <1>8, Zenon DEF IInv, NoSendOnClosed, ghosts

\* Every step of the server, the bus and the waiters preserves the invariant.
THEOREM StepInv == IInv /\ [Next]_vars => IInv'
<1> SUFFICES ASSUME IInv, [Next]_vars PROVE IInv' OBVIOUS
<1>1. CASE Publish BY <1>1, PublishInv
<1>2. ASSUME NEW p \in Ports, StartOther(p) \/ JobDone(p) PROVE IInv'
  BY <1>2, StartOtherInv, JobDoneInv
<1>3. ASSUME NEW w \in Waiters, Caller(w) PROVE IInv'
  BY <1>3, SubscribeInv, StartByWaiterInv, LeaveInv DEF Caller
<1>4. ASSUME NEW w \in Waiters, Goroutine(w) \/ GoroutineEnds(w) \/ Receive(w) PROVE IInv'
  BY <1>4, GoroutineInv, GoroutineEndsInv, LeaveInv
<1>5. CASE UNCHANGED vars
  <2>1. QuietServer /\ UNCHANGED <<subs, closed, gpc, done, wpc, panicked, dropped, late>>
    BY <1>5 DEF vars, server, ghosts, QuietServer
  <2>2. BusType' /\ Registered' /\ NotMissed'
    BY <2>1 DEF IInv, BusType, TypeOK, Registered, NotMissed, QuietServer
  <2> QED BY <2>1, <2>2, QuietEvents, Zenon DEF IInv, NoSendOnClosed
<1> QED BY <1>1, <1>2, <1>3, <1>4, <1>5 DEF Next

\* The inductive invariant holds of every behaviour of the bus.
THEOREM Invariance == Spec => []IInv
BY InitInv, StepInv, PTL DEF Spec

\* Type correctness: no subscriber's channel ever holds more than its capacity.
THEOREM TypeCorrect == Spec => []TypeOK
BY Invariance, PTL DEF IInv, BusType

\* EventBus.Publish never sends on a channel that a cancel function has closed,
\* for any number of subscribers that come and go while events are dispatched.
THEOREM PublishSafe == Spec => []NoSendOnClosed
BY Invariance, PTL DEF IInv

\* A WaitJobDone that returns saw a run of its own port end.
THEOREM WaitMeansFinished == Spec => []DoneMeansFinished
<1>1. IInv => DoneMeansFinished
  BY DEF IInv, Registered, EventsTrue, Finished, DoneMeansFinished
<1> QED BY <1>1, Invariance, PTL

\* WaitJobDone's "Subscribe before calling Start so the event cannot be missed":
\* while a caller waits, also one in WaitOnTraffic, its event is still to come, on its
\* way or in its buffer with the goroutine alive to read it, unless the buffer was
\* full or it subscribed after the event.
THEOREM EventNotMissed == Spec => []NotMissed
BY Invariance, PTL DEF IInv
=============================================================================
