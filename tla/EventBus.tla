------------------------------ MODULE EventBus -------------------------------
(***************************************************************************)
(* The server event bus of pkg/session/events.go and its clients in        *)
(* pkg/session/port.go: WaitJobDone and WaitOnTraffic.  Only job-done      *)
(* events are followed; an event is the port it is about.                  *)
(*                                                                         *)
(* A waiter either subscribes before it starts the port's timed traffic    *)
(* (WaitJobDone, Start, receive) or calls WaitOnTraffic once the traffic   *)
(* is running.  Its goroutine forwards the first matching event.           *)
(***************************************************************************)
EXTENDS Integers, Sequences

CONSTANTS
    Ports, Waiters,
    Assignments, \* the ports the waiters may wait for: functions [Waiters -> Ports]
    BufCap,      \* capacity of a subscriber's channel (8 in the code)
    MaxRuns      \* bound: timed runs of one port

ASSUME BusAssumption ==
    /\ Assignments \subseteq [Waiters -> Ports]
    /\ BufCap \in Nat \ {0} /\ MaxRuns \in Nat

VARIABLES
    running, runs,   \* the server's ports: timed traffic, how often started
    wire,            \* events sent by the server, not yet dispatched
    subs,            \* EventBus.subs: the waiters whose channel is registered
    buf, closed,     \* the channel of each waiter
    gpc, done,       \* the goroutine of WaitJobDone and its done channel
    portOf, wpc,     \* the caller, and the port it waits for
    panicked,        \* a send on a closed channel
    dropped,         \* waiters whose own event met a full buffer
    late,            \* waiters that subscribed after their event was dispatched
    own              \* the run of its port that each waiter started, 0: none

server == <<running, runs, wire>>
ghosts == <<panicked, dropped, late, own>>
vars   == <<server, subs, buf, closed, gpc, done, portOf, wpc, ghosts>>

Init ==
    /\ running = [p \in Ports |-> FALSE] /\ runs = [p \in Ports |-> 0]
    /\ wire = <<>>
    /\ subs = {} /\ buf = [w \in Waiters |-> <<>>]
    /\ closed = [w \in Waiters |-> FALSE]
    /\ gpc = [w \in Waiters |-> "none"] /\ done = [w \in Waiters |-> FALSE]
    /\ wpc = [w \in Waiters |-> "idle"]
    /\ portOf \in Assignments
    /\ panicked = FALSE /\ dropped = {} /\ late = {}
    /\ own = [w \in Waiters |-> 0]

-----------------------------------------------------------------------------
(* The server *)

Start(p) ==
    /\ ~running[p] /\ runs[p] < MaxRuns
    /\ running' = [running EXCEPT ![p] = TRUE]
    /\ runs' = [runs EXCEPT ![p] = @ + 1]

\* Timed traffic is started on a port nobody waits for.
StartOther(p) ==
    /\ \A w \in Waiters : portOf[w] # p
    /\ Start(p)
    /\ UNCHANGED <<wire, subs, buf, closed, gpc, done, portOf, wpc, ghosts>>

\* The timed traffic of p ends and the server announces it.
JobDone(p) ==
    /\ running[p]
    /\ running' = [running EXCEPT ![p] = FALSE]
    /\ wire' = Append(wire, p)
    /\ UNCHANGED <<runs, subs, buf, closed, gpc, done, portOf, wpc, ghosts>>

-----------------------------------------------------------------------------
(* EventBus *)

\* Subscribe, and the goroutine WaitJobDone starts on the channel.
Subscribe(w) ==
    /\ subs' = subs \cup {w}
    /\ gpc' = [gpc EXCEPT ![w] = "recv"]

UnsubscribeClosesOnly(w) ==
    /\ closed' = [closed EXCEPT ![w] = TRUE]
    /\ subs' = subs

UnsubscribeForgetsClose(w) ==
    /\ subs' = subs \ {w}
    /\ closed' = closed

\* The cancel function Subscribe returns: deletes the entry and closes the
\* channel in one critical section.
Unsubscribe(w) ==
    /\ subs' = subs \ {w}
    /\ closed' = [closed EXCEPT ![w] = TRUE]

\* Publish: a full buffer drops the event for that subscriber.
Publish ==
    /\ wire # <<>>
    /\ wire' = Tail(wire)
    /\ buf' = [w \in Waiters |->
                 IF w \in subs /\ Len(buf[w]) < BufCap
                 THEN Append(buf[w], Head(wire)) ELSE buf[w]]
    /\ panicked' = (panicked \/ \E w \in subs : closed[w])
    /\ dropped' = dropped \cup
                    {w \in subs : Len(buf[w]) = BufCap /\ Head(wire) = portOf[w]}
    /\ UNCHANGED <<running, runs, subs, closed, gpc, done, portOf, wpc, late, own>>

-----------------------------------------------------------------------------
(* WaitJobDone and WaitOnTraffic *)

SubscribeBefore(w) ==
    /\ wpc[w] = "idle"
    /\ Subscribe(w)
    /\ wpc' = [wpc EXCEPT ![w] = "subscribed"]
    /\ UNCHANGED <<server, buf, closed, done, portOf, ghosts>>

StartSubscribed(w) ==
    /\ wpc[w] = "subscribed" /\ Start(portOf[w])
    /\ wpc' = [wpc EXCEPT ![w] = "waiting"]
    /\ own' = [own EXCEPT ![w] = runs'[portOf[w]]]
    /\ UNCHANGED <<wire, subs, buf, closed, gpc, done, portOf, panicked, dropped, late>>

StartUnsubscribed(w) ==
    /\ wpc[w] = "idle" /\ Start(portOf[w])
    /\ wpc' = [wpc EXCEPT ![w] = "started"]
    /\ own' = [own EXCEPT ![w] = runs'[portOf[w]]]
    /\ UNCHANGED <<wire, subs, buf, closed, gpc, done, portOf, panicked, dropped, late>>

WaitOnTraffic(w) ==
    /\ wpc[w] = "started"
    /\ Subscribe(w)
    /\ wpc' = [wpc EXCEPT ![w] = "waitingLate"]
    /\ late' = IF running[portOf[w]] \/ \E n \in 1 .. Len(wire) : wire[n] = portOf[w]
               THEN late ELSE late \cup {w}
    /\ UNCHANGED <<server, buf, closed, done, portOf, panicked, dropped, own>>

GoroutineTakesAny(w) ==
    /\ gpc[w] = "recv" /\ buf[w] # <<>>
    /\ buf' = [buf EXCEPT ![w] = Tail(@)]
    /\ gpc' = [gpc EXCEPT ![w] = "exited"] /\ done' = [done EXCEPT ![w] = TRUE]
    /\ UNCHANGED <<server, subs, closed, portOf, wpc, ghosts>>

GoroutineFirstOnly(w) ==
    /\ gpc[w] = "recv" /\ buf[w] # <<>>
    /\ buf' = [buf EXCEPT ![w] = Tail(@)]
    /\ gpc' = [gpc EXCEPT ![w] = "exited"]
    /\ done' = [done EXCEPT ![w] = Head(buf[w]) = portOf[w]]
    /\ UNCHANGED <<server, subs, closed, portOf, wpc, ghosts>>

\* for ev := range events: the first event about this port is signalled.
Goroutine(w) ==
    /\ gpc[w] = "recv" /\ buf[w] # <<>>
    /\ buf' = [buf EXCEPT ![w] = Tail(@)]
    /\ IF Head(buf[w]) = portOf[w]
       THEN gpc' = [gpc EXCEPT ![w] = "exited"] /\ done' = [done EXCEPT ![w] = TRUE]
       ELSE UNCHANGED <<gpc, done>>
    /\ UNCHANGED <<server, subs, closed, portOf, wpc, ghosts>>

\* The range over a closed and empty channel ends.
GoroutineEnds(w) ==
    /\ gpc[w] = "recv" /\ buf[w] = <<>> /\ closed[w]
    /\ gpc' = [gpc EXCEPT ![w] = "exited"]
    /\ UNCHANGED <<server, subs, buf, closed, done, portOf, wpc, ghosts>>

Receive(w) ==
    /\ wpc[w] \in {"waiting", "waitingLate"} /\ done[w]
    /\ wpc' = [wpc EXCEPT ![w] = "returned"]
    /\ Unsubscribe(w)
    /\ UNCHANGED <<server, buf, gpc, done, portOf, ghosts>>

\* ctx is cancelled while the caller waits, or it gives up before the start.
CtxDone(w) ==
    /\ wpc[w] \in {"subscribed", "waiting", "waitingLate"}
    /\ wpc' = [wpc EXCEPT ![w] = "cancelled"]
    /\ Unsubscribe(w)
    /\ UNCHANGED <<server, buf, gpc, done, portOf, ghosts>>

Caller(w) ==
    \/ SubscribeBefore(w) \/ StartSubscribed(w) \/ StartUnsubscribed(w)
    \/ WaitOnTraffic(w) \/ CtxDone(w)

Next ==
    \/ Publish
    \/ \E p \in Ports : StartOther(p) \/ JobDone(p)
    \/ \E w \in Waiters : Caller(w) \/ Goroutine(w) \/ GoroutineEnds(w) \/ Receive(w)

Spec == Init /\ [][Next]_vars

\* Timed traffic ends, events are dispatched, goroutines are scheduled.
FairSpec ==
    /\ Spec
    /\ WF_vars(Publish)
    /\ \A p \in Ports : WF_vars(JobDone(p))
    /\ \A w \in Waiters : WF_vars(Goroutine(w)) /\ WF_vars(GoroutineEnds(w))
                          /\ WF_vars(Receive(w))

-----------------------------------------------------------------------------
(* Properties *)

\* Types of the bus, the channels and the callers.
TypeOK ==
    /\ wire \in Seq(Ports)
    /\ subs \subseteq Waiters
    /\ \A w \in Waiters : buf[w] \in Seq(Ports) /\ Len(buf[w]) <= BufCap
    /\ gpc \in [Waiters -> {"none", "recv", "exited"}]
    /\ wpc \in [Waiters -> {"idle", "subscribed", "started", "waiting",
                            "waitingLate", "returned", "cancelled"}]
    /\ done \in [Waiters -> BOOLEAN] /\ closed \in [Waiters -> BOOLEAN]

\* Publish never sends on a channel a cancel function has closed.
NoSendOnClosed == ~panicked

\* A wait that returns saw its own port finish, not another one.  (An event of
\* an earlier run of the same port also ends it, hence the single run.)
DoneMeansFinished ==
    \A w \in Waiters :
        (wpc[w] = "returned" /\ runs[portOf[w]] = 1) => ~running[portOf[w]]

\* The same for a port that is started more than once, as the comment of
\* WaitJobDone has it: a wait that returns does not leave the run it is about
\* behind, still running.  It fails: an event of an earlier run that is
\* dispatched once the waiter has subscribed is forwarded.
DoneMeansOwnRun ==
    \A w \in Waiters :
        wpc[w] = "returned" => ~(running[portOf[w]] /\ runs[portOf[w]] = own[w])

\* No goroutine of WaitJobDone outlives its caller's wait for ever.
NoGoroutineLeak ==
    \A w \in Waiters : (wpc[w] \in {"returned", "cancelled"}) ~> (gpc[w] = "exited")

\* A wait ends without any cancellation, also among events of other ports, whether
\* it subscribed before Start ("so the event cannot be missed") or is a
\* WaitOnTraffic, unless its own event found the buffer full and was dropped, or was
\* dispatched before a WaitOnTraffic subscribed.
WaitReturns ==
    \A w \in Waiters :
        (wpc[w] \in {"waiting", "waitingLate"}) ~>
            (wpc[w] \in {"returned", "cancelled"} \/ w \in dropped \cup late)

\* The same with no condition, as the comment of WaitJobDone has it.  It fails:
\* Publish drops the event when the buffer is full of other ports' events.
NeverMissed ==
    \A w \in Waiters : (wpc[w] = "waiting") ~> (wpc[w] \in {"returned", "cancelled"})

\* WaitOnTraffic "blocks until this port's timed traffic finishes": it returns
\* once the traffic has.  It fails: the traffic may have finished before it
\* subscribes.
LateWaitReturns ==
    \A w \in Waiters : (wpc[w] = "waitingLate") ~> (wpc[w] \in {"returned", "cancelled"})

=============================================================================
