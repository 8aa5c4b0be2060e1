------------------------------ MODULE CliPorts -------------------------------
(***************************************************************************)
(* The traffic commands of pkg/cli/commands.go on the ports of             *)
(* pkg/session/port.go: streams, start, stop, ndr and the release on exit, *)
(* one step per RPC, while the server's ports finish their traffic and     *)
(* another session acquires (by force), loads and starts them.  The client *)
(* may be killed between any two RPCs; the next process is a new session.  *)
(*                                                                         *)
(* A port's handler is a token the server issues at every acquisition,     *)
(* here its number; a call that carries an old one is refused.  Of the     *)
(* measurements of ndr only what they do to the ports is here: PerfRun and *)
(* NdrSearch have the rest.                                                *)
(***************************************************************************)
EXTENDS Integers, Sequences

CONSTANTS
    Ports,
    PortLists,   \* the values of the -p option: sequences of ports
    Profiles,
    StreamsFor,  \* [Profiles -> [Ports -> set of streams]], by direction
    MaxCmds,     \* bound: commands
    MaxRuns,     \* bound: measurements of a search
    MaxProcs     \* bound: processes, one after the other

ASSUME CliAssumption ==
    /\ PortLists \subseteq Seq(Ports) /\ <<>> \notin PortLists
    /\ MaxCmds \in Nat /\ MaxRuns \in Nat \ {0} /\ MaxProcs \in Nat \ {0}

VARIABLES
    \* the server
    owner, handler, active, streams,
    \* the client: Context.Ports and the command that is running
    held, pc, cmd, todo, acquired, status, cmds, runs, procs,
    \* the ports granted to this process whose handle Context.Ports does not have:
    \* those of a refused command, and those a later command's list left out
    unrecorded,
    \* the ports another session has owned since the command began
    touched

server == <<owner, handler, active, streams>>
count  == <<cmds, runs, procs>>
vars   == <<server, held, unrecorded, pc, cmd, todo, acquired, status, count, touched>>

Handle(p, h) == [id |-> p, handler |-> h]
NoCmd        == [name |-> "none"]
Elems(s)     == {s[j] : j \in 1 .. Len(s)}
Ids(s)       == {s[j].id : j \in 1 .. Len(s)}

Init ==
    /\ owner = [p \in Ports |-> "none"]
    /\ handler = [p \in Ports |-> 0]
    /\ active = [p \in Ports |-> FALSE]
    /\ streams = [p \in Ports |-> {}]
    /\ held = <<>> /\ unrecorded = {} /\ pc = "ready" /\ cmd = NoCmd /\ todo = <<>>
    /\ acquired = <<>> /\ status = "ok"
    /\ cmds = 0 /\ runs = 0 /\ procs = 1
    /\ touched = {}

-----------------------------------------------------------------------------
(* What the server accepts *)

Valid(h) == owner[h.id] = "us" /\ handler[h.id] = h.handler

Grants(p, force) == owner[p] \in {"none", "us"} \/ force

-----------------------------------------------------------------------------
(* The commands *)

Return(s) ==
    /\ pc' = "ready" /\ status' = s
    /\ todo' = <<>> /\ acquired' = <<>>
    /\ cmd' = IF s = "loaded" THEN [cmd EXCEPT !.force = FALSE] ELSE NoCmd
    /\ runs' = 0
    /\ UNCHANGED <<cmds, procs, touched>>

Goto(l, rest) ==
    /\ pc' = l /\ todo' = rest
    /\ UNCHANGED <<cmd, status, count, touched>>

Begin(c, l, rest) ==
    /\ pc = "ready" /\ cmds < MaxCmds
    /\ cmds' = cmds + 1
    /\ cmd' = c /\ pc' = l /\ todo' = rest /\ status' = "running"
    /\ touched' = {p \in Ports : owner[p] = "other"}
    /\ UNCHANGED <<server, held, unrecorded, acquired, runs, procs>>

StreamsCmd ==
    \E prof \in Profiles, ids \in PortLists, force \in BOOLEAN :
        Begin([name |-> "streams", profile |-> prof, force |-> force], "acquire", ids)

NDRCmd ==
    \E prof \in Profiles, ids \in PortLists, force \in BOOLEAN :
        Begin([name |-> "ndr", profile |-> prof, force |-> force], "acquire", ids)

\* With no ports held it is an error and nothing happens.
StartCmd ==
    /\ held # <<>>
    /\ Begin([name |-> "start"], "start", held)

\* With no ports held the listed ones are acquired first.
StopCmd ==
    \/ held # <<>> /\ Begin([name |-> "stop", force |-> FALSE], "stop", held)
    \/ /\ held = <<>>
       /\ \E ids \in PortLists, force \in BOOLEAN :
            Begin([name |-> "stop", force |-> force], "acquire", ids)

\* acquirePorts: the new set replaces Context.Ports once every port is granted;
\* the first refusal returns and the ports granted so far stay with the server.
acquirePorts ==
    /\ pc = "acquire"
    /\ LET p == Head(todo) IN
       \/ /\ Grants(p, cmd.force)
          /\ owner' = [owner EXCEPT ![p] = "us"]
          /\ handler' = [handler EXCEPT ![p] = @ + 1]
          /\ IF Len(todo) > 1
             THEN /\ acquired' = Append(acquired, Handle(p, handler'[p]))
                  /\ unrecorded' = unrecorded \cup {p}
                  /\ Goto("acquire", Tail(todo)) /\ UNCHANGED held
             ELSE /\ held' = Append(acquired, Handle(p, handler'[p]))
                  /\ unrecorded' = (unrecorded \cup Ids(held)) \ Ids(held')
                  /\ acquired' = <<>>
                  /\ Goto(IF cmd.name = "stop" THEN "stop" ELSE "remove", held')
       \/ /\ ~Grants(p, cmd.force)
          /\ Return("error") /\ UNCHANGED <<owner, handler, held, unrecorded>>
    /\ UNCHANGED <<active, streams>>

\* After the call for the first port of todo succeeded: the next port, or the
\* end of the command.
Advance(l, done) ==
    IF Len(todo) > 1 THEN Goto(l, Tail(todo)) /\ UNCHANGED acquired ELSE Return(done)

Wanted(h) == StreamsFor[cmd.profile][h.id]

\* The next port is loaded, or streams is done, or ndr goes on to Find.
Loaded ==
    IF Len(todo) = 1 /\ cmd.name = "ndr" THEN Goto("find", held) /\ UNCHANGED acquired
                                         ELSE Advance("remove", "loaded")

RemoveNothing ==
    /\ pc = "remove"
    /\ LET h == Head(todo) IN
       \/ /\ Valid(h) /\ ~active[h.id]
          /\ UNCHANGED streams
          /\ IF Wanted(h) = {} THEN Loaded ELSE Goto("add", todo) /\ UNCHANGED acquired
       \/ /\ ~(Valid(h) /\ ~active[h.id])
          /\ Return("error") /\ UNCHANGED streams
    /\ UNCHANGED <<owner, handler, active, held, unrecorded>>

RemoveIgnoresErrors ==
    /\ pc = "remove"
    /\ LET h == Head(todo) IN
       /\ streams' = IF Valid(h) /\ ~active[h.id] THEN [streams EXCEPT ![h.id] = {}] ELSE streams
       /\ IF Wanted(h) = {} THEN Loaded ELSE Goto("add", todo) /\ UNCHANGED acquired
    /\ UNCHANGED <<owner, handler, active, held, unrecorded>>

\* loadPort, RemoveAllStreams: refused while the port transmits.
RemoveAllStreams ==
    /\ pc = "remove"
    /\ LET h == Head(todo) IN
       \/ /\ Valid(h) /\ ~active[h.id]
          /\ streams' = [streams EXCEPT ![h.id] = {}]
          /\ IF Wanted(h) = {} THEN Loaded ELSE Goto("add", todo) /\ UNCHANGED acquired
       \/ /\ ~(Valid(h) /\ ~active[h.id])
          /\ Return("error") /\ UNCHANGED streams
    /\ UNCHANGED <<owner, handler, active, held, unrecorded>>

\* loadPort, AddStreams: every call of the batch is accepted or refused on its
\* own; one refusal is an error and the accepted streams stay.
AddStreams ==
    /\ pc = "add"
    /\ LET h == Head(todo) IN
       \E ok \in SUBSET Wanted(h) :
          /\ ~(Valid(h) /\ ~active[h.id]) => ok = {}
          /\ streams' = [streams EXCEPT ![h.id] = @ \cup ok]
          /\ IF ok = Wanted(h) THEN Loaded ELSE Return("error")
    /\ UNCHANGED <<owner, handler, active, held, unrecorded>>

\* StartCmd.Run: a port without streams refuses; force restarts a running one.
Start ==
    /\ pc = "start"
    /\ LET h == Head(todo) IN
       \/ /\ Valid(h) /\ streams[h.id] # {}
          /\ active' = [active EXCEPT ![h.id] = TRUE]
          /\ Advance("start", "started")
       \/ /\ ~(Valid(h) /\ streams[h.id] # {})
          /\ Return("error") /\ UNCHANGED active
    /\ UNCHANGED <<owner, handler, streams, held, unrecorded>>

StopIgnoresErrors ==
    /\ pc = "stop"
    /\ LET h == Head(todo) IN
       /\ active' = [active EXCEPT ![h.id] = @ /\ ~Valid(h)]
       /\ Advance("stop", "stopped")
    /\ UNCHANGED <<owner, handler, streams, held, unrecorded>>

StopRetries ==
    /\ pc = "stop"
    /\ LET h == Head(todo) IN
       /\ active' = [active EXCEPT ![h.id] = @ /\ ~Valid(h)]
       /\ IF Valid(h) /\ active[h.id] THEN Advance("stop", "stopped")
                                     ELSE Goto("stop", todo) /\ UNCHANGED acquired
    /\ UNCHANGED <<owner, handler, streams, held, unrecorded>>

\* StopCmd.Run: an idle port refuses, and the first refusal returns.
Stop ==
    /\ pc = "stop"
    /\ LET h == Head(todo) IN
       \/ /\ Valid(h) /\ active[h.id]
          /\ active' = [active EXCEPT ![h.id] = FALSE]
          /\ Advance("stop", "stopped")
       \/ /\ ~(Valid(h) /\ active[h.id])
          /\ Return("error") /\ UNCHANGED active
    /\ UNCHANGED <<owner, handler, streams, held, unrecorded>>

-----------------------------------------------------------------------------
(* The search of the ndr command, on the ports it has loaded *)

\* Find asks for the active groups and gives up when there are none.
Find ==
    /\ pc = "find"
    /\ \/ runs' = 1 /\ pc' = "settle" /\ UNCHANGED <<cmd, todo, acquired, status, cmds, procs, touched>>
       \/ Return("error")
    /\ UNCHANGED <<server, held, unrecorded>>

\* stopAll: errors are ignored.  It runs before a measurement ("settle"), after
\* its hold ("unwind"), and deferred: when it ends ("finish") or fails ("abort").
stopAll ==
    /\ pc \in {"settle", "unwind", "finish", "abort"}
    /\ LET h == Head(todo)
           l == CASE pc = "settle" -> "baseline" [] pc = "unwind" -> "drain"
                  [] pc = "finish" -> "verdict"  [] pc = "abort"  -> "failed"
       IN  /\ active' = [active EXCEPT ![h.id] = @ /\ ~Valid(h)]
           /\ IF Len(todo) > 1 THEN Goto(pc, Tail(todo)) ELSE Goto(l, held)
    /\ UNCHANGED <<owner, handler, streams, held, unrecorded, acquired>>

\* The counters are read, before any traffic; an error returns at once.
Baseline ==
    /\ pc = "baseline"
    /\ Goto("ramp", held) \/ Goto("failed", held)
    /\ UNCHANGED <<server, held, unrecorded, acquired>>

\* rampTo starts the ports one by one; the first refusal ends the measurement.
rampTo ==
    /\ pc = "ramp"
    /\ LET h == Head(todo) IN
       \/ /\ Valid(h) /\ streams[h.id] # {}
          /\ active' = [active EXCEPT ![h.id] = TRUE]
          /\ IF Len(todo) > 1 THEN Goto("ramp", Tail(todo)) ELSE Goto("hold", held)
       \/ /\ ~(Valid(h) /\ streams[h.id] # {})
          /\ Goto("abort", held) /\ UNCHANGED active
    /\ UNCHANGED <<owner, handler, streams, held, unrecorded, acquired>>

\* The duration has passed; or an update of the ramp failed, or Ctrl-C.
Hold ==
    /\ pc = "hold"
    /\ Goto("unwind", held) \/ Goto("abort", held)
    /\ UNCHANGED <<server, held, unrecorded, acquired>>

\* The drain and the final counters; Ctrl-C or an error.
Drain ==
    /\ pc = "drain"
    /\ Goto("finish", held) \/ Goto("abort", held)
    /\ UNCHANGED <<server, held, unrecorded, acquired>>

\* The search goes on with another rate, or its results are printed and written,
\* which may fail.
Verdict ==
    /\ pc = "verdict"
    /\ \/ /\ runs < MaxRuns /\ runs' = runs + 1 /\ pc' = "settle"
          /\ UNCHANGED <<cmd, todo, acquired, status, cmds, procs, touched>>
       \/ Return("measured") \/ Return("error")
    /\ UNCHANGED <<server, held, unrecorded>>

RunFailed ==
    /\ pc = "failed" /\ Return("error")
    /\ UNCHANGED <<server, held, unrecorded>>

-----------------------------------------------------------------------------
(* The end of the process *)

Exit ==
    /\ pc = "ready"
    /\ pc' = "release" /\ todo' = held
    /\ UNCHANGED <<server, held, unrecorded, cmd, acquired, status, count, touched>>

ReleaseFirstOnly ==
    /\ pc = "release"
    /\ IF todo # <<>>
       THEN /\ owner' = [owner EXCEPT ![Head(todo).id] = "none"]
            /\ todo' = <<>> /\ UNCHANGED <<pc, held>>
       ELSE pc' = "exited" /\ held' = <<>> /\ UNCHANGED <<owner, todo>>
    /\ UNCHANGED <<unrecorded, handler, active, streams, cmd, acquired, status, count, touched>>

\* ReleasePorts: best effort, a refusal is ignored.
ReleasePorts ==
    /\ pc = "release"
    /\ IF todo # <<>>
       THEN LET h == Head(todo) IN
            /\ owner' = IF Valid(h) THEN [owner EXCEPT ![h.id] = "none"] ELSE owner
            /\ todo' = Tail(todo) /\ UNCHANGED <<pc, held>>
       ELSE pc' = "exited" /\ held' = <<>> /\ UNCHANGED <<owner, todo>>
    /\ UNCHANGED <<unrecorded, handler, active, streams, cmd, acquired, status, count, touched>>

\* The process is killed: no deferred call runs.
Killed ==
    /\ pc # "exited" /\ pc # "killed" /\ procs < MaxProcs
    /\ pc' = "killed" /\ held' = <<>> /\ unrecorded' = {} /\ todo' = <<>> /\ acquired' = <<>>
    /\ cmd' = NoCmd /\ status' = "ok" /\ runs' = 0
    /\ UNCHANGED <<server, cmds, procs, touched>>

\* The next invocation: another session id, so that what the last process still
\* owns is somebody else's.
NewProcess ==
    /\ pc \in {"exited", "killed"} /\ procs < MaxProcs
    /\ procs' = procs + 1
    /\ owner' = [p \in Ports |-> IF owner[p] = "us" THEN "gone" ELSE owner[p]]
    /\ pc' = "ready" /\ status' = "ok" /\ cmd' = NoCmd
    /\ unrecorded' = {}
    /\ UNCHANGED <<handler, active, streams, held, todo, acquired, cmds, runs, touched>>

-----------------------------------------------------------------------------
(* The rest of the world *)

client == <<held, unrecorded, pc, cmd, todo, acquired, status, count>>

\* Timed traffic or the last burst of a port ends.
Finish(p) ==
    /\ active[p] /\ active' = [active EXCEPT ![p] = FALSE]
    /\ UNCHANGED <<owner, handler, streams, client, touched>>

\* Another session acquires the port, forcing it if need be.
OtherAcquire(p) ==
    /\ owner[p] # "other"
    /\ owner' = [owner EXCEPT ![p] = "other"]
    /\ touched' = touched \cup {p}
    /\ UNCHANGED <<handler, active, streams, client>>

OtherRelease(p) ==
    /\ owner[p] = "other"
    /\ owner' = [owner EXCEPT ![p] = "none"]
    /\ UNCHANGED <<handler, active, streams, client, touched>>

OtherTraffic(p) ==
    /\ owner[p] = "other" /\ ~active[p]
    /\ streams' = [streams EXCEPT ![p] = {"foreign"}]
    /\ active' = [active EXCEPT ![p] = TRUE]
    /\ UNCHANGED <<owner, handler, client, touched>>

Command == StreamsCmd \/ StartCmd \/ StopCmd \/ NDRCmd
Rpc     == \/ acquirePorts \/ RemoveAllStreams \/ AddStreams \/ Start \/ Stop
           \/ Find \/ stopAll \/ Baseline \/ rampTo \/ Hold \/ Drain \/ Verdict \/ RunFailed \/ ReleasePorts

Next ==
    \/ Command \/ Rpc \/ Exit \/ Killed \/ NewProcess
    \/ \E p \in Ports : Finish(p) \/ OtherAcquire(p) \/ OtherRelease(p) \/ OtherTraffic(p)

Spec     == Init /\ [][Next]_vars
FairSpec == Spec /\ WF_vars(Rpc)

-----------------------------------------------------------------------------
(* Properties *)

Measuring == {"find", "settle", "baseline", "ramp", "hold", "unwind", "drain", "finish",
              "verdict", "abort", "failed"}
Busy      == {"acquire", "remove", "add", "start", "stop"} \cup Measuring

\* Types of the server's and the client's state.
TypeOK ==
    /\ owner \in [Ports -> {"none", "us", "gone", "other"}]
    /\ handler \in [Ports -> Nat]
    /\ active \in [Ports -> BOOLEAN]
    /\ pc \in {"ready", "release", "exited", "killed"} \cup Busy
    /\ \A h \in Elems(held) \cup Elems(acquired) : h.handler <= handler[h.id]
    /\ pc \in Busy => todo # <<>>
    /\ runs <= MaxRuns /\ procs <= MaxProcs

Untouched == {h \in Elems(held) : h.id \notin touched}

\* When "loaded" is printed every port of the context that nobody else took has
\* exactly the streams of the profile for its direction: nothing is left of an
\* earlier profile or of a half-failed upload.
LoadedExactly ==
    (pc = "ready" /\ status = "loaded") =>
        \A h \in Untouched : streams[h.id] = StreamsFor[cmd.profile][h.id]

\* When "stopped" is printed no port of the context that nobody else took is
\* transmitting, not even traffic that a killed process started; nor is one
\* when the results of a search are.
StoppedMeansIdle ==
    (pc = "ready" /\ status \in {"stopped", "measured"}) => \A h \in Untouched : ~active[h.id]

\* The traffic of a search is its own: a port that nobody else took transmits,
\* from the search's first call on, exactly the streams of the search's profile.
\* Nothing that a killed process left running, or left on a port, is measured.
MeasuresOwnTraffic ==
    pc \in Measuring => \A h \in Untouched : active[h.id] => streams[h.id] = Wanted(h)

\* A process that has exited owns no port but those whose handle it never kept or
\* no longer kept: every port of Context.Ports that is still its own is released,
\* whatever its commands did before, were refused or lost to another session.
NoOrphanPorts ==
    pc = "exited" => \A p \in Ports : owner[p] = "us" => p \in unrecorded

\* ReleasePorts is called "so ports are not left owned by a session that is going
\* away".  It fails: a port granted before another one was refused is in no list.
ExitLeavesNoPort == pc = "exited" => \A p \in Ports : owner[p] # "us"

\* A command always comes back to the prompt, and an exit ends.
CommandReturns ==
    /\ (pc \in Busy) ~> (pc \in {"ready", "killed"})
    /\ (pc = "release") ~> (pc \in {"exited", "killed"})

=============================================================================
